-------------------------------- MODULE TeaFile --------------------------------
(***************************************************************************)
(* The TEA file cipher (crypto/impl: tea_test.c, ciphers/tea.c, with       *)
(* lib/zclib.c): a file is read in blocks and the transformed blocks are   *)
(* written to "tmpfile" of the working directory, which may be the file    *)
(* that is read.  Runs follow one another.  The build is the one in which  *)
(* u32 has half a block; the widths of a byte and of a word are constants. *)
(***************************************************************************)
EXTENDS Integers, Sequences

CONSTANTS
  Byte,          \* number of values of a byte
  BLOCK,         \* bytes in a block (8), two words
  TEA_ROUNDS, TEA_DELTA,
  gkey,          \* the four bytes of the key
  Exor(_, _),    \* exclusive or of two words
  NL,            \* '\n'
  Files,         \* contents the file may have
  Leftovers,     \* contents tmpfile may have before the first run
  Parts,         \* numbers of bytes a full disk still takes of a block
  MaxRuns        \* bound: runs of the program

Half == BLOCK \div 2
ByteValues == 0 .. Byte - 1

(* number of values of a u32 *)
M == LET power[n \in 0 .. Half] == IF n = 0 THEN 1 ELSE Byte * power[n - 1]
     IN  power[Half]

ASSUME TeaAssumption ==
  /\ Byte \in Nat \ {0} /\ NL \in ByteValues
  /\ BLOCK \in Nat \ {0} /\ BLOCK % 2 = 0
  /\ TEA_ROUNDS = 32 /\ TEA_DELTA \in Nat
  /\ gkey \in Seq(ByteValues) /\ Len(gkey) = 4
  /\ \A a, b \in 0 .. M - 1 : Exor(a, b) \in 0 .. M - 1
  /\ Files \subseteq Seq(ByteValues) /\ Leftovers \subseteq Seq(ByteValues)
  /\ Parts \subseteq 0 .. BLOCK - 1 /\ MaxRuns \in Nat

VARIABLES
  pc,            \* "shell", "read", "write"
  file, tmp,     \* contents of the file and of tmpfile
  op, inPlace,   \* this run: en or de; tmpfile is its <FILE>
  given, old,    \* history: contents of <FILE> and of tmpfile when it began
  at, wat,       \* offsets of gsrc and gdst
  src, dst,      \* the blocks of do_op
  out,           \* the result of do_op, "true if fail"
  trouble,       \* history: what failed in this run
  code, runs     \* exit code of the last run; number of runs begun

fileVars == <<file, tmp>>
runVars == <<op, inPlace, given, old, runs>>
blockVars == <<src, dst>>
vars == <<pc, fileVars, runVars, at, wat, blockVars, out, trouble, code>>

KEY(i) == gkey[i + 1]              \* tea_setkey: one byte of the key a word

(* a u32 of little endian bytes, and its bytes *)
Word(b) ==
  LET high[n \in 0 .. Half] == IF n = 0 THEN 0 ELSE b[Half - n + 1] + Byte * high[n - 1]
  IN  high[Half]
Bytes(w) ==
  LET rest[n \in 0 .. Half] == IF n = 0 THEN w ELSE rest[n - 1] \div Byte
  IN  [j \in 1 .. Half |-> rest[j - 1] % Byte]

(* the words y and z of a block *)
Load(b) == [y |-> Word([j \in 1 .. Half |-> b[j]]), z |-> Word([j \in 1 .. Half |-> b[Half + j]])]
Store(p) == [j \in 1 .. BLOCK |-> IF j <= Half THEN Bytes(p.y)[j] ELSE Bytes(p.z)[j - Half]]

Mix(v, sum, k, l) == Exor(Exor((v * 16 + k) % M, (v + sum) % M), ((v \div 32) + l) % M)

(* a turn of each of the two loops *)
EncryptRound(p, sum) ==
  LET y == (p.y + Mix(p.z, sum, KEY(0), KEY(1))) % M
  IN  [y |-> y, z |-> (p.z + Mix(y, sum, KEY(2), KEY(3))) % M]
DecryptRound(p, sum) ==
  LET z == (p.z + (M - Mix(p.y, sum, KEY(2), KEY(3)))) % M
  IN  [y |-> (p.y + (M - Mix(z, sum, KEY(0), KEY(1)))) % M, z |-> z]

tea_encrypt(b) ==
  LET turn[n \in 0 .. TEA_ROUNDS] ==
        IF n = 0 THEN Load(b) ELSE EncryptRound(turn[n - 1], (n * TEA_DELTA) % M)
  IN  Store(turn[TEA_ROUNDS])

(* Mutant: decryption starts at the sum of half the rounds. *)
SumStartHalf == (TEA_DELTA * 16) % M

(* TEA_DELTA << 5 *)
SumStart == (TEA_DELTA * 32) % M

tea_decrypt(b) ==
  LET turn[n \in 0 .. TEA_ROUNDS] ==
        IF n = 0 THEN Load(b)
        ELSE DecryptRound(turn[n - 1], (SumStart + (M - (TEA_DELTA % M)) * (n - 1)) % M)
  IN  Store(turn[TEA_ROUNDS])

Tea(o, b) == IF o = "en" THEN tea_encrypt(b) ELSE tea_decrypt(b)

Zeros == [j \in 1 .. BLOCK |-> 0]

Init ==
  /\ pc = "shell" /\ file \in Files /\ tmp \in Leftovers
  /\ op = "en" /\ inPlace = FALSE /\ given = <<>> /\ old = <<>>
  /\ at = 0 /\ wat = 0 /\ src = Zeros /\ dst = Zeros
  /\ out = 1 /\ trouble = {} /\ code = 1 /\ runs = 0

(* usage, or tea_init returns 0: a file cannot be opened, or zc_open takes  *)
(* descriptor 0, which open returns when stdin is closed, for a failure.    *)
(* tmpfile is not touched.                                                  *)
NotStarted ==
  /\ pc = "shell" /\ runs < MaxRuns
  /\ code' = 0 /\ runs' = runs + 1
  /\ UNCHANGED <<pc, fileVars, op, inPlace, given, old, at, wat, blockVars, out, trouble>>

(* tea_init: O_CREAT | O_RDWR keeps what tmpfile holds *)
Start ==
  /\ pc = "shell" /\ runs < MaxRuns /\ runs' = runs + 1
  /\ op' \in {"en", "de"} /\ inPlace' \in BOOLEAN
  /\ given' = (IF inPlace' THEN tmp ELSE file) /\ old' = tmp
  /\ at' = 0 /\ wat' = 0 /\ out' = 1 /\ trouble' = {}
  /\ pc' = "read"
  /\ UNCHANGED <<fileVars, blockVars, code>>

(* tea_exit and the return from main *)
Exit == pc' = "shell" /\ code' = 1

(* Mutant: a short block keeps the tail of the block before it. *)
PaddedStale(bytes) == [j \in 1 .. BLOCK |-> IF j <= Len(bytes) THEN bytes[j] ELSE src[j]]

Padded(bytes) == [j \in 1 .. BLOCK |-> IF j <= Len(bytes) THEN bytes[j] ELSE NL]

(* read, the padding of a short block, and the cipher *)
ReadBlock ==
  LET content == IF inPlace THEN tmp ELSE file
      bytes == SubSeq(content, at + 1, IF at + BLOCK < Len(content) THEN at + BLOCK ELSE Len(content))
  IN
  /\ pc = "read" /\ bytes # <<>>
  /\ out' = IF Len(bytes) < BLOCK THEN 0 ELSE out
  /\ at' = at + Len(bytes)
  /\ src' = Padded(bytes)
  /\ dst' = Tea(op, src')
  /\ pc' = "write"
  /\ UNCHANGED <<fileVars, runVars, wat, trouble, code>>

(* read returns 0: the end of a file of whole blocks *)
ReadEnds ==
  /\ pc = "read" /\ at >= Len(IF inPlace THEN tmp ELSE file)
  /\ out' = 0
  /\ Exit
  /\ UNCHANGED <<fileVars, runVars, at, wat, blockVars, trouble>>

(* read returns -1 *)
ReadFails ==
  /\ pc = "read"
  /\ trouble' = trouble \cup {"read"}
  /\ Exit
  /\ UNCHANGED <<fileVars, runVars, at, wat, blockVars, out>>

Overwrite(content, offset, bytes) ==
  SubSeq(content, 1, offset) \o bytes \o SubSeq(content, offset + Len(bytes) + 1, Len(content))

(* while (out) *)
Turn == IF out = 0 THEN Exit ELSE pc' = "read" /\ UNCHANGED code

(* write of the whole block, or, on a full disk, of a part that nobody sees *)
WriteBlock ==
  /\ pc = "write"
  /\ \E n \in Parts \cup {BLOCK} :
       /\ tmp' = Overwrite(tmp, wat, SubSeq(dst, 1, n))
       /\ wat' = wat + n
       /\ trouble' = trouble \cup (IF n < BLOCK THEN {"short"} ELSE {})
  /\ Turn
  /\ UNCHANGED <<file, runVars, at, blockVars, out>>

(* write returns -1: break, with out as the read left it *)
WriteFails ==
  /\ pc = "write"
  /\ trouble' = trouble \cup {"write"}
  /\ Exit
  /\ UNCHANGED <<fileVars, runVars, at, wat, blockVars, out>>

(* the user takes what was written, as mv tmpfile file *)
Keep ==
  /\ pc = "shell" /\ runs \in 1 .. MaxRuns - 1
  /\ file' = tmp /\ tmp' = <<>>
  /\ op' = "en" /\ inPlace' = FALSE /\ given' = <<>> /\ old' = <<>>
  /\ at' = 0 /\ wat' = 0 /\ src' = Zeros /\ dst' = Zeros
  /\ out' = 1 /\ trouble' = {"moved"}
  /\ UNCHANGED <<pc, code, runs>>

Next == NotStarted \/ Start \/ ReadBlock \/ ReadEnds \/ ReadFails \/ WriteBlock \/ WriteFails
        \/ Keep

Spec == Init /\ [][Next]_vars
-------------------------------------------------------------------------------
(* The file as do_op should see it, and what it should make of it. *)
Blocks(s) == (Len(s) + BLOCK - 1) \div BLOCK
Whole(s) == [j \in 1 .. Blocks(s) * BLOCK |-> IF j <= Len(s) THEN s[j] ELSE NL]
Block(s, k) == SubSeq(s, (k - 1) * BLOCK + 1, k * BLOCK)

(* Whatever a run has written, the reverse operation gives back the block   *)
(* that was read: the rounds of tea.c 58-80 undo those of 25-56, from the   *)
(* sum 76 starts with, in the width of a u32.                               *)
BlocksInvertible ==
  pc = "write" => src = Tea(IF op = "en" THEN "de" ELSE "en", dst)

(* After a run in which nothing failed, tmpfile begins with the transformed *)
(* file, padded to whole blocks, also when tmpfile was the file and was     *)
(* overwritten while it was read; behind it is the tail of what tmpfile     *)
(* held before (tea_test.c 26 does not truncate).  A run that reports       *)
(* failure had one, and one that does not may have missed a short write or  *)
(* the failed write of the last block.                                      *)
WholeFile ==
  pc = "shell" /\ code = 1 /\ runs > 0 /\ "moved" \notin trouble =>
    /\ trouble = {} =>
         LET w == Whole(given) IN
         /\ Len(tmp) >= Len(w)
         /\ \A k \in 1 .. Blocks(w) : Block(tmp, k) = Tea(op, Block(w, k))
         /\ SubSeq(tmp, Len(w) + 1, Len(tmp)) = SubSeq(old, Len(w) + 1, Len(old))
         /\ out = 0
    /\ out = 1 => trouble # {}
    /\ out = 0 => "read" \notin trouble /\ ("write" \in trouble => Len(given) % BLOCK # 0)
===============================================================================
