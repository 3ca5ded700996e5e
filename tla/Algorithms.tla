------------------------------ MODULE Algorithms ------------------------------
(***************************************************************************)
(* The small programs of the repository, as what one call computes: an     *)
(* input is chosen, the algorithm is run on it, and its result is compared *)
(* with a definition that says what it should be.  Machine words are       *)
(* narrower than the code's; every width is a constant.                    *)
(***************************************************************************)
EXTENDS Integers, SequencesExt, Bitwise

CONSTANTS
  LogWidth,     \* count_bit: a word of 2 ^ LogWidth bits (code: 5)
  MaxCopy,      \* tom_duff: bytes copied, at most
  MaxDigits,    \* daffodil: digits of a number, at most (code: 9)
  ByteBits,     \* strlen, sequence.h: bits of a byte (code: 8)
  LongBytes,    \* strlen: bytes of a long
  Kilo, PageSize, LONG_MAX,   \* ptok
  BUFSIZ        \* getwebcode

VARIABLES call, done, result

(* count_bit.c *)
bit_count(N) == LET f[n \in Nat] == IF n = 0 THEN 0 ELSE (n & 1) + f[n \div 2] IN f[N]
bit_count2(N) == LET f[n \in Nat] == IF n = 0 THEN 0 ELSE 1 + f[n & (n - 1)] IN f[N]

Width == 2 ^ LogWidth
(* Mutant: masks of half the fields. *)
MASKHalf(c) == (2 ^ Width - 1) \div (2 ^ (2 ^ (c + 1)) + 1)
MASK(c) == (2 ^ Width - 1) \div (2 ^ (2 ^ c) + 1)
ROUND(n, c) == (n & MASK(c)) + ((n \div 2 ^ (2 ^ c)) & MASK(c))
bit_count3(N) == FoldLeft(ROUND, N, [c \in 1 .. LogWidth |-> c - 1])

(* tom_duff.c: the bytes copied; the first pass enters the loop at a case *)
COPY_COUNT == 5
foo(from, n) ==
  LET round == (n + COPY_COUNT - 1) \div COPY_COUNT
      entry == IF n % COPY_COUNT = 0 THEN COPY_COUNT ELSE n % COPY_COUNT
      f[r \in Nat] == IF r - 1 = 0 THEN 0 ELSE COPY_COUNT + f[r - 1]   \* while (--round)
  IN  SubSeq(from, 1, entry + f[round])
foo3(from, n) ==
  LET f[k \in Nat] == IF k - 1 = 0 THEN 1 ELSE 1 + f[k - 1] IN SubSeq(from, 1, f[n])

(* rot13.c, on the codes of ASCII *)
isalpha(c) == c \in (65 .. 90) \cup (97 .. 122)
tolower(c) == IF c \in 65 .. 90 THEN c + 32 ELSE c
rot13_main(c) ==
  IF ~isalpha(c) THEN c ELSE IF tolower(c) < 110 THEN c + 13 ELSE c - 13
rot13_write(text) == [k \in DOMAIN text |-> rot13_main(text[k])]

(* daffodil.c: powers by squaring, digits from the highest *)
do_pow(n, pow) ==
  LET f[p \in Nat, b \in Nat, residue \in Nat] ==
        IF p <= 1 THEN b * residue
        ELSE f[p \div 2, b * b, IF p % 2 = 1 THEN residue * b ELSE residue]
  IN  IF n <= 1 \/ pow = 1 THEN n ELSE f[pow, n, 1]
is_daffodil(n, bit) ==
  LET digit(k) == (n \div 10 ^ k) - (n \div 10 ^ (k + 1)) * 10
  IN  /\ bit # 0
      /\ n = FoldLeft(LAMBDA cnt, k : cnt + do_pow(digit(k), bit), 0,
                      [k \in 1 .. bit |-> bit - k])

(* align_test.c: a block of 1024 bytes at an aligned place of a bigger one *)
IS_ALIGNED(x, a) == (x & (a - 1)) = 0
test_mask(mem, align) == LET top == mem + align - 1 IN top - (top & (align - 1))

(* strlen.c: whole longs once p is aligned *)
Base == 2 ^ ByteBits
mask01 == FoldLeft(LAMBDA acc, k : acc * Base + 1, 0, [k \in 1 .. LongBytes |-> k])
mask80 == mask01 * 2 ^ (ByteBits - 1)
Long(mem, p) ==
  FoldRight(LAMBDA k, acc : mem[p + k] + Base * acc, [k \in 1 .. LongBytes |-> k], 0)
strlen(mem, str) ==
  LET p == ((str + LongBytes - 1) \div LongBytes) * LongBytes
      head == {k \in str .. p - 1 : mem[k + 1] = 0}
      Hit(q) == (((Long(mem, q) + Base ^ LongBytes - mask01) % (Base ^ LongBytes)) & mask80) # 0
      Zero(q) == {k \in 0 .. LongBytes - 1 : mem[q + k + 1] = 0}
      f[q \in Nat] == IF Hit(q) /\ Zero(q) # {}
                      THEN (q - str) + (CHOOSE k \in Zero(q) : \A j \in Zero(q) : k <= j)
                      ELSE f[q + LongBytes]
  IN  IF head # {} THEN (CHOOSE k \in head : \A j \in head : k <= j) - str ELSE f[p]

(* endian.c and byte_order: a number as bytes, highest first, as the        *)
(* machine stores it                                                        *)
Stored(order, bytes) == IF order = "big" THEN bytes ELSE Reverse(bytes)
is_big_endian(order) == Stored(order, <<1, 2>>)[1] = 1
test_endianness(order, long) ==
  Stored(order, [k \in 1 .. long |-> IF k + 4 > long THEN 9 + k + 4 - long ELSE 0])[1] = 10
test_byte_field(order) == IF Stored(order, <<0, 1>>) = <<1, 0>> THEN 1 ELSE Base

(* sequence.h, on a little endian machine *)
FF(k) == (Base - 1) * Base ^ k
htons(a) == ((a & FF(1)) \div Base) | ((a & FF(0)) * Base)
htonl(a) == ((((a & FF(3)) \div Base ^ 3) | ((a & FF(2)) \div Base)) | ((a & FF(1)) * Base))
            | ((a & FF(0)) * Base ^ 3)
BytesOf(a, n) == [k \in 1 .. n |-> (a \div Base ^ (n - k)) % Base]

(* time.c *)
ptok(pages) ==
  IF pages > LONG_MAX \div PageSize THEN (pages \div Kilo) * PageSize
                                    ELSE (pages * PageSize) \div Kilo

(* %E, %u and %T: hours, minutes and seconds, or minutes, seconds, 1/100 *)
ShowTime(sec, usec) ==
  IF sec >= 3600 THEN <<sec \div 3600, (sec % 3600) \div 60, sec % 60>>
                 ELSE <<sec \div 60, sec % 60, usec \div 10000>>

(* summarize: what is put, and the place where the walk over the format ends *)
summarize(fmt) ==
  LET at(p) == IF p <= Len(fmt) THEN fmt[p] ELSE "NUL"
      f[p \in Nat] ==
        LET c == at(p + 1)
            Then(s, q) == [f[q] EXCEPT !.out = s \o @] IN
        CASE at(p) = "NUL" -> [out |-> <<"newline">>, end |-> p]
          [] at(p) = "%" /\ c = "NUL" -> [out |-> <<"?">>, end |-> p + 1]
          [] at(p) = "%" /\ c = "%" -> Then(<<"%">>, p + 2)
          [] at(p) = "%" /\ c = "E" -> Then(<<"time">>, p + 2)
          [] at(p) = "%" /\ c \notin {"NUL", "%", "E"} -> Then(<<"?", c>>, p + 2)
          [] at(p) = "\\" /\ c = "NUL" -> [out |-> <<"?", "\\", c>>, end |-> p + 2]
          [] at(p) = "\\" /\ c = "n" -> Then(<<"newline">>, p + 2)
          [] at(p) = "\\" /\ c = "\\" -> Then(<<"\\">>, p + 2)
          [] at(p) = "\\" /\ c \notin {"NUL", "n", "\\"} -> Then(<<"?", "\\", c>>, p + 2)
          [] at(p) \notin {"NUL", "%", "\\"} -> Then(<<at(p)>>, p + 1)
  IN  f[1]

(* getwebcode.c: the address cut at the first slash *)
geturl(url) ==
  LET slash == {k \in DOMAIN url : url[k] = "/"}
      first == CHOOSE k \in slash : \A j \in slash : k <= j
  IN  IF slash = {} THEN [host |-> url, GET |-> <<"/">>]
      ELSE [host |-> SubSeq(url, 1, first - 1), GET |-> SubSeq(url, first, Len(url))]

(* the page, printed as it comes: recv writes over the start of text, "%s"  *)
(* stops at a NUL, and strnset clears up to there                           *)
Page(chunks) ==
  LET Text(t) == SubSeq(t, 1, (CHOOSE k \in DOMAIN t :
                                 t[k] = "NUL" /\ \A j \in 1 .. k - 1 : t[j] # "NUL") - 1)
      Step(s, chunk) ==
        LET t == [k \in 1 .. BUFSIZ |-> IF k <= Len(chunk) THEN chunk[k] ELSE s.text[k]] IN
        [text |-> [k \in 1 .. BUFSIZ |-> IF k <= Len(Text(t)) THEN "NUL" ELSE t[k]],
         out |-> s.out \o Text(t)]
  IN  FoldLeft(Step, [text |-> [k \in 1 .. BUFSIZ |-> "NUL"], out |-> <<>>], chunks).out
-------------------------------------------------------------------------------
Words(S, n) == UNION {[1 .. k -> S] : k \in 0 .. n}

(* the calls: inputs the programs give or could be given.  A copy of 0      *)
(* bytes is left out: foo and foo3 would count down from 0.  A chunk that   *)
(* fills text would leave it without an end.                                *)
Init ==
  /\ done = FALSE /\ result = <<>>
  /\ \/ \E n \in 0 .. 2 ^ Width - 1 : call = [of |-> "bits", n |-> n]
     \/ \E n \in 1 .. MaxCopy : call = [of |-> "copy", n |-> n]
     \/ \E c \in 0 .. 127 : call = [of |-> "rot13", text |-> <<c, 126 - (c \div 2)>>]
     \/ \E n \in 0 .. 9, p \in 1 .. 9 : call = [of |-> "pow", n |-> n, pow |-> p]
     \/ \E b \in 1 .. MaxDigits : \E n \in 10 ^ (b - 1) .. 10 ^ b - 1 :
          call = [of |-> "daffodil", n |-> n, bit |-> b]
     \/ \E mem \in 0 .. 130, a \in {16, 32, 64, 128} : call = [of |-> "align", mem |-> mem, a |-> a]
     \/ \E s \in [1 .. 2 * LongBytes -> {0, 1, Base \div 2}], o \in 0 .. LongBytes :
          call = [of |-> "strlen", mem |-> s \o [k \in 1 .. LongBytes |-> 0], str |-> o]
     \/ \E order \in {"big", "little"}, long \in {4, 8} :
          call = [of |-> "endian", order |-> order, long |-> long]
     \/ \E b \in [1 .. 4 -> {0, 1, Base - 1}] : call = [of |-> "swap", bytes |-> b]
     \/ \E n \in 0 .. LONG_MAX : call = [of |-> "ptok", pages |-> n]
     \/ \E sec \in {0, 1, 59, 60, 61, 3599, 3600, 3661, 7325, 360000},
           usec \in {0, 9999, 10000, 999999} : call = [of |-> "time", sec |-> sec, usec |-> usec]
     \/ \E fmt \in Words({"%", "E", "\\", "n", "a"}, 4) : call = [of |-> "format", fmt |-> fmt]
     \/ \E url \in Words({"/", "h", "p"}, 4) : call = [of |-> "url", url |-> url]
     \/ \E chunks \in Words(Words({"x", "y", "NUL"}, BUFSIZ - 1) \ {<<>>}, 2) :
          call = [of |-> "page", chunks |-> chunks]

From == [k \in 1 .. MaxCopy + COPY_COUNT |-> k]
Value(bytes) == FoldLeft(LAMBDA acc, b : acc * Base + b, 0, bytes)

Returns(of, value) ==
  /\ call.of = of /\ ~done
  /\ result' = value /\ done' = TRUE
  /\ UNCHANGED call

CountBits == Returns("bits", <<bit_count(call.n), bit_count2(call.n), bit_count3(call.n)>>)
Copy == Returns("copy", <<foo(From, call.n), foo3(From, call.n)>>)
Rot13 == Returns("rot13", rot13_write(call.text))
Pow == Returns("pow", do_pow(call.n, call.pow))
Daffodil == Returns("daffodil", is_daffodil(call.n, call.bit))
AlignTest == Returns("align", test_mask(call.mem, call.a))
Strlen == Returns("strlen", strlen(call.mem, call.str))
Endian == Returns("endian", <<is_big_endian(call.order), test_endianness(call.order, call.long),
                              test_byte_field(call.order)>>)
Swap == Returns("swap", <<htons(Value(SubSeq(call.bytes, 3, 4))), htonl(Value(call.bytes))>>)
Ptok == Returns("ptok", ptok(call.pages))
Time == Returns("time", ShowTime(call.sec, call.usec))
Format == Returns("format", summarize(call.fmt))
Url == Returns("url", geturl(call.url))
GetPage == Returns("page", Page(call.chunks))
Rests == done /\ UNCHANGED <<call, done, result>>

Next == CountBits \/ Copy \/ Rot13 \/ Pow \/ Daffodil \/ AlignTest \/ Strlen \/ Endian \/ Swap
        \/ Ptok \/ Time \/ Format \/ Url \/ GetPage \/ Rests

Spec == Init /\ [][Next]_<<call, done, result>>
-------------------------------------------------------------------------------
OneBits(n) == Cardinality({k \in 0 .. Width - 1 : (n \div 2 ^ k) % 2 = 1})
Rotated(c) == IF c \in 65 .. 90 THEN 65 + ((c - 65 + 13) % 26)
              ELSE IF c \in 97 .. 122 THEN 97 + ((c - 97 + 13) % 26) ELSE c

(* Each program computes what it is for: the number of 1 bits, three ways;  *)
(* a copy of exactly so many bytes, by Duff's device too; the alphabet      *)
(* rotated by 13; powers, and the numbers that are the sum of the powers of *)
(* their digits; an aligned block inside the allocated one; the distance to *)
(* the first NUL, from any address and whatever bytes have their high bit   *)
(* set; the byte order, which endian.c misses on a big endian machine with  *)
(* a long of 8 bytes, and network order on a little endian machine;         *)
(* kilobytes, within a page where the product would overflow; a time that   *)
(* adds up; a format walk that stops at the end unless a lone backslash is  *)
(* last; host and path of an address; a page in its order, each byte once,  *)
(* for certain up to its first NUL: what follows in that piece is lost, and *)
(* may be printed behind a later one.                                       *)
MatchesReference ==
  done =>
    CASE call.of = "bits" -> \A k \in 1 .. 3 : result[k] = OneBits(call.n)
      [] call.of = "copy" -> \A k \in 1 .. 2 : result[k] = SubSeq(From, 1, call.n)
      [] call.of = "rot13" -> /\ \A k \in DOMAIN result : result[k] = Rotated(call.text[k])
                              /\ rot13_write(result) = call.text
      [] call.of = "pow" -> result = call.n ^ call.pow
      [] call.of = "daffodil" ->
           result = (call.n = FoldLeft(LAMBDA acc, k : acc + (((call.n \div 10 ^ k) % 10) ^ call.bit),
                                       0, [k \in 1 .. call.bit |-> k - 1]))
      [] call.of = "align" -> /\ IS_ALIGNED(call.a, call.a)
                              /\ \A bits \in {16, 32, 64, 128} :
                                   bits <= call.a => result % bits = 0 /\ 1024 % bits = 0
                              /\ result >= call.mem
                              /\ result + 1024 <= call.mem + 1024 + call.a - 1
      [] call.of = "strlen" -> /\ call.mem[call.str + result + 1] = 0
                               /\ \A k \in 0 .. result - 1 : call.mem[call.str + k + 1] # 0
      [] call.of = "endian" -> LET big == call.order = "big" IN
                               result = <<big, big /\ call.long = 4, IF big THEN Base ELSE 1>>
      [] call.of = "swap" ->
           /\ Stored("little", BytesOf(result[1], 2)) = SubSeq(call.bytes, 3, 4)
           /\ Stored("little", BytesOf(result[2], 4)) = call.bytes
      [] call.of = "ptok" -> LET exact == (call.pages * PageSize) \div Kilo IN
                             exact <= LONG_MAX => exact - result \in 0 .. PageSize - 1
      [] call.of = "time" -> IF call.sec >= 3600
                             THEN /\ result[1] * 3600 + result[2] * 60 + result[3] = call.sec
                                  /\ result[2] < 60 /\ result[3] < 60
                             ELSE /\ result[1] * 60 + result[2] = call.sec /\ result[2] < 60
                                  /\ call.usec - result[3] * 10000 \in 0 .. 9999
      [] call.of = "format" ->
           /\ result.end > Len(call.fmt) + 1 => call.fmt[Len(call.fmt)] = "\\"
           /\ (\A k \in DOMAIN call.fmt : call.fmt[k] \notin {"%", "\\"})
                => result.out = Append(call.fmt, "newline")
      [] call.of = "url" -> /\ \A k \in DOMAIN result.host : result.host[k] # "/"
                            /\ result.GET[1] = "/"
                            /\ \/ call.url = result.host \o result.GET
                               \/ call.url = result.host /\ result.GET = <<"/">>
      [] call.of = "page" ->
           LET page == FlattenSeq(call.chunks)
               end == {k \in DOMAIN page : page[k] = "NUL"} IN
           IF end = {} THEN result = page
           ELSE \A k \in end : (\A j \in end : k <= j) => IsPrefix(SubSeq(page, 1, k - 1), result)
===============================================================================
