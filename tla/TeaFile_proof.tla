---------------------------- MODULE TeaFile_proof ----------------------------
(***************************************************************************)
(* Proofs about TeaFile, for every key, width of a word, delta, content of *)
(* the files and number of runs.  The rounds: a round of decryption undoes *)
(* the round of encryption with the same sum, and the sums of decryption   *)
(* are those of encryption backwards, so that the operations undo each     *)
(* other (BlocksInvert).  The runs: what has been written up to now is the *)
(* transformed beginning of the file, and what has not been read is still  *)
(* what it was, also when the file is the tmpfile that is being            *)
(* overwritten (FileWhole).                                                *)
(***************************************************************************)
EXTENDS TeaFile, NatLemmas, SequenceTheorems

Values == 0 .. M - 1
Pairs == [y : Values, z : Values]
HalfBlocks == [1 .. Half -> ByteValues]
WholeBlocks == [1 .. BLOCK -> ByteValues]

-------------------------------------------------------------------------------
\* A block is two halves.
LEMMA TwoHalves == /\ Half \in Nat /\ Half >= 1 /\ BLOCK = Half + Half /\ BLOCK \in Nat
                   /\ Byte \in Nat /\ Byte >= 1
<1>1. BLOCK \in Nat \ {0} /\ BLOCK % 2 = 0 /\ Byte \in Nat \ {0}
  BY TeaAssumption
<1> QED
  BY <1>1 DEF Half

\* The powers M is the last of.
LEMMA Powers ==
  \E power \in [0 .. Half -> Nat \ {0}] :
    M = power[Half] /\ power[0] = 1 /\ \A n \in 1 .. Half : power[n] = Byte * power[n - 1]
<1> DEFINE Is(c) == c = [n \in 0 .. Half |-> IF n = 0 THEN 1 ELSE Byte * c[n - 1]]
           next == [v \in (1 .. Half) \X (Nat \ {0}) |-> Byte * v[2]]
           S == Nat \ {0}
<1>1. Byte \in S /\ 1 \in S /\ Half \in Nat
  BY TwoHalves
<1>2. next \in [(1 .. Half) \X S -> S]
  <2>1. \A x \in S : Byte * x \in S
    BY <1>1
  <2> QED
    BY <2>1
<1>3. \E c \in [0 .. Half -> S] : Is(c)
  <2> HIDE DEF next, S
  <2>1. PICK c \in [0 .. Half -> S] : UnrollsTo(c, 1, next, Half)
    BY <1>1, <1>2, RecursionTo
  <2>2. ASSUME NEW i \in 0 .. Half
        PROVE  (IF i = 0 THEN 1 ELSE next[<<i, c[i - 1]>>])
                 = (IF i = 0 THEN 1 ELSE Byte * c[i - 1])
    <3>1. CASE i # 0
      <4>1. i \in 1 .. Half /\ c[i - 1] \in S
        BY <1>1, <3>1
      <4> QED
        BY <3>1, <4>1 DEF next, S
    <3> QED
      BY <3>1
  <2> QED
    BY <2>1, <2>2 DEF UnrollsTo
<1>4. M = (CHOOSE c : Is(c))[Half]
  BY DEF M
<1> DEFINE e == CHOOSE c : Is(c)
<1>5. Is(e)
  <2> HIDE DEF Is
  <2> QED
    BY <1>3
<1> HIDE DEF e
<1>6. e \in [0 .. Half -> S]
  <2> DEFINE T == {n \in Nat : n <= Half => e[n] \in S}
  <2>1. 0 \in T
    BY <1>1, <1>5
  <2>2. ASSUME NEW n \in T PROVE n + 1 \in T
    <3> SUFFICES ASSUME n + 1 <= Half PROVE e[n + 1] \in S
      OBVIOUS
    <3>1. e[n] \in S
      BY <1>1
    <3>2. e[n + 1] = Byte * e[n]
      BY <1>1, <1>5
    <3> QED
      BY <1>1, <3>1, <3>2
  <2> HIDE DEF T
  <2>3. T \in SUBSET Nat
    BY DEF T
  <2>4. T = Nat
    BY <2>1, <2>2, <2>3, Induct
  <2>5. \A n \in 0 .. Half : e[n] \in S
    BY <2>4 DEF T
  <2> QED
    BY <1>5, <2>5
<1>7. e[0] = 1 /\ \A n \in 1 .. Half : e[n] = Byte * e[n - 1]
  <2>1. 0 \in 0 .. Half /\ \A n \in 1 .. Half : n \in 0 .. Half /\ n # 0
    BY <1>1
  <2> QED
    BY <1>5, <2>1, Zenon
<1> QED
  BY <1>4, <1>6, <1>7 DEF e

\* The value of a word, from its high byte down.
LEMMA WordIs ==
  ASSUME NEW b \in HalfBlocks
  PROVE  \E high \in [0 .. Half -> Nat] :
           /\ Word(b) = high[Half] /\ high[0] = 0
           /\ \A n \in 1 .. Half : high[n] = b[Half - n + 1] + Byte * high[n - 1]
<1> DEFINE Is(c) == c = [n \in 0 .. Half |-> IF n = 0 THEN 0
                                             ELSE b[Half - n + 1] + Byte * c[n - 1]]
           next == [v \in (1 .. Half) \X Nat |-> b[Half - v[1] + 1] + Byte * v[2]]
<1>1. Byte \in Nat /\ Half \in Nat
  BY TwoHalves
<1>2. \A n \in 1 .. Half : b[Half - n + 1] \in Nat
  <2>1. \A n \in 1 .. Half : Half - n + 1 \in 1 .. Half
    BY <1>1
  <2> QED
    BY <1>1, <2>1 DEF HalfBlocks, ByteValues
<1>3. \A x \in Nat : Byte * x \in Nat
  BY <1>1
<1>4. next \in [(1 .. Half) \X Nat -> Nat]
  BY <1>2, <1>3
<1>5. \E c \in [0 .. Half -> Nat] : Is(c)
  <2> HIDE DEF next
  <2>1. PICK c \in [0 .. Half -> Nat] : UnrollsTo(c, 0, next, Half)
    BY <1>1, <1>4, RecursionTo
  <2>2. ASSUME NEW i \in 0 .. Half
        PROVE  (IF i = 0 THEN 0 ELSE next[<<i, c[i - 1]>>])
                 = (IF i = 0 THEN 0 ELSE b[Half - i + 1] + Byte * c[i - 1])
    <3>1. CASE i # 0
      <4>1. i \in 1 .. Half /\ c[i - 1] \in Nat
        BY <1>1, <3>1
      <4> QED
        BY <3>1, <4>1 DEF next
    <3> QED
      BY <3>1
  <2> QED
    BY <2>1, <2>2 DEF UnrollsTo
<1>6. Word(b) = (CHOOSE c : Is(c))[Half]
  BY DEF Word
<1> DEFINE e == CHOOSE c : Is(c)
<1>7. Is(e)
  <2> HIDE DEF Is
  <2> QED
    BY <1>5
<1> HIDE DEF e
<1>8. e[0] = 0 /\ \A n \in 1 .. Half : e[n] = b[Half - n + 1] + Byte * e[n - 1]
  <2>1. 0 \in 0 .. Half /\ \A n \in 1 .. Half : n \in 0 .. Half /\ n # 0
    BY <1>1
  <2> QED
    BY <1>7, <2>1, Zenon
<1>9. e \in [0 .. Half -> Nat]
  <2> DEFINE T == {n \in Nat : n <= Half => e[n] \in Nat}
  <2>1. 0 \in T
    BY <1>8
  <2>2. ASSUME NEW n \in T PROVE n + 1 \in T
    <3> SUFFICES ASSUME n + 1 <= Half PROVE e[n + 1] \in Nat
      OBVIOUS
    <3>1. n + 1 \in 1 .. Half /\ (n + 1) - 1 = n /\ e[n] \in Nat
      BY <1>1
    <3>2. e[n + 1] = b[Half - (n + 1) + 1] + Byte * e[n]
      BY <1>8, <3>1
    <3> QED
      BY <1>2, <1>3, <3>1, <3>2
  <2> HIDE DEF T
  <2>3. T \in SUBSET Nat
    BY DEF T
  <2>4. T = Nat
    BY <2>1, <2>2, <2>3, Induct
  <2>5. \A n \in 0 .. Half : e[n] \in Nat
    BY <2>4 DEF T
  <2> QED
    BY <1>7, <2>5
<1> QED
  BY <1>6, <1>8, <1>9 DEF e

\* The bytes of a word, from the low one up.
LEMMA BytesIs ==
  ASSUME NEW w \in Nat
  PROVE  \E rest \in [0 .. Half -> Nat] :
           /\ Bytes(w) = [j \in 1 .. Half |-> rest[j - 1] % Byte] /\ rest[0] = w
           /\ \A n \in 1 .. Half : rest[n] = rest[n - 1] \div Byte
<1> DEFINE Is(c) == c = [n \in 0 .. Half |-> IF n = 0 THEN w ELSE c[n - 1] \div Byte]
           next == [v \in (1 .. Half) \X Nat |-> v[2] \div Byte]
<1>1. Byte \in Nat /\ Byte >= 1 /\ Half \in Nat
  BY TwoHalves
<1>2. \A x \in Nat : x \div Byte \in Nat
  BY <1>1
<1>3. next \in [(1 .. Half) \X Nat -> Nat]
  BY <1>2
<1>4. \E c \in [0 .. Half -> Nat] : Is(c)
  <2> HIDE DEF next
  <2>1. PICK c \in [0 .. Half -> Nat] : UnrollsTo(c, w, next, Half)
    BY <1>1, <1>3, RecursionTo
  <2>2. ASSUME NEW i \in 0 .. Half
        PROVE  (IF i = 0 THEN w ELSE next[<<i, c[i - 1]>>])
                 = (IF i = 0 THEN w ELSE c[i - 1] \div Byte)
    <3>1. CASE i # 0
      <4>1. i \in 1 .. Half /\ c[i - 1] \in Nat
        BY <1>1, <3>1
      <4> QED
        BY <3>1, <4>1 DEF next
    <3> QED
      BY <3>1
  <2> QED
    BY <2>1, <2>2 DEF UnrollsTo
<1> DEFINE e == CHOOSE c : Is(c)
<1>5. Bytes(w) = [j \in 1 .. Half |-> e[j - 1] % Byte]
  BY DEF Bytes
<1>6. Is(e)
  <2> HIDE DEF Is
  <2> QED
    BY <1>4
<1> HIDE DEF e
<1>7. e[0] = w /\ \A n \in 1 .. Half : e[n] = e[n - 1] \div Byte
  <2>1. 0 \in 0 .. Half /\ \A n \in 1 .. Half : n \in 0 .. Half /\ n # 0
    BY <1>1
  <2> QED
    BY <1>6, <2>1, Zenon
<1>8. e \in [0 .. Half -> Nat]
  <2> DEFINE T == {n \in Nat : n <= Half => e[n] \in Nat}
  <2>1. 0 \in T
    BY <1>7
  <2>2. ASSUME NEW n \in T PROVE n + 1 \in T
    <3> SUFFICES ASSUME n + 1 <= Half PROVE e[n + 1] \in Nat
      OBVIOUS
    <3>1. n + 1 \in 1 .. Half /\ (n + 1) - 1 = n /\ e[n] \in Nat
      BY <1>1
    <3>2. e[n + 1] = e[n] \div Byte
      BY <1>7, <3>1
    <3> QED
      BY <1>2, <3>1, <3>2
  <2> HIDE DEF T
  <2>3. T \in SUBSET Nat
    BY DEF T
  <2>4. T = Nat
    BY <2>1, <2>2, <2>3, Induct
  <2>5. \A n \in 0 .. Half : e[n] \in Nat
    BY <2>4 DEF T
  <2> QED
    BY <1>6, <2>5
<1> QED
  BY <1>5, <1>7, <1>8

\* The largest value of a word of n bytes.
LEMMA WordRange == ASSUME NEW b \in HalfBlocks PROVE Word(b) \in Values
<1>1. PICK power \in [0 .. Half -> Nat \ {0}] :
        M = power[Half] /\ power[0] = 1 /\ \A n \in 1 .. Half : power[n] = Byte * power[n - 1]
  BY Powers
<1>2. PICK high \in [0 .. Half -> Nat] :
        /\ Word(b) = high[Half] /\ high[0] = 0
        /\ \A n \in 1 .. Half : high[n] = b[Half - n + 1] + Byte * high[n - 1]
  BY WordIs
<1>3. Half \in Nat /\ Byte \in Nat /\ Byte >= 1
  BY TwoHalves
<1> DEFINE T == {n \in Nat : n <= Half => high[n] < power[n]}
<1>4. 0 \in T
  BY <1>1, <1>2
<1>5. ASSUME NEW n \in T PROVE n + 1 \in T
  <2> SUFFICES ASSUME n + 1 <= Half PROVE high[n + 1] < power[n + 1]
    OBVIOUS
  <2>1. /\ n + 1 \in 1 .. Half /\ (n + 1) - 1 = n /\ n \in 0 .. Half
        /\ Half - (n + 1) + 1 \in 1 .. Half /\ high[n] < power[n]
    BY <1>3
  <2> DEFINE d == b[Half - (n + 1) + 1]
             h == high[n]
             p == power[n]
  <2>2. high[n + 1] = d + Byte * h /\ power[n + 1] = Byte * p
    BY <1>1, <1>2, <2>1
  <2>3. h \in Nat /\ p \in Nat /\ h <= p - 1
    BY <1>1, <1>2, <2>1
  <2>4. d \in 0 .. Byte - 1
    BY <2>1 DEF HalfBlocks, ByteValues
  <2> HIDE DEF d, h, p
  <2>5. Byte * h <= Byte * (p - 1) /\ Byte * (p - 1) = Byte * p - Byte
    BY <1>3, <2>3
  <2>6. d + Byte * h < Byte * p
    BY <1>3, <2>3, <2>4, <2>5
  <2> QED
    BY <2>2, <2>6
<1> HIDE DEF T
<1>6. T \in SUBSET Nat
  BY DEF T
<1>7. T = Nat
  BY <1>4, <1>5, <1>6, Induct
<1>8. Half \in T
  BY <1>3, <1>7
<1>9. high[Half] < power[Half] /\ high[Half] \in Nat /\ power[Half] \in Nat
  BY <1>1, <1>2, <1>3, <1>8 DEF T
<1> QED
  BY <1>1, <1>2, <1>9 DEF Values

\* The bytes of a word are bytes.
LEMMA BytesRange == ASSUME NEW w \in Nat PROVE Bytes(w) \in HalfBlocks
<1>1. PICK rest \in [0 .. Half -> Nat] :
        /\ Bytes(w) = [j \in 1 .. Half |-> rest[j - 1] % Byte] /\ rest[0] = w
        /\ \A n \in 1 .. Half : rest[n] = rest[n - 1] \div Byte
  BY BytesIs
<1>2. Half \in Nat /\ Byte \in Nat /\ Byte >= 1
  BY TwoHalves
<1>3. \A j \in 1 .. Half : rest[j - 1] % Byte \in ByteValues
  BY <1>2 DEF ByteValues
<1> QED
  BY <1>1, <1>3 DEF HalfBlocks

\* A word is the word of its bytes.
LEMMA WordOfBytes == ASSUME NEW w \in Values PROVE Word(Bytes(w)) = w
<1>1. w \in Nat /\ Half \in Nat /\ Byte \in Nat /\ Byte >= 1
  BY TwoHalves DEF Values
<1>2. PICK power \in [0 .. Half -> Nat \ {0}] :
        M = power[Half] /\ power[0] = 1 /\ \A n \in 1 .. Half : power[n] = Byte * power[n - 1]
  BY Powers
<1>3. PICK rest \in [0 .. Half -> Nat] :
        /\ Bytes(w) = [j \in 1 .. Half |-> rest[j - 1] % Byte] /\ rest[0] = w
        /\ \A n \in 1 .. Half : rest[n] = rest[n - 1] \div Byte
  BY <1>1, BytesIs
<1> DEFINE b == Bytes(w)
<1>4. b \in HalfBlocks /\ \A j \in 1 .. Half : b[j] = rest[j - 1] % Byte
  BY <1>1, <1>3, BytesRange
<1> HIDE DEF b
<1>5. PICK high \in [0 .. Half -> Nat] :
        /\ Word(b) = high[Half] /\ high[0] = 0
        /\ \A n \in 1 .. Half : high[n] = b[Half - n + 1] + Byte * high[n - 1]
  BY <1>4, WordIs
\* What is left after n bytes is less than the power of the others.
<1>6. rest[Half] = 0
  <2> DEFINE T == {n \in Nat : n <= Half => rest[n] < power[Half - n]}
  <2>1. 0 \in T
    <3>1. M \in Nat
      BY <1>1, <1>2
    <3>2. w < M
      BY <1>1, <3>1 DEF Values
    <3> QED
      BY <1>1, <1>2, <1>3, <3>2
  <2>2. ASSUME NEW n \in T PROVE n + 1 \in T
    <3> SUFFICES ASSUME n + 1 <= Half PROVE rest[n + 1] < power[Half - (n + 1)]
      OBVIOUS
    <3>1. /\ n + 1 \in 1 .. Half /\ (n + 1) - 1 = n /\ n \in 0 .. Half
          /\ Half - n \in 1 .. Half /\ Half - (n + 1) = (Half - n) - 1
          /\ Half - (n + 1) \in 0 .. Half /\ rest[n] < power[Half - n]
      BY <1>1
    <3> DEFINE r == rest[n]
               p == power[Half - (n + 1)]
    <3>2. r \in Nat /\ p \in Nat /\ r < Byte * p /\ rest[n + 1] = r \div Byte
      BY <1>2, <1>3, <3>1
    <3> HIDE DEF r, p
    <3>3. r \div Byte < p
      <4> DEFINE q == r \div Byte
                 m == r % Byte
      <4>1. q \in Nat /\ m \in Nat /\ r = Byte * q + m
        <5>1. Byte \in Nat \ {0} /\ r \in Nat
          BY <1>1, <3>2
        <5>2. q \in Nat /\ m \in 0 .. Byte - 1 /\ r = Byte * q + m
          BY <5>1, DivMod, Zenon
        <5> HIDE DEF q, m
        <5> QED
          BY <5>2
      <4> HIDE DEF q, m
      <4>2. q < p
        <5> SUFFICES ASSUME q >= p PROVE FALSE
          BY <3>2, <4>1
        <5>1. Byte * q >= Byte * p
          BY <1>1, <3>2, <4>1
        <5>2. Byte * q \in Int /\ Byte * p \in Int
          BY <1>1, <3>2, <4>1
        <5> QED
          BY <3>2, <4>1, <5>1, <5>2
      <4> QED
        BY <4>2 DEF q
    <3> QED
      BY <3>2, <3>3 DEF p
  <2> HIDE DEF T
  <2>3. T \in SUBSET Nat
    BY DEF T
  <2>4. T = Nat
    BY <2>1, <2>2, <2>3, Induct
  <2>5. Half \in T
    BY <1>1, <2>4
  <2>6. rest[Half] < power[0] /\ rest[Half] \in Nat
    BY <1>1, <1>3, <2>5 DEF T
  <2> QED
    BY <1>2, <2>6
\* The n high bytes make what is left after the others.
<1>7. high[Half] = rest[0]
  <2> DEFINE T == {n \in Nat : n <= Half => high[n] = rest[Half - n]}
  <2>1. 0 \in T
    BY <1>1, <1>5, <1>6
  <2>2. ASSUME NEW n \in T PROVE n + 1 \in T
    <3> SUFFICES ASSUME n + 1 <= Half PROVE high[n + 1] = rest[Half - (n + 1)]
      OBVIOUS
    <3> DEFINE k == Half - (n + 1)
    <3>1. /\ n + 1 \in 1 .. Half /\ (n + 1) - 1 = n /\ k \in 0 .. Half
          /\ k + 1 = Half - n /\ k + 1 \in 1 .. Half /\ (k + 1) - 1 = k
          /\ high[n] = rest[k + 1]
      BY <1>1
    <3> HIDE DEF k
    <3> DEFINE r == rest[k]
    <3>2. r \in Nat /\ rest[k + 1] = r \div Byte /\ b[k + 1] = r % Byte
      BY <1>3, <1>4, <3>1
    <3>3. high[n + 1] = b[k + 1] + Byte * rest[k + 1]
      BY <1>5, <3>1 DEF k
    <3> HIDE DEF r
    <3>4. r = Byte * (r \div Byte) + (r % Byte)
      BY <1>1, <3>2, DivMod
    <3>5. r % Byte \in Int /\ Byte * (r \div Byte) \in Int
      BY <1>1, <3>2
    <3>6. high[n + 1] = r
      BY <3>2, <3>3, <3>4, <3>5
    <3> QED
      BY <3>6 DEF r, k
  <2> HIDE DEF T
  <2>3. T \in SUBSET Nat
    BY DEF T
  <2>4. T = Nat
    BY <2>1, <2>2, <2>3, Induct
  <2>5. Half \in T
    BY <1>1, <2>4
  <2> QED
    BY <1>1, <2>5 DEF T
<1> QED
  BY <1>3, <1>5, <1>7 DEF b

\* Bytes are the bytes of their word.
LEMMA BytesOfWord == ASSUME NEW b \in HalfBlocks PROVE Bytes(Word(b)) = b
<1>1. Half \in Nat /\ Byte \in Nat /\ Byte >= 1
  BY TwoHalves
<1>2. PICK high \in [0 .. Half -> Nat] :
        /\ Word(b) = high[Half] /\ high[0] = 0
        /\ \A n \in 1 .. Half : high[n] = b[Half - n + 1] + Byte * high[n - 1]
  BY WordIs
<1>3. Word(b) \in Nat
  BY <1>1, <1>2
<1>4. PICK rest \in [0 .. Half -> Nat] :
        /\ Bytes(Word(b)) = [j \in 1 .. Half |-> rest[j - 1] % Byte] /\ rest[0] = Word(b)
        /\ \A n \in 1 .. Half : rest[n] = rest[n - 1] \div Byte
  BY <1>3, BytesIs
\* Byte k + 1 is on top of what the bytes above it make.
<1>5. ASSUME NEW k \in 0 .. Half - 1, rest[k] = high[Half - k]
      PROVE  rest[k + 1] = high[Half - (k + 1)] /\ rest[k] % Byte = b[k + 1]
  <2> DEFINE h == high[Half - (k + 1)]
             d == b[k + 1]
  <2>1. /\ Half - k \in 1 .. Half /\ (Half - k) - 1 = Half - (k + 1)
        /\ Half - (Half - k) + 1 = k + 1 /\ k + 1 \in 1 .. Half /\ (k + 1) - 1 = k
        /\ Half - (k + 1) \in 0 .. Half
    BY <1>1
  <2>2. rest[k] = d + Byte * h
    BY <1>2, <1>5, <2>1
  <2>3. d \in 0 .. Byte - 1 /\ h \in Nat
    BY <1>2, <2>1 DEF HalfBlocks, ByteValues
  <2> HIDE DEF d, h
  <2>4. (Byte * h + d) \div Byte = h /\ (Byte * h + d) % Byte = d
    <3>1. Byte \in Nat \ {0}
      BY <1>1
    <3> QED
      BY <2>3, <3>1, DivModUnique, Zenon
  <2>5. rest[k] = Byte * h + d
    BY <1>1, <2>2, <2>3
  <2>6. rest[k + 1] = rest[k] \div Byte
    BY <1>4, <2>1
  <2> QED
    BY <2>4, <2>5, <2>6 DEF d, h
<1> DEFINE T == {n \in Nat : n <= Half => rest[n] = high[Half - n]}
<1>6. T = Nat
  <2>1. 0 \in T
    BY <1>1, <1>2, <1>4
  <2>2. ASSUME NEW n \in T PROVE n + 1 \in T
    <3> SUFFICES ASSUME n + 1 <= Half PROVE rest[n + 1] = high[Half - (n + 1)]
      OBVIOUS
    <3>1. n \in 0 .. Half - 1 /\ rest[n] = high[Half - n]
      BY <1>1
    <3> QED
      BY <1>5, <3>1
  <2> HIDE DEF T
  <2>3. T \in SUBSET Nat
    BY DEF T
  <2> QED
    BY <2>1, <2>2, <2>3, Induct
<1>7. ASSUME NEW j \in 1 .. Half PROVE rest[j - 1] % Byte = b[j]
  <2>1. j - 1 \in 0 .. Half - 1 /\ j - 1 \in Nat /\ (j - 1) + 1 = j /\ j - 1 <= Half
    BY <1>1
  <2>2. rest[j - 1] = high[Half - (j - 1)]
    <3>1. j - 1 \in T
      BY <1>6, <2>1
    <3> QED
      BY <2>1, <3>1
  <2>3. rest[j - 1] % Byte = b[(j - 1) + 1]
    BY <1>5, <2>1, <2>2
  <2> QED
    BY <2>1, <2>3
<1> QED
  BY <1>4, <1>7 DEF HalfBlocks

\* A word more than M is none; M is not zero.
LEMMA MIs == M \in Nat \ {0} /\ \A v \in Values : v \in Nat /\ v < M
<1>1. M \in Nat \ {0}
  <2>1. PICK power \in [0 .. Half -> Nat \ {0}] : M = power[Half]
    BY Powers
  <2>2. Half \in 0 .. Half
    BY TwoHalves
  <2> QED
    BY <2>1, <2>2
<1> QED
  BY <1>1 DEF Values

\* The words of a block.
LEMMA LoadIs == ASSUME NEW b \in WholeBlocks PROVE Load(b) \in Pairs
<1> DEFINE low == [j \in 1 .. Half |-> b[j]]
           high == [j \in 1 .. Half |-> b[Half + j]]
<1>1. low \in HalfBlocks /\ high \in HalfBlocks
  BY TwoHalves DEF HalfBlocks, WholeBlocks
<1> HIDE DEF low, high
<1>2. Word(low) \in Values /\ Word(high) \in Values
  BY <1>1, WordRange
<1>3. Load(b) = [y |-> Word(low), z |-> Word(high)]
  BY DEF Load, low, high
<1> QED
  BY <1>2, <1>3 DEF Pairs

\* The block of two words.
LEMMA StoreIs == ASSUME NEW p \in Pairs PROVE Store(p) \in WholeBlocks
<1> DEFINE low == Bytes(p.y)
           high == Bytes(p.z)
<1>1. low \in HalfBlocks /\ high \in HalfBlocks
  BY MIs, BytesRange DEF Pairs
<1> HIDE DEF low, high
<1>2. Store(p) = [j \in 1 .. BLOCK |-> IF j <= Half THEN low[j] ELSE high[j - Half]]
  BY DEF Store, low, high
<1>3. ASSUME NEW j \in 1 .. BLOCK
      PROVE  (IF j <= Half THEN low[j] ELSE high[j - Half]) \in ByteValues
  <2>1. CASE j <= Half
    BY <1>1, <2>1, TwoHalves DEF HalfBlocks
  <2>2. CASE j > Half
    <3>1. j - Half \in 1 .. Half /\ ~(j <= Half)
      BY <2>2, TwoHalves
    <3> QED
      BY <1>1, <3>1 DEF HalfBlocks
  <2> QED
    BY <2>1, <2>2, TwoHalves
<1> QED
  BY <1>2, <1>3 DEF WholeBlocks

\* Storing and loading undo each other.
LEMMA LoadStore == ASSUME NEW p \in Pairs PROVE Load(Store(p)) = p
<1> DEFINE low == Bytes(p.y)
           high == Bytes(p.z)
           b == Store(p)
<1>1. /\ low \in HalfBlocks /\ high \in HalfBlocks
      /\ Word(low) = p.y /\ Word(high) = p.z
  BY MIs, BytesRange, WordOfBytes DEF Pairs
<1> HIDE DEF low, high
<1>2. b = [j \in 1 .. BLOCK |-> IF j <= Half THEN low[j] ELSE high[j - Half]]
  BY DEF Store, low, high
<1> HIDE DEF b
<1>3. [j \in 1 .. Half |-> b[j]] = low
  <2>1. ASSUME NEW j \in 1 .. Half PROVE b[j] = low[j]
    <3>1. j \in 1 .. BLOCK /\ j <= Half
      BY TwoHalves
    <3> QED
      BY <1>2, <3>1
  <2> QED
    BY <1>1, <2>1 DEF HalfBlocks
<1>4. [j \in 1 .. Half |-> b[Half + j]] = high
  <2>1. ASSUME NEW j \in 1 .. Half PROVE b[Half + j] = high[j]
    <3>1. Half + j \in 1 .. BLOCK /\ ~(Half + j <= Half) /\ (Half + j) - Half = j
      BY TwoHalves
    <3> QED
      BY <1>2, <3>1
  <2> QED
    BY <1>1, <2>1 DEF HalfBlocks
<1>5. Load(b) = [y |-> p.y, z |-> p.z]
  BY <1>1, <1>3, <1>4 DEF Load
<1>6. p = [y |-> p.y, z |-> p.z]
  BY DEF Pairs
<1> QED
  BY <1>5, <1>6 DEF b

\* Loading and storing undo each other.
LEMMA StoreLoad == ASSUME NEW b \in WholeBlocks PROVE Store(Load(b)) = b
<1> DEFINE low == [j \in 1 .. Half |-> b[j]]
           high == [j \in 1 .. Half |-> b[Half + j]]
           p == Load(b)
<1>1. /\ low \in HalfBlocks /\ high \in HalfBlocks
      /\ \A j \in 1 .. Half : low[j] = b[j] /\ high[j] = b[Half + j]
  BY TwoHalves DEF HalfBlocks, WholeBlocks
<1>2. p.y = Word(low) /\ p.z = Word(high)
  BY DEF Load
<1> HIDE DEF low, high, p
<1>3. Bytes(p.y) = low /\ Bytes(p.z) = high
  BY <1>1, <1>2, BytesOfWord
<1>4. Store(p) = [j \in 1 .. BLOCK |-> IF j <= Half THEN low[j] ELSE high[j - Half]]
  BY <1>3 DEF Store
<1>5. ASSUME NEW j \in 1 .. BLOCK
      PROVE  (IF j <= Half THEN low[j] ELSE high[j - Half]) = b[j]
  <2>1. CASE j <= Half
    BY <1>1, <2>1, TwoHalves
  <2>2. CASE j > Half
    <3>1. j - Half \in 1 .. Half /\ ~(j <= Half) /\ Half + (j - Half) = j
      BY <2>2, TwoHalves
    <3>2. high[j - Half] = b[Half + (j - Half)]
      BY <1>1, <3>1
    <3> QED
      BY <3>1, <3>2
  <2> QED
    BY <2>1, <2>2, TwoHalves
<1> QED
  BY <1>4, <1>5 DEF WholeBlocks, p

-------------------------------------------------------------------------------
\* Adding in the width of a word, and taking away what was added.
LEMMA AddSub ==
  ASSUME NEW a \in Values, NEW m \in Values
  PROVE  /\ (a + m) % M \in Values /\ (a + (M - m)) % M \in Values
         /\ (((a + m) % M) + (M - m)) % M = a
         /\ (((a + (M - m)) % M) + m) % M = a
<1>1. M \in Nat /\ M >= 1 /\ a \in Nat /\ a < M /\ m \in Nat /\ m < M
  BY MIs
<1>2. \A x \in Nat : x < M => x % M = x
  BY <1>1
<1>3. \A x \in Nat : M <= x /\ x < 2 * M => x % M = x - M
  <2> SUFFICES ASSUME NEW x \in Nat, M <= x, x < 2 * M PROVE x % M = x - M
    OBVIOUS
  <2>1. x - M \in 0 .. M - 1 /\ M \in Nat \ {0} /\ 1 \in Nat
    BY <1>1
  <2>2. (M * 1 + (x - M)) % M = x - M
    BY <2>1, DivModUnique, Zenon
  <2> QED
    BY <1>1, <2>2
<1>4. \A x \in Nat : x < 2 * M => x % M \in Values
  BY <1>1, <1>2, <1>3 DEF Values
<1>5. (((a + m) % M) + (M - m)) % M = a
  <2>1. CASE a + m < M
    BY <1>1, <1>2, <1>3, <2>1
  <2>2. CASE a + m >= M
    BY <1>1, <1>2, <1>3, <2>2
  <2> QED
    BY <1>1, <2>1, <2>2
<1>6. (((a + (M - m)) % M) + m) % M = a
  <2>1. CASE a < m
    BY <1>1, <1>2, <1>3, <2>1
  <2>2. CASE a >= m
    BY <1>1, <1>2, <1>3, <2>2
  <2> QED
    BY <1>1, <2>1, <2>2
<1>7. (a + m) % M \in Values /\ (a + (M - m)) % M \in Values
  <2>1. /\ a + m \in Nat /\ a + m < 2 * M
        /\ a + (M - m) \in Nat /\ a + (M - m) < 2 * M
    BY <1>1
  <2> QED
    BY <1>4, <2>1
<1> QED
  BY <1>5, <1>6, <1>7

\* What is mixed into a word is a word.
LEMMA MixIs ==
  ASSUME NEW v \in Values, NEW sum \in Nat, NEW i \in 0 .. 3, NEW j \in 0 .. 3
  PROVE  Mix(v, sum, KEY(i), KEY(j)) \in Values
<1>1. KEY(i) \in Nat /\ KEY(j) \in Nat
  <2>1. \A k \in 0 .. 3 : k + 1 \in 1 .. 4
    OBVIOUS
  <2>2. \A k \in 0 .. 3 : gkey[k + 1] \in ByteValues
    <3>1. gkey \in Seq(ByteValues) /\ Len(gkey) = 4
      BY TeaAssumption
    <3>2. \A n \in 1 .. 4 : gkey[n] \in ByteValues
      BY <3>1
    <3> QED
      BY <2>1, <3>2
  <2>3. ByteValues \subseteq Nat
    BY TwoHalves DEF ByteValues
  <2> QED
    BY <2>2, <2>3 DEF KEY
<1>2. M \in Nat /\ M >= 1 /\ v \in Nat
  BY MIs
<1>3. \A x \in Nat : x % M \in Values
  BY <1>2 DEF Values
<1> DEFINE a == (v * 16 + KEY(i)) % M
           b == (v + sum) % M
           c == ((v \div 32) + KEY(j)) % M
<1>4. a \in Values /\ b \in Values /\ c \in Values
  <2>1. v * 16 + KEY(i) \in Nat /\ v + sum \in Nat /\ (v \div 32) + KEY(j) \in Nat
    BY <1>1, <1>2
  <2> QED
    BY <1>3, <2>1
<1> HIDE DEF a, b, c
<1>5. \A x, y \in Values : Exor(x, y) \in Values
  BY TeaAssumption DEF Values
<1>6. Exor(Exor(a, b), c) \in Values
  BY <1>4, <1>5
<1> QED
  BY <1>6 DEF Mix, a, b, c

\* A round of decryption undoes the round of encryption with the same sum, and
\* the other way round.
LEMMA Rounds ==
  ASSUME NEW p \in Pairs, NEW sum \in Nat
  PROVE  /\ EncryptRound(p, sum) \in Pairs /\ DecryptRound(p, sum) \in Pairs
         /\ DecryptRound(EncryptRound(p, sum), sum) = p
         /\ EncryptRound(DecryptRound(p, sum), sum) = p
<1> DEFINE F(v) == Mix(v, sum, KEY(0), KEY(1))
           G(v) == Mix(v, sum, KEY(2), KEY(3))
<1>1. p.y \in Values /\ p.z \in Values /\ p = [y |-> p.y, z |-> p.z]
  BY DEF Pairs
<1>2. \A v \in Values : F(v) \in Values /\ G(v) \in Values
  BY MixIs
<1>3. \A q : EncryptRound(q, sum)
               = [y |-> (q.y + F(q.z)) % M,
                  z |-> (q.z + G((q.y + F(q.z)) % M)) % M]
  BY DEF EncryptRound
<1>4. \A q : DecryptRound(q, sum)
               = [y |-> (q.y + (M - F((q.z + (M - G(q.y))) % M))) % M,
                  z |-> (q.z + (M - G(q.y))) % M]
  BY DEF DecryptRound
<1> HIDE DEF F, G
<1>5. /\ EncryptRound(p, sum) \in Pairs
      /\ DecryptRound(EncryptRound(p, sum), sum) = p
  <2> DEFINE y == (p.y + F(p.z)) % M
             z == (p.z + G(y)) % M
             q == [y |-> y, z |-> z]
  <2>1. y \in Values
    BY <1>1, <1>2, AddSub
  <2>2. z \in Values /\ (z + (M - G(y))) % M = p.z
    <3> HIDE DEF y
    <3> QED
      BY <1>1, <1>2, <2>1, AddSub
  <2>3. (y + (M - F(p.z))) % M = p.y
    BY <1>1, <1>2, AddSub
  <2>4. EncryptRound(p, sum) = q
    BY <1>3
  <2>5. q.y = y /\ q.z = z /\ q \in Pairs
    <3> HIDE DEF y, z
    <3> QED
      BY <2>1, <2>2 DEF Pairs
  <2> HIDE DEF q, y, z
  <2>6. DecryptRound(q, sum) = [y |-> p.y, z |-> p.z]
    BY <1>4, <2>2, <2>3, <2>5
  <2> QED
    BY <1>1, <2>4, <2>5, <2>6
<1>6. /\ DecryptRound(p, sum) \in Pairs
      /\ EncryptRound(DecryptRound(p, sum), sum) = p
  <2> DEFINE z == (p.z + (M - G(p.y))) % M
             y == (p.y + (M - F(z))) % M
             q == [y |-> y, z |-> z]
  <2>1. z \in Values
    BY <1>1, <1>2, AddSub
  <2>2. y \in Values /\ (y + F(z)) % M = p.y
    <3> HIDE DEF z
    <3> QED
      BY <1>1, <1>2, <2>1, AddSub
  <2>3. (z + G(p.y)) % M = p.z
    BY <1>1, <1>2, AddSub
  <2>4. DecryptRound(p, sum) = q
    BY <1>4
  <2>5. q.y = y /\ q.z = z /\ q \in Pairs
    <3> HIDE DEF y, z
    <3> QED
      BY <2>1, <2>2 DEF Pairs
  <2> HIDE DEF q, y, z
  <2>6. EncryptRound(q, sum) = [y |-> p.y, z |-> p.z]
    BY <1>3, <2>2, <2>3, <2>5
  <2> QED
    BY <1>1, <2>4, <2>5, <2>6
<1> QED
  BY <1>5, <1>6

-------------------------------------------------------------------------------
\* The sums of the rounds; decryption goes through them backwards.
EncryptSum(n) == (n * TEA_DELTA) % M
DecryptSum(n) == (SumStart + (M - (TEA_DELTA % M)) * (n - 1)) % M

\* The sum decryption uses in its turn n is the one encryption used in the
\* turn that it undoes.
LEMMA Sums ==
  ASSUME NEW n \in 1 .. TEA_ROUNDS
  PROVE  /\ DecryptSum(n) = EncryptSum(TEA_ROUNDS - n + 1)
         /\ EncryptSum(n) \in Nat /\ DecryptSum(n) \in Nat
<1> DEFINE d == TEA_DELTA
           q == d \div M
           c == d % M
           s == (d * 32) \div M
           k == n - 1
           x == SumStart + (M - c) * k
           y == (TEA_ROUNDS - n + 1) * d
<1>1. M \in Nat \ {0} /\ d \in Nat /\ n \in 1 .. 32 /\ TEA_ROUNDS = 32
  BY MIs, TeaAssumption
<1>2. q \in Nat /\ c \in 0 .. M - 1 /\ d = M * q + c
  BY <1>1, DivMod, Zenon
<1>3. s \in Nat /\ SumStart \in 0 .. M - 1 /\ d * 32 = M * s + SumStart
  <2>1. d * 32 \in Nat
    BY <1>1
  <2> QED
    BY <1>1, <2>1, DivMod, Zenon DEF SumStart
<1>4. k \in Nat /\ k <= 31
  BY <1>1
<1>5. y = d * 32 - d * k /\ y \in Nat
  BY <1>1, <1>4
<1> HIDE DEF d, q, c, s, k
<1>6. x \in Nat /\ x = SumStart + M * k - c * k
  <2>1. (M - c) * k \in Nat /\ (M - c) * k = M * k - c * k
    BY <1>1, <1>2, <1>4
  <2> QED
    BY <1>3, <2>1
<1>7. d * k = M * (q * k) + c * k
  BY <1>1, <1>2, <1>4
<1>8. y + M * (q * k + k) = x + M * s
  <2>1. M * (q * k + k) = M * (q * k) + M * k
    BY <1>1, <1>2, <1>4
  <2>2. /\ M * (q * k) \in Int /\ M * k \in Int /\ c * k \in Int /\ M * s \in Int
        /\ d * k \in Int /\ d * 32 \in Int /\ SumStart \in Int
    BY <1>1, <1>2, <1>3, <1>4
  <2> QED
    BY <1>3, <1>5, <1>6, <1>7, <2>1, <2>2
<1> HIDE DEF x, y
<1>9. x % M = y % M
  <2>1. q * k + k \in Nat
    BY <1>2, <1>4
  <2>2. (y + M * (q * k + k)) % M = y % M
    BY <1>1, <1>5, <2>1, ModShift, Zenon
  <2>3. (x + M * s) % M = x % M
    BY <1>1, <1>3, <1>6, ModShift, Zenon
  <2> QED
    BY <1>8, <2>2, <2>3, Zenon
<1>10. DecryptSum(n) = x % M /\ EncryptSum(TEA_ROUNDS - n + 1) = y % M
  BY DEF DecryptSum, EncryptSum, x, y, c, k, d
<1>11. DecryptSum(n) \in Nat
  BY <1>1, <1>6, <1>10
<1>12. EncryptSum(n) \in Nat
  <2>1. n * TEA_DELTA \in Nat
    BY <1>1 DEF d
  <2> QED
    BY <1>1, <2>1 DEF EncryptSum
<1> QED
  BY <1>9, <1>10, <1>11, <1>12

\* The turns of the encryption of a block.
LEMMA EncryptIs ==
  ASSUME NEW b \in WholeBlocks
  PROVE  \E turn \in [0 .. TEA_ROUNDS -> Pairs] :
           /\ tea_encrypt(b) = Store(turn[TEA_ROUNDS]) /\ turn[0] = Load(b)
           /\ \A n \in 1 .. TEA_ROUNDS : turn[n] = EncryptRound(turn[n - 1], EncryptSum(n))
<1> DEFINE N == TEA_ROUNDS
           Is(c) == c = [n \in 0 .. N |-> IF n = 0 THEN Load(b)
                                          ELSE EncryptRound(c[n - 1], (n * TEA_DELTA) % M)]
           next == [v \in (1 .. N) \X Pairs |-> EncryptRound(v[2], EncryptSum(v[1]))]
<1>1. N \in Nat /\ Load(b) \in Pairs
  BY TeaAssumption, LoadIs
<1>2. \A n \in 1 .. N, p \in Pairs : EncryptRound(p, EncryptSum(n)) \in Pairs
  <2> SUFFICES ASSUME NEW n \in 1 .. N, NEW p \in Pairs
               PROVE  EncryptRound(p, EncryptSum(n)) \in Pairs
    OBVIOUS
  <2>1. EncryptSum(n) \in Nat
    BY Sums
  <2> QED
    BY <2>1, Rounds
<1>3. next \in [(1 .. N) \X Pairs -> Pairs]
  BY <1>2
<1> HIDE DEF N
<1>4. \E c \in [0 .. N -> Pairs] : Is(c)
  <2> HIDE DEF next
  <2>1. PICK c \in [0 .. N -> Pairs] : UnrollsTo(c, Load(b), next, N)
    BY <1>1, <1>3, RecursionTo
  <2>2. ASSUME NEW i \in 0 .. N
        PROVE  (IF i = 0 THEN Load(b) ELSE next[<<i, c[i - 1]>>])
                 = (IF i = 0 THEN Load(b) ELSE EncryptRound(c[i - 1], (i * TEA_DELTA) % M))
    <3>1. CASE i # 0
      <4>1. <<i, c[i - 1]>> \in (1 .. N) \X Pairs
        BY <1>1, <3>1
      <4>2. next[<<i, c[i - 1]>>] = EncryptRound(c[i - 1], EncryptSum(i))
        BY <4>1 DEF next
      <4> QED
        BY <3>1, <4>2 DEF EncryptSum
    <3> QED
      BY <3>1
  <2> QED
    BY <2>1, <2>2 DEF UnrollsTo
<1>5. tea_encrypt(b) = Store((CHOOSE c : Is(c))[N])
  BY DEF tea_encrypt, N
<1> DEFINE e == CHOOSE c : Is(c)
<1>6. Is(e)
  <2> HIDE DEF Is
  <2> QED
    BY <1>4
<1> HIDE DEF e
<1>7. e[0] = Load(b) /\ \A n \in 1 .. N : e[n] = EncryptRound(e[n - 1], EncryptSum(n))
  <2>1. 0 \in 0 .. N /\ \A n \in 1 .. N : n \in 0 .. N /\ n # 0
    BY <1>1
  <2> QED
    BY <1>6, <2>1, Zenon DEF EncryptSum
<1>8. e \in [0 .. N -> Pairs]
  <2> DEFINE T == {n \in Nat : n <= N => e[n] \in Pairs}
  <2>1. 0 \in T
    BY <1>1, <1>7
  <2>2. ASSUME NEW n \in T PROVE n + 1 \in T
    <3> SUFFICES ASSUME n + 1 <= N PROVE e[n + 1] \in Pairs
      OBVIOUS
    <3>1. n + 1 \in 1 .. N /\ (n + 1) - 1 = n /\ e[n] \in Pairs
      BY <1>1
    <3>2. e[n + 1] = EncryptRound(e[n], EncryptSum(n + 1))
      BY <1>7, <3>1
    <3> QED
      BY <1>2, <3>1, <3>2
  <2> HIDE DEF T
  <2>3. T \in SUBSET Nat
    BY DEF T
  <2>4. T = Nat
    BY <2>1, <2>2, <2>3, Induct
  <2>5. \A n \in 0 .. N : e[n] \in Pairs
    BY <2>4 DEF T
  <2> QED
    BY <1>6, <2>5
<1> QED
  BY <1>5, <1>7, <1>8 DEF e, N

\* The turns of the decryption of a block.
LEMMA DecryptIs ==
  ASSUME NEW b \in WholeBlocks
  PROVE  \E turn \in [0 .. TEA_ROUNDS -> Pairs] :
           /\ tea_decrypt(b) = Store(turn[TEA_ROUNDS]) /\ turn[0] = Load(b)
           /\ \A n \in 1 .. TEA_ROUNDS : turn[n] = DecryptRound(turn[n - 1], DecryptSum(n))
<1> DEFINE N == TEA_ROUNDS
           Is(c) == c = [n \in 0 .. N |->
                           IF n = 0 THEN Load(b)
                           ELSE DecryptRound(c[n - 1],
                                  (SumStart + (M - (TEA_DELTA % M)) * (n - 1)) % M)]
           next == [v \in (1 .. N) \X Pairs |-> DecryptRound(v[2], DecryptSum(v[1]))]
<1>1. N \in Nat /\ Load(b) \in Pairs
  BY TeaAssumption, LoadIs
<1>2. \A n \in 1 .. N, p \in Pairs : DecryptRound(p, DecryptSum(n)) \in Pairs
  <2> SUFFICES ASSUME NEW n \in 1 .. N, NEW p \in Pairs
               PROVE  DecryptRound(p, DecryptSum(n)) \in Pairs
    OBVIOUS
  <2>1. DecryptSum(n) \in Nat
    BY Sums
  <2> QED
    BY <2>1, Rounds
<1>3. next \in [(1 .. N) \X Pairs -> Pairs]
  BY <1>2
<1> HIDE DEF N
<1>4. \E c \in [0 .. N -> Pairs] : Is(c)
  <2> HIDE DEF next
  <2>1. PICK c \in [0 .. N -> Pairs] : UnrollsTo(c, Load(b), next, N)
    BY <1>1, <1>3, RecursionTo
  <2>2. ASSUME NEW i \in 0 .. N
        PROVE  (IF i = 0 THEN Load(b) ELSE next[<<i, c[i - 1]>>])
                 = (IF i = 0 THEN Load(b)
                    ELSE DecryptRound(c[i - 1],
                           (SumStart + (M - (TEA_DELTA % M)) * (i - 1)) % M))
    <3>1. CASE i # 0
      <4>1. <<i, c[i - 1]>> \in (1 .. N) \X Pairs
        BY <1>1, <3>1
      <4>2. next[<<i, c[i - 1]>>] = DecryptRound(c[i - 1], DecryptSum(i))
        BY <4>1 DEF next
      <4> QED
        BY <3>1, <4>2 DEF DecryptSum
    <3> QED
      BY <3>1
  <2> QED
    BY <2>1, <2>2 DEF UnrollsTo
<1>5. tea_decrypt(b) = Store((CHOOSE c : Is(c))[N])
  BY DEF tea_decrypt, N
<1> DEFINE e == CHOOSE c : Is(c)
<1>6. Is(e)
  <2> HIDE DEF Is
  <2> QED
    BY <1>4
<1> HIDE DEF e
<1>7. e[0] = Load(b) /\ \A n \in 1 .. N : e[n] = DecryptRound(e[n - 1], DecryptSum(n))
  <2>1. 0 \in 0 .. N /\ \A n \in 1 .. N : n \in 0 .. N /\ n # 0
    BY <1>1
  <2> QED
    BY <1>6, <2>1, Zenon DEF DecryptSum
<1>8. e \in [0 .. N -> Pairs]
  <2> DEFINE T == {n \in Nat : n <= N => e[n] \in Pairs}
  <2>1. 0 \in T
    BY <1>1, <1>7
  <2>2. ASSUME NEW n \in T PROVE n + 1 \in T
    <3> SUFFICES ASSUME n + 1 <= N PROVE e[n + 1] \in Pairs
      OBVIOUS
    <3>1. n + 1 \in 1 .. N /\ (n + 1) - 1 = n /\ e[n] \in Pairs
      BY <1>1
    <3>2. e[n + 1] = DecryptRound(e[n], DecryptSum(n + 1))
      BY <1>7, <3>1
    <3> QED
      BY <1>2, <3>1, <3>2
  <2> HIDE DEF T
  <2>3. T \in SUBSET Nat
    BY DEF T
  <2>4. T = Nat
    BY <2>1, <2>2, <2>3, Induct
  <2>5. \A n \in 0 .. N : e[n] \in Pairs
    BY <2>4 DEF T
  <2> QED
    BY <1>6, <2>5
<1> QED
  BY <1>5, <1>7, <1>8 DEF e, N

\* Either operation makes a block of a block.
LEMMA TeaIs ==
  ASSUME NEW b \in WholeBlocks, NEW o \in {"en", "de"} PROVE Tea(o, b) \in WholeBlocks
<1>1. TEA_ROUNDS \in 0 .. TEA_ROUNDS
  BY TeaAssumption
<1>2. tea_encrypt(b) \in WholeBlocks
  <2>1. PICK turn \in [0 .. TEA_ROUNDS -> Pairs] : tea_encrypt(b) = Store(turn[TEA_ROUNDS])
    BY EncryptIs
  <2>2. turn[TEA_ROUNDS] \in Pairs
    BY <1>1, <2>1
  <2> QED
    BY <2>1, <2>2, StoreIs
<1>3. tea_decrypt(b) \in WholeBlocks
  <2>1. PICK turn \in [0 .. TEA_ROUNDS -> Pairs] : tea_decrypt(b) = Store(turn[TEA_ROUNDS])
    BY DecryptIs
  <2>2. turn[TEA_ROUNDS] \in Pairs
    BY <1>1, <2>1
  <2> QED
    BY <2>1, <2>2, StoreIs
<1> QED
  BY <1>2, <1>3 DEF Tea

\* Turns of decryption that start where the turns of encryption ended go back
\* through them, and the other way round.
LEMMA TurnsBack ==
  ASSUME NEW e \in [0 .. TEA_ROUNDS -> Pairs], NEW f \in [0 .. TEA_ROUNDS -> Pairs],
         f[0] = e[TEA_ROUNDS],
         \/ /\ \A n \in 1 .. TEA_ROUNDS : e[n] = EncryptRound(e[n - 1], EncryptSum(n))
            /\ \A n \in 1 .. TEA_ROUNDS : f[n] = DecryptRound(f[n - 1], DecryptSum(n))
         \/ /\ \A n \in 1 .. TEA_ROUNDS : e[n] = DecryptRound(e[n - 1], DecryptSum(n))
            /\ \A n \in 1 .. TEA_ROUNDS : f[n] = EncryptRound(f[n - 1], EncryptSum(n))
  PROVE  f[TEA_ROUNDS] = e[0]
<1> DEFINE N == TEA_ROUNDS
           T == {n \in Nat : n <= N => f[n] = e[N - n]}
<1>1. N \in Nat
  BY TeaAssumption
<1>2. 0 \in T
  BY <1>1
<1>3. ASSUME NEW n \in T PROVE n + 1 \in T
  <2> SUFFICES ASSUME n + 1 <= N PROVE f[n + 1] = e[N - (n + 1)]
    OBVIOUS
  <2> DEFINE k == N - n
  <2>1. /\ n + 1 \in 1 .. N /\ (n + 1) - 1 = n /\ k \in 1 .. N /\ k - 1 = N - (n + 1)
        /\ k - 1 \in 0 .. N /\ f[n] = e[k]
        /\ N - (n + 1) + 1 = k /\ N - k + 1 = n + 1
    BY <1>1
  <2>2. e[k - 1] \in Pairs
    BY <2>1
  <2>3. DecryptSum(n + 1) = EncryptSum(k) /\ DecryptSum(k) = EncryptSum(n + 1)
    BY <2>1, Sums
  <2>4. EncryptSum(k) \in Nat /\ EncryptSum(n + 1) \in Nat
    BY <2>1, Sums
  <2> HIDE DEF T, k, N
  <2>5. CASE /\ \A i \in 1 .. N : e[i] = EncryptRound(e[i - 1], EncryptSum(i))
             /\ \A i \in 1 .. N : f[i] = DecryptRound(f[i - 1], DecryptSum(i))
    <3>1. e[k] = EncryptRound(e[k - 1], EncryptSum(k))
      BY <2>1, <2>5
    <3>2. f[n + 1] = DecryptRound(e[k], EncryptSum(k))
      BY <2>1, <2>3, <2>5
    <3>3. f[n + 1] = e[k - 1]
      BY <2>2, <2>4, <3>1, <3>2, Rounds
    <3> QED
      BY <2>1, <3>3
  <2>6. CASE /\ \A i \in 1 .. N : e[i] = DecryptRound(e[i - 1], DecryptSum(i))
             /\ \A i \in 1 .. N : f[i] = EncryptRound(f[i - 1], EncryptSum(i))
    <3>1. e[k] = DecryptRound(e[k - 1], EncryptSum(n + 1))
      BY <2>1, <2>3, <2>6
    <3>2. f[n + 1] = EncryptRound(e[k], EncryptSum(n + 1))
      BY <2>1, <2>6
    <3>3. f[n + 1] = e[k - 1]
      BY <2>2, <2>4, <3>1, <3>2, Rounds
    <3> QED
      BY <2>1, <3>3
  <2> QED
    BY <2>5, <2>6 DEF N
<1> HIDE DEF T
<1>4. T \in SUBSET Nat
  BY DEF T
<1>5. T = Nat
  BY <1>2, <1>3, <1>4, Induct
<1>6. N \in T
  BY <1>1, <1>5
<1>7. f[N] = e[N - N] /\ N - N = 0
  BY <1>1, <1>6 DEF T
<1> QED
  BY <1>7

\* The two operations undo each other.
LEMMA TeaInverse ==
  ASSUME NEW b \in WholeBlocks
  PROVE  Tea("de", Tea("en", b)) = b /\ Tea("en", Tea("de", b)) = b
<1>1. TEA_ROUNDS \in 0 .. TEA_ROUNDS /\ 0 \in 0 .. TEA_ROUNDS
  BY TeaAssumption
<1>2. tea_decrypt(tea_encrypt(b)) = b
  <2> DEFINE c == tea_encrypt(b)
  <2>1. PICK e \in [0 .. TEA_ROUNDS -> Pairs] :
          /\ c = Store(e[TEA_ROUNDS]) /\ e[0] = Load(b)
          /\ \A n \in 1 .. TEA_ROUNDS : e[n] = EncryptRound(e[n - 1], EncryptSum(n))
    BY EncryptIs
  <2>2. c \in WholeBlocks
    BY TeaIs DEF Tea
  <2> HIDE DEF c
  <2>3. PICK f \in [0 .. TEA_ROUNDS -> Pairs] :
          /\ tea_decrypt(c) = Store(f[TEA_ROUNDS]) /\ f[0] = Load(c)
          /\ \A n \in 1 .. TEA_ROUNDS : f[n] = DecryptRound(f[n - 1], DecryptSum(n))
    BY <2>2, DecryptIs
  <2>4. f[0] = e[TEA_ROUNDS]
    BY <1>1, <2>1, <2>3, LoadStore
  <2>5. f[TEA_ROUNDS] = e[0]
    BY <2>1, <2>3, <2>4, TurnsBack
  <2>6. tea_decrypt(c) = Store(Load(b))
    BY <2>1, <2>3, <2>5
  <2> QED
    BY <2>6, StoreLoad DEF c
<1>3. tea_encrypt(tea_decrypt(b)) = b
  <2> DEFINE c == tea_decrypt(b)
  <2>1. PICK e \in [0 .. TEA_ROUNDS -> Pairs] :
          /\ c = Store(e[TEA_ROUNDS]) /\ e[0] = Load(b)
          /\ \A n \in 1 .. TEA_ROUNDS : e[n] = DecryptRound(e[n - 1], DecryptSum(n))
    BY DecryptIs
  <2>2. c \in WholeBlocks
    BY TeaIs DEF Tea
  <2> HIDE DEF c
  <2>3. PICK f \in [0 .. TEA_ROUNDS -> Pairs] :
          /\ tea_encrypt(c) = Store(f[TEA_ROUNDS]) /\ f[0] = Load(c)
          /\ \A n \in 1 .. TEA_ROUNDS : f[n] = EncryptRound(f[n - 1], EncryptSum(n))
    BY <2>2, EncryptIs
  <2>4. f[0] = e[TEA_ROUNDS]
    BY <1>1, <2>1, <2>3, LoadStore
  <2>5. f[TEA_ROUNDS] = e[0]
    BY <2>1, <2>3, <2>4, TurnsBack
  <2>6. tea_encrypt(c) = Store(Load(b))
    BY <2>1, <2>3, <2>5
  <2> QED
    BY <2>6, StoreLoad DEF c
<1> QED
  BY <1>2, <1>3 DEF Tea

Contents == Seq(ByteValues)

\* What a sequence of bytes is.
LEMMA ContentIs ==
  ASSUME NEW s \in Contents
  PROVE  /\ Len(s) \in Nat /\ s \in [1 .. Len(s) -> ByteValues]
         /\ \A i \in 1 .. Len(s) : s[i] \in ByteValues
  BY DEF Contents

\* A part of a sequence.
LEMMA PartIs ==
  ASSUME NEW s \in Contents, NEW m \in Nat \ {0}, NEW n \in Nat, n <= Len(s)
  PROVE  /\ SubSeq(s, m, n) \in Contents
         /\ Len(SubSeq(s, m, n)) = IF m <= n THEN n + 1 - m ELSE 0
         /\ \A j \in 1 .. n + 1 - m : SubSeq(s, m, n)[j] = s[m + j - 1]
<1>1. CASE m <= n
  <2>1. m \in 1 .. n + 1 /\ n \in m - 1 .. Len(s)
    BY <1>1
  <2>2. /\ SubSeq(s, m, n) \in Contents /\ Len(SubSeq(s, m, n)) = n + 1 - m
        /\ \A j \in 1 .. n + 1 - m : SubSeq(s, m, n)[j] = s[m + j - 1]
    BY <1>1, <2>1, SubSeqProperties DEF Contents
  <2> QED
    BY <1>1, <2>2
<1>2. CASE ~(m <= n)
  <2>1. 1 .. n + 1 - m = {}
    BY <1>2
  <2>2. SubSeq(s, m, n) = << >>
    BY <1>2
  <2> QED
    BY <1>2, <2>1, <2>2 DEF Contents
<1> QED
  BY <1>1, <1>2

\* A block is a sequence of bytes.
LEMMA BlocksAre == /\ WholeBlocks \subseteq Contents
                   /\ \A b \in WholeBlocks : Len(b) = BLOCK
<1> SUFFICES ASSUME NEW b \in WholeBlocks PROVE b \in Contents /\ Len(b) = BLOCK
  OBVIOUS
<1>1. BLOCK \in Nat
  BY TwoHalves
<1> QED
  BY <1>1 DEF WholeBlocks, Contents

\* What overwriting leaves and what it changes.
LEMMA OverwriteIs ==
  ASSUME NEW s \in Contents, NEW offset \in Nat, offset <= Len(s), NEW bytes \in Contents
  PROVE  LET t == Overwrite(s, offset, bytes)
             last == offset + Len(bytes) IN
         /\ t \in Contents
         /\ Len(t) = IF last > Len(s) THEN last ELSE Len(s)
         /\ \A i \in 1 .. offset : t[i] = s[i]
         /\ \A i \in 1 .. Len(bytes) : t[offset + i] = bytes[i]
         /\ \A i \in last + 1 .. Len(s) : t[i] = s[i]
<1> DEFINE t == Overwrite(s, offset, bytes)
           last == offset + Len(bytes)
           before == SubSeq(s, 1, offset)
           after == SubSeq(s, last + 1, Len(s))
<1>1. Len(s) \in Nat /\ Len(bytes) \in Nat /\ last \in Nat
  BY ContentIs
<1>2. /\ before \in Contents /\ Len(before) = offset
      /\ \A j \in 1 .. offset : before[j] = s[j]
  <2>1. /\ before \in Contents /\ Len(before) = IF 1 <= offset THEN offset + 1 - 1 ELSE 0
        /\ \A j \in 1 .. offset + 1 - 1 : before[j] = s[1 + j - 1]
    BY PartIs
  <2> HIDE DEF before
  <2> QED
    BY <2>1
<1>3. /\ after \in Contents
      /\ Len(after) = IF last + 1 <= Len(s) THEN Len(s) - last ELSE 0
      /\ \A j \in 1 .. Len(s) - last : after[j] = s[last + j]
  <2>1. last + 1 \in Nat \ {0} /\ Len(s) \in Nat
    BY <1>1
  <2> HIDE DEF last
  <2>2. /\ after \in Contents
        /\ Len(after) = IF last + 1 <= Len(s) THEN Len(s) + 1 - (last + 1) ELSE 0
        /\ \A j \in 1 .. Len(s) + 1 - (last + 1) : after[j] = s[(last + 1) + j - 1]
    BY <2>1, PartIs
  <2> HIDE DEF after
  <2> QED
    BY <1>1, <2>2
<1>4. t = before \o bytes \o after
  BY DEF Overwrite
<1> HIDE DEF t, before, after
<1> DEFINE u == before \o bytes
<1>5. /\ u \in Contents /\ Len(u) = last
      /\ \A i \in 1 .. offset : u[i] = before[i]
      /\ \A i \in 1 .. Len(bytes) : u[offset + i] = bytes[i]
  <2>1. u \in Contents /\ Len(u) = Len(before) + Len(bytes)
    BY <1>2, ConcatProperties DEF Contents
  <2>2. \A i \in 1 .. Len(before) + Len(bytes) :
          u[i] = IF i <= Len(before) THEN before[i] ELSE bytes[i - Len(before)]
    BY <1>2, ConcatProperties DEF Contents
  <2> HIDE DEF u
  <2>3. \A i \in 1 .. Len(bytes) : u[offset + i] = bytes[i]
    <3> SUFFICES ASSUME NEW i \in 1 .. Len(bytes) PROVE u[offset + i] = bytes[i]
      OBVIOUS
    <3>1. /\ offset + i \in 1 .. Len(before) + Len(bytes) /\ ~(offset + i <= Len(before))
          /\ (offset + i) - Len(before) = i
      BY <1>1, <1>2
    <3> QED
      BY <2>2, <3>1
  <2> QED
    BY <1>1, <1>2, <2>1, <2>2, <2>3
<1>6. t = u \o after
  BY <1>4
<1> HIDE DEF u
<1>7. /\ t \in Contents /\ Len(t) = last + Len(after)
      /\ \A i \in 1 .. last : t[i] = u[i]
      /\ \A i \in 1 .. Len(after) : t[last + i] = after[i]
  <2> u \in Seq(ByteValues) /\ after \in Seq(ByteValues)
    BY <1>3, <1>5 DEF Contents
  <2>1. t \in Contents /\ Len(t) = Len(u) + Len(after)
    BY <1>6, ConcatProperties DEF Contents
  <2>2. \A i \in 1 .. Len(u) + Len(after) :
          t[i] = IF i <= Len(u) THEN u[i] ELSE after[i - Len(u)]
    BY <1>6, ConcatProperties
  <2>3. Len(after) \in Nat
    BY <1>3, ContentIs
  <2>4. \A i \in 1 .. Len(after) : t[last + i] = after[i]
    <3> SUFFICES ASSUME NEW i \in 1 .. Len(after) PROVE t[last + i] = after[i]
      OBVIOUS
    <3>1. /\ last + i \in 1 .. Len(u) + Len(after) /\ ~(last + i <= Len(u))
          /\ (last + i) - Len(u) = i
      BY <1>1, <1>5, <2>3
    <3> QED
      BY <2>2, <3>1
  <2>5. \A i \in 1 .. last : t[i] = u[i]
    <3> SUFFICES ASSUME NEW i \in 1 .. last PROVE t[i] = u[i]
      OBVIOUS
    <3>1. Len(u) = last /\ last \in Nat
      BY <1>1, <1>5
    <3> HIDE DEF last
    <3>2. i \in 1 .. Len(u) + Len(after) /\ i <= Len(u)
      BY <2>3, <3>1
    <3> QED
      BY <2>2, <3>2
  <2> QED
    BY <1>5, <2>1, <2>4, <2>5
<1>8. Len(t) = IF last > Len(s) THEN last ELSE Len(s)
  <2>1. Len(t) = last + Len(after)
    BY <1>7
  <2> HIDE DEF last
  <2>2. Len(t) = last + (IF last + 1 <= Len(s) THEN Len(s) - last ELSE 0)
    BY <1>3, <2>1
  <2> QED
    BY <1>1, <2>2
<1>9. \A i \in 1 .. offset : t[i] = s[i]
  BY <1>1, <1>2, <1>5, <1>7
<1>10. \A i \in 1 .. Len(bytes) : t[offset + i] = bytes[i]
  <2> SUFFICES ASSUME NEW i \in 1 .. Len(bytes) PROVE t[offset + i] = bytes[i]
    OBVIOUS
  <2>1. offset + i \in 1 .. last
    BY <1>1
  <2> QED
    BY <1>5, <1>7, <2>1
<1>11. \A i \in last + 1 .. Len(s) : t[i] = s[i]
  <2> SUFFICES ASSUME NEW i \in last + 1 .. Len(s) PROVE t[i] = s[i]
    OBVIOUS
  <2>1. /\ i - last \in 1 .. Len(s) - last /\ last + (i - last) = i
        /\ Len(after) = Len(s) - last
    BY <1>1, <1>3
  <2>2. t[last + (i - last)] = after[i - last] /\ after[i - last] = s[last + (i - last)]
    BY <1>3, <1>7, <2>1
  <2> QED
    BY <2>1, <2>2
<1>12. t \in Contents
  BY <1>7
<1> QED
  BY <1>8, <1>9, <1>10, <1>11, <1>12 DEF t

-------------------------------------------------------------------------------
\* The whole blocks of a file.
LEMMA WholeIs ==
  ASSUME NEW s \in Contents
  PROVE  /\ Blocks(s) \in Nat /\ Whole(s) \in Contents /\ Len(Whole(s)) = Blocks(s) * BLOCK
         /\ Blocks(s) * BLOCK \in Nat
         /\ Len(s) <= Blocks(s) * BLOCK /\ Blocks(s) * BLOCK < Len(s) + BLOCK
         /\ \A j \in 1 .. Blocks(s) * BLOCK :
              Whole(s)[j] = IF j <= Len(s) THEN s[j] ELSE NL
<1> DEFINE n == Blocks(s)
           m == Blocks(s) * BLOCK
           a == Len(s) + BLOCK - 1
           r == a % BLOCK
<1>1. BLOCK \in Nat \ {0} /\ Len(s) \in Nat /\ a \in Nat
  BY TwoHalves, ContentIs
<1>2. n \in Nat /\ r \in 0 .. BLOCK - 1 /\ a = BLOCK * n + r
  BY <1>1, DivMod, Zenon DEF Blocks
<1> HIDE DEF n, r
<1>3. m = BLOCK * n
  BY <1>1, <1>2 DEF n
<1>4. m \in Nat
  BY <1>1, <1>2, <1>3
<1>5. Len(s) <= m /\ m < Len(s) + BLOCK
  BY <1>1, <1>2, <1>3, <1>4
<1>6. Whole(s) = [j \in 1 .. m |-> IF j <= Len(s) THEN s[j] ELSE NL]
  BY DEF Whole
<1>7. ASSUME NEW j \in 1 .. m PROVE (IF j <= Len(s) THEN s[j] ELSE NL) \in ByteValues
  <2>1. NL \in ByteValues
    BY TeaAssumption
  <2>2. j <= Len(s) => j \in 1 .. Len(s)
    BY <1>1, <1>4
  <2> HIDE DEF m
  <2> QED
    BY <2>1, <2>2, ContentIs
<1> HIDE DEF m
<1>8. Whole(s) \in [1 .. m -> ByteValues]
  BY <1>6, <1>7
<1>9. Whole(s) \in Contents /\ Len(Whole(s)) = m
  BY <1>4, <1>8 DEF Contents
<1>10. \A j \in 1 .. m : Whole(s)[j] = IF j <= Len(s) THEN s[j] ELSE NL
  BY <1>6
<1> QED
  BY <1>2, <1>4, <1>5, <1>9, <1>10 DEF m, n

\* The k-th block of a sequence that has it.
LEMMA BlockIs ==
  ASSUME NEW s \in Contents, NEW k \in Nat, (k + 1) * BLOCK <= Len(s)
  PROVE  /\ Block(s, k + 1) \in WholeBlocks
         /\ Block(s, k + 1) = [j \in 1 .. BLOCK |-> s[k * BLOCK + j]]
<1> DEFINE m == k * BLOCK
<1>1. BLOCK \in Nat /\ Len(s) \in Nat /\ m \in Nat /\ (k + 1) * BLOCK = m + BLOCK
  BY TwoHalves, ContentIs
<1>2. Block(s, k + 1) = SubSeq(s, m + 1, m + BLOCK)
  BY <1>1 DEF Block
<1> HIDE DEF m
<1> DEFINE b == SubSeq(s, m + 1, m + BLOCK)
<1>3. /\ b \in Contents /\ Len(b) = BLOCK
      /\ \A j \in 1 .. BLOCK : b[j] = s[m + j]
  <2>1. m + 1 \in Nat \ {0} /\ m + BLOCK \in Nat /\ m + BLOCK <= Len(s)
    BY <1>1
  <2>2. /\ b \in Contents
        /\ Len(b) = IF m + 1 <= m + BLOCK THEN m + BLOCK + 1 - (m + 1) ELSE 0
        /\ \A j \in 1 .. m + BLOCK + 1 - (m + 1) : b[j] = s[m + 1 + j - 1]
    BY <2>1, PartIs
  <2> HIDE DEF b
  <2>3. BLOCK >= 1
    BY TwoHalves
  <2> QED
    BY <1>1, <2>2, <2>3
<1> HIDE DEF b
<1>4. b \in [1 .. BLOCK -> ByteValues]
  BY <1>3, ContentIs
<1>5. b = [j \in 1 .. BLOCK |-> s[m + j]]
  BY <1>3, <1>4
<1> QED
  BY <1>2, <1>4, <1>5 DEF b, m, WholeBlocks

\* Blocks in a part that two sequences agree on are the same.
LEMMA BlockKept ==
  ASSUME NEW s \in Contents, NEW t \in Contents, NEW n \in Nat,
         n <= Len(s), n <= Len(t), \A i \in 1 .. n : s[i] = t[i],
         NEW k \in Nat, (k + 1) * BLOCK <= n
  PROVE  Block(s, k + 1) = Block(t, k + 1)
<1> DEFINE m == k * BLOCK
<1>1. BLOCK \in Nat /\ Len(s) \in Nat /\ Len(t) \in Nat /\ m \in Nat
      /\ (k + 1) * BLOCK = m + BLOCK
  BY TwoHalves, ContentIs
<1>2. (k + 1) * BLOCK <= Len(s) /\ (k + 1) * BLOCK <= Len(t)
  BY <1>1
<1>3. /\ Block(s, k + 1) = [j \in 1 .. BLOCK |-> s[m + j]]
      /\ Block(t, k + 1) = [j \in 1 .. BLOCK |-> t[m + j]]
  BY <1>2, BlockIs
<1> HIDE DEF m
<1>4. \A j \in 1 .. BLOCK : s[m + j] = t[m + j]
  BY <1>1
<1> QED
  BY <1>3, <1>4

-------------------------------------------------------------------------------
\* Multiples keep the order.
LEMMA MultipleLeq ==
  ASSUME NEW p \in Nat, NEW q \in Nat, NEW b \in Nat, p <= q PROVE p * b <= q * b
  OBVIOUS

\* Multiples of a number that are less than it apart are the same.
LEMMA SameMultiple ==
  ASSUME NEW p \in Nat, NEW q \in Nat, NEW b \in Nat \ {0}, NEW v \in Nat,
         v <= p * b, p * b < v + b, v <= q * b, q * b < v + b
  PROVE  p = q
<1>1. ASSUME NEW i \in Nat, NEW j \in Nat, i < j PROVE i * b + b <= j * b
  <2>1. i + 1 <= j
    BY <1>1
  <2>2. (i + 1) * b <= j * b
    BY <2>1
  <2>3. (i + 1) * b = i * b + b
    OBVIOUS
  <2> QED
    BY <2>2, <2>3
<1>2. p * b \in Nat /\ q * b \in Nat
  OBVIOUS
<1>3. ~(p < q)
  BY <1>1, <1>2
<1>4. ~(q < p)
  BY <1>1, <1>2
<1> QED
  BY <1>3, <1>4

\* A multiple of the size of a block, by its quotient.
LEMMA MultipleIs ==
  ASSUME NEW w \in Nat, w % BLOCK = 0
  PROVE  w \div BLOCK \in Nat /\ w = (w \div BLOCK) * BLOCK
<1> DEFINE q == w \div BLOCK
<1>1. BLOCK \in Nat \ {0}
  BY TwoHalves
<1>2. q \in Nat /\ w = BLOCK * q + (w % BLOCK)
  BY <1>1, DivMod, Zenon
<1> HIDE DEF q
<1>3. w = q * BLOCK
  BY <1>1, <1>2
<1> QED
  BY <1>2, <1>3 DEF q

\* The first n bytes of t are the transformed blocks of s, the others are those
\* of o.
Made(s, t, o, n, opn) ==
  /\ Len(t) = IF n > Len(o) THEN n ELSE Len(o)
  /\ \A i \in n + 1 .. Len(o) : t[i] = o[i]
  /\ \A k \in Nat : (k + 1) * BLOCK <= n =>
                       Block(t, k + 1) = Tea(opn, Block(Whole(s), k + 1))

\* What WholeFile says of a run in which nothing failed.
AllMade(s, t, o, opn) ==
  LET w == Whole(s) IN
  /\ Len(t) >= Len(w)
  /\ \A k \in 1 .. Blocks(w) : Block(t, k) = Tea(opn, Block(w, k))
  /\ SubSeq(t, Len(w) + 1, Len(t)) = SubSeq(o, Len(w) + 1, Len(o))

\* When the blocks of the file are through, all of it has been written.
LEMMA Finished ==
  ASSUME NEW s \in Contents, NEW t \in Contents, NEW o \in Contents, NEW n \in Nat,
         NEW opn, Made(s, t, o, n, opn), n % BLOCK = 0, Len(s) <= n, n < Len(s) + BLOCK
  PROVE  AllMade(s, t, o, opn)
<1> DEFINE q == n \div BLOCK
<1>q. q \in Nat /\ n = q * BLOCK
  BY MultipleIs
<1> HIDE DEF q
<1>m. /\ Len(t) = IF q * BLOCK > Len(o) THEN q * BLOCK ELSE Len(o)
      /\ \A i \in q * BLOCK + 1 .. Len(o) : t[i] = o[i]
      /\ \A k \in Nat : (k + 1) * BLOCK <= q * BLOCK =>
            Block(t, k + 1) = Tea(opn, Block(Whole(s), k + 1))
      /\ Len(s) <= q * BLOCK /\ q * BLOCK < Len(s) + BLOCK
  BY <1>q DEF Made
<1> DEFINE w == Whole(s)
           z == q * BLOCK
<1>1. /\ BLOCK \in Nat \ {0} /\ BLOCK \in Nat /\ Len(s) \in Nat /\ Len(t) \in Nat
      /\ Len(o) \in Nat /\ z \in Nat
  BY <1>q, TwoHalves, ContentIs
<1>2. /\ Blocks(s) \in Nat /\ w \in Contents /\ Len(w) = Blocks(s) * BLOCK
      /\ Len(s) <= Blocks(s) * BLOCK /\ Blocks(s) * BLOCK < Len(s) + BLOCK
  BY WholeIs
<1> HIDE DEF w
<1>3. Blocks(s) = q
  BY <1>1, <1>2, <1>q, <1>m, SameMultiple
<1>4. Len(w) = z
  BY <1>2, <1>3
<1>5. Blocks(w) = q
  <2>1. /\ Blocks(w) \in Nat
        /\ Len(w) <= Blocks(w) * BLOCK /\ Blocks(w) * BLOCK < Len(w) + BLOCK
    BY <1>2, WholeIs
  <2>2. z <= q * BLOCK /\ q * BLOCK < z + BLOCK
    BY <1>1
  <2> HIDE DEF z
  <2> QED
    BY <1>1, <1>4, <1>q, <2>1, <2>2, SameMultiple
<1>6. Len(t) = (IF z > Len(o) THEN z ELSE Len(o)) /\ \A i \in z + 1 .. Len(o) : t[i] = o[i]
  BY <1>m
<1>7. ASSUME NEW k \in 1 .. q PROVE Block(t, k) = Tea(opn, Block(w, k))
  <2>1. k - 1 \in Nat /\ (k - 1) + 1 = k /\ k \in Nat /\ k <= q
    BY <1>q
  <2>2. k * BLOCK <= q * BLOCK
    BY <1>1, <1>q, <2>1, MultipleLeq
  <2>3. ((k - 1) + 1) * BLOCK <= q * BLOCK
    BY <2>1, <2>2
  <2>4. Block(t, (k - 1) + 1) = Tea(opn, Block(w, (k - 1) + 1))
    BY <1>m, <2>1, <2>3 DEF w
  <2> QED
    BY <2>1, <2>4
<1> HIDE DEF z
<1>8. SubSeq(t, z + 1, Len(t)) = SubSeq(o, z + 1, Len(o))
  <2>1. CASE z < Len(o)
    <3>1. Len(t) = Len(o)
      BY <1>1, <1>6, <2>1
    <3>2. z + 1 \in Nat \ {0} /\ Len(o) + 1 - (z + 1) = Len(o) - z /\ Len(o) - z \in Nat
      BY <1>1, <2>1
    <3> DEFINE a == SubSeq(t, z + 1, Len(o))
               c == SubSeq(o, z + 1, Len(o))
    <3>3. /\ a \in Contents /\ Len(a) = Len(o) - z
          /\ \A j \in 1 .. Len(o) - z : a[j] = t[z + 1 + j - 1]
      <4>1. /\ a \in Contents
            /\ Len(a) = IF z + 1 <= Len(o) THEN Len(o) + 1 - (z + 1) ELSE 0
            /\ \A j \in 1 .. Len(o) + 1 - (z + 1) : a[j] = t[z + 1 + j - 1]
        BY <1>1, <3>1, <3>2, PartIs
      <4> HIDE DEF a
      <4> QED
        BY <1>1, <2>1, <3>2, <4>1
    <3>4. /\ c \in Contents /\ Len(c) = Len(o) - z
          /\ \A j \in 1 .. Len(o) - z : c[j] = o[z + 1 + j - 1]
      <4>1. /\ c \in Contents
            /\ Len(c) = IF z + 1 <= Len(o) THEN Len(o) + 1 - (z + 1) ELSE 0
            /\ \A j \in 1 .. Len(o) + 1 - (z + 1) : c[j] = o[z + 1 + j - 1]
        BY <1>1, <3>2, PartIs
      <4> HIDE DEF c
      <4> QED
        BY <1>1, <2>1, <3>2, <4>1
    <3> HIDE DEF a, c
    <3>5. ASSUME NEW j \in 1 .. Len(o) - z PROVE a[j] = c[j]
      <4>1. z + 1 + j - 1 \in z + 1 .. Len(o)
        BY <1>1
      <4> QED
        BY <1>6, <3>3, <3>4, <4>1
    <3>6. /\ a \in [1 .. Len(o) - z -> ByteValues] /\ c \in [1 .. Len(o) - z -> ByteValues]
      BY <3>3, <3>4, ContentIs
    <3> DEFINE d == Len(o) - z
    <3>7. a = c
      <4>1. /\ a \in [1 .. d -> ByteValues] /\ c \in [1 .. d -> ByteValues]
            /\ \A j \in 1 .. d : a[j] = c[j]
        BY <3>5, <3>6
      <4> HIDE DEF d
      <4>2. a = [j \in 1 .. d |-> a[j]] /\ c = [j \in 1 .. d |-> c[j]]
        BY <4>1
      <4>3. [j \in 1 .. d |-> a[j]] = [j \in 1 .. d |-> c[j]]
        BY <4>1
      <4> QED
        BY <4>2, <4>3, Zenon
    <3> QED
      BY <3>1, <3>7 DEF a, c
  <2>2. CASE z >= Len(o)
    <3>1. Len(t) = z
      BY <1>1, <1>6, <2>2
    <3>2. SubSeq(t, z + 1, z) = << >> /\ SubSeq(o, z + 1, Len(o)) = << >>
      BY <1>1, <2>2
    <3> QED
      BY <3>1, <3>2
  <2> QED
    BY <1>1, <2>1, <2>2
<1>9. Len(t) >= Len(w)
  BY <1>1, <1>4, <1>6
<1> QED
  BY <1>4, <1>5, <1>7, <1>8, <1>9 DEF w, AllMade

-------------------------------------------------------------------------------
\* What the variables hold.
TypeInv ==
  /\ pc \in {"shell", "read", "write"} /\ op \in {"en", "de"} /\ inPlace \in BOOLEAN
  /\ file \in Contents /\ tmp \in Contents /\ given \in Contents /\ old \in Contents
  /\ at \in Nat /\ wat \in Nat /\ wat <= Len(tmp)
  /\ src \in WholeBlocks /\ dst \in WholeBlocks /\ out \in {0, 1}

\* While a run goes on: tmpfile is untouched from wat on, and only a short
\* write can have happened, as any other failure ends the run.
TailInv ==
  pc # "shell" =>
    /\ given = IF inPlace THEN old ELSE file
    /\ Len(tmp) = IF wat > Len(old) THEN wat ELSE Len(old)
    /\ \A i \in wat + 1 .. Len(old) : tmp[i] = old[i]
    /\ trouble \subseteq {"short"}

\* Before a read: whole blocks have been read, and no more has been written;
\* if none was short, what has been written is what should be.
ReadInv ==
  pc = "read" =>
    /\ out = 1 /\ at % BLOCK = 0 /\ wat <= at /\ at <= Len(given)
    /\ trouble = {} => wat = at /\ Made(given, tmp, old, wat, op)

\* Before a write: the block that is written is the one that should be there.
WriteInv ==
  pc = "write" =>
    /\ dst = Tea(op, src)
    /\ out = 1 => at % BLOCK = 0 /\ wat + BLOCK <= at /\ at <= Len(given)
    /\ out = 0 => Len(given) % BLOCK # 0
    /\ trouble = {} =>
         /\ wat % BLOCK = 0 /\ wat < Len(given)
         /\ IF out = 1 THEN at = wat + BLOCK ELSE Len(given) < wat + BLOCK
         /\ src = Block(Whole(given), (wat \div BLOCK) + 1)
         /\ Made(given, tmp, old, wat, op)

IInv == TypeInv /\ TailInv /\ ReadInv /\ WriteInv /\ WholeFile

\* What a read takes from offset a, and when it takes it from what s was.
Taken(c, a) == SubSeq(c, a + 1, IF a + BLOCK < Len(c) THEN a + BLOCK ELSE Len(c))
Behind(s, c, a) == Len(c) = Len(s) /\ \A i \in a + 1 .. Len(s) : c[i] = s[i]

\* The contents read from.
Content == IF inPlace THEN tmp ELSE file

\* Behind what has been written, <FILE> is still what it was.
LEMMA ContentKept ==
  ASSUME TypeInv, TailInv, ReadInv, pc = "read"
  PROVE  Content \in Contents /\ Behind(given, Content, at)
<1>1. /\ at \in Nat /\ wat \in Nat /\ wat <= at /\ at <= Len(given)
      /\ given \in Contents /\ tmp \in Contents /\ file \in Contents /\ old \in Contents
  BY DEF TypeInv, ReadInv
<1>2. Len(given) \in Nat
  BY <1>1, ContentIs
<1>3. CASE inPlace
  <2>1. /\ given = old /\ Len(tmp) = IF wat > Len(old) THEN wat ELSE Len(old)
        /\ \A i \in wat + 1 .. Len(old) : tmp[i] = old[i]
    BY <1>3 DEF TailInv
  <2>2. Len(tmp) = Len(given)
    BY <1>1, <1>2, <2>1
  <2>3. \A i \in at + 1 .. Len(given) : i \in wat + 1 .. Len(old)
    BY <1>1, <1>2, <2>1
  <2> QED
    BY <1>1, <1>3, <2>1, <2>2, <2>3 DEF Content, Behind
<1>4. CASE ~inPlace
  <2>1. given = file
    BY <1>4 DEF TailInv
  <2> QED
    BY <1>1, <1>4, <2>1 DEF Content, Behind
<1> QED
  BY <1>3, <1>4

\* The block a read makes of it is the next block of s.
LEMMA ReadIs ==
  ASSUME NEW s \in Contents, NEW c \in Contents, NEW a \in Nat, Behind(s, c, a),
         a % BLOCK = 0, a < Len(s)
  PROVE  /\ Len(Taken(c, a)) \in Nat /\ a + Len(Taken(c, a)) <= Len(s)
         /\ IF a + BLOCK <= Len(s) THEN Len(Taken(c, a)) = BLOCK ELSE Len(Taken(c, a)) < BLOCK
         /\ Padded(Taken(c, a)) \in WholeBlocks
         /\ Padded(Taken(c, a)) = Block(Whole(s), (a \div BLOCK) + 1)
         /\ Len(Taken(c, a)) < BLOCK => Len(s) % BLOCK # 0
<1>0. Len(c) = Len(s) /\ \A i \in a + 1 .. Len(s) : c[i] = s[i]
  BY DEF Behind
<1> DEFINE bytes == Taken(c, a)
<1> DEFINE e == IF a + BLOCK < Len(c) THEN a + BLOCK ELSE Len(c)
           q == a \div BLOCK
           n == e - a
<1>1. BLOCK \in Nat \ {0} /\ BLOCK \in Nat /\ Len(s) \in Nat /\ NL \in ByteValues
  BY TwoHalves, ContentIs, TeaAssumption
<1>2. q \in Nat /\ a = q * BLOCK
  BY MultipleIs
<1>3. /\ e \in Nat /\ e <= Len(c) /\ n \in Nat /\ n >= 1 /\ e = a + n /\ a + n <= Len(s)
      /\ IF a + BLOCK <= Len(s) THEN n = BLOCK ELSE n < BLOCK /\ a + n = Len(s)
  BY <1>0, <1>1
<1> HIDE DEF e, q, n
<1>4. bytes = SubSeq(c, a + 1, e)
  BY DEF e, Taken
<1> HIDE DEF bytes
<1>5. /\ Len(bytes) = n
      /\ \A j \in 1 .. n : bytes[j] = c[a + 1 + j - 1]
  <2>1. a + 1 \in Nat \ {0}
    OBVIOUS
  <2>2. /\ Len(bytes) = IF a + 1 <= e THEN e + 1 - (a + 1) ELSE 0
        /\ \A j \in 1 .. e + 1 - (a + 1) : bytes[j] = c[a + 1 + j - 1]
    <3>1. e \in Nat /\ e <= Len(c)
      BY <1>3
    <3> DEFINE m == a + 1
    <3>2. m \in Nat \ {0}
      BY <2>1
    <3> HIDE DEF m
    <3>3. /\ Len(SubSeq(c, m, e)) = IF m <= e THEN e + 1 - m ELSE 0
          /\ \A j \in 1 .. e + 1 - m : SubSeq(c, m, e)[j] = c[m + j - 1]
      BY <3>1, <3>2, PartIs
    <3> QED
      BY <1>4, <3>3, Zenon DEF m
  <2>3. e + 1 - (a + 1) = n /\ a + 1 <= e
    BY <1>3
  <2> QED
    BY <2>2, <2>3
<1>6. \A j \in 1 .. n : bytes[j] = s[a + j]
  <2> SUFFICES ASSUME NEW j \in 1 .. n PROVE bytes[j] = s[a + j]
    OBVIOUS
  <2>1. a + 1 + j - 1 = a + j /\ a + j \in a + 1 .. Len(s)
    BY <1>1, <1>3
  <2> QED
    BY <1>0, <1>5, <2>1
<1> DEFINE W == Whole(s)
<1>7. /\ W \in Contents /\ Len(W) = Blocks(s) * BLOCK /\ Blocks(s) \in Nat
      /\ Len(s) <= Len(W) /\ Len(W) < Len(s) + BLOCK /\ Len(W) \in Nat
      /\ \A j \in 1 .. Len(W) : W[j] = IF j <= Len(s) THEN s[j] ELSE NL
  BY WholeIs
<1> HIDE DEF W
<1>8. (q + 1) * BLOCK <= Len(W) /\ (q + 1) * BLOCK = a + BLOCK
  <2>1. (q + 1) * BLOCK = q * BLOCK + BLOCK
    BY <1>1, <1>2
  <2>2. q < Blocks(s)
    <3> SUFFICES ASSUME Blocks(s) <= q PROVE FALSE
      BY <1>2, <1>7
    <3>1. Blocks(s) * BLOCK <= q * BLOCK
      BY <1>1, <1>2, <1>7, MultipleLeq
    <3> QED
      BY <1>1, <1>2, <1>7, <3>1
  <2>3. q + 1 <= Blocks(s)
    BY <1>2, <1>7, <2>2
  <2>4. (q + 1) * BLOCK <= Blocks(s) * BLOCK
    <3>1. q + 1 \in Nat /\ Blocks(s) \in Nat
      BY <1>2, <1>7
    <3> QED
      BY <1>1, <2>3, <3>1, MultipleLeq, Zenon
  <2> QED
    BY <1>2, <1>7, <2>1, <2>4
<1>9. /\ Block(W, q + 1) \in WholeBlocks
      /\ Block(W, q + 1) = [j \in 1 .. BLOCK |-> W[q * BLOCK + j]]
  BY <1>2, <1>7, <1>8, BlockIs
<1>10. ASSUME NEW j \in 1 .. BLOCK
       PROVE  (IF j <= Len(bytes) THEN bytes[j] ELSE NL) = W[q * BLOCK + j]
  <2>1. a + j \in 1 .. Len(W) /\ a + j = q * BLOCK + j
    <3>1. a + BLOCK <= Len(W) /\ Len(W) \in Nat /\ a = q * BLOCK
      BY <1>2, <1>7, <1>8
    <3>2. a + j \in 1 .. Len(W)
      BY <1>1, <3>1
    <3> QED
      BY <3>1, <3>2
  <2>2. W[a + j] = IF a + j <= Len(s) THEN s[a + j] ELSE NL
    BY <1>7, <2>1
  <2>3. CASE j <= n
    <3>1. a + j <= Len(s) /\ j \in 1 .. n
      BY <1>1, <1>3, <2>3
    <3> QED
      BY <1>5, <1>6, <2>1, <2>2, <2>3, <3>1
  <2>4. CASE j > n
    <3>1. ~(a + j <= Len(s)) /\ ~(j <= n)
      BY <1>1, <1>3, <2>4
    <3> QED
      BY <1>5, <2>1, <2>2, <3>1
  <2>5. j <= n \/ j > n
    BY <1>1, <1>3
  <2> QED
    BY <2>3, <2>4, <2>5
<1>11. Padded(bytes) = Block(W, q + 1)
  BY <1>9, <1>10 DEF Padded
<1>12. Len(bytes) < BLOCK => Len(s) % BLOCK # 0
  <2> SUFFICES ASSUME n < BLOCK PROVE Len(s) % BLOCK # 0
    BY <1>5
  <2>1. Len(s) = BLOCK * q + n
    BY <1>1, <1>2, <1>3
  <2>2. n \in 0 .. BLOCK - 1
    BY <1>1, <1>3
  <2>3. (BLOCK * q + n) % BLOCK = n
    BY <1>1, <1>2, <2>2, DivModUnique, Zenon
  <2> QED
    BY <1>3, <2>1, <2>3
<1> QED
  BY <1>3, <1>5, <1>9, <1>11, <1>12 DEF q, W, bytes

\* The invariant holds at the beginning.
LEMMA Initial == Init => IInv
<1> SUFFICES ASSUME Init PROVE IInv
  OBVIOUS
<1>1. Zeros \in WholeBlocks
  <2>1. 0 \in ByteValues
    BY TwoHalves DEF ByteValues
  <2> QED
    BY <2>1 DEF Zeros, WholeBlocks
<1>2. file \in Contents /\ tmp \in Contents /\ << >> \in Contents
  BY TeaAssumption DEF Init, Contents
<1>3. 0 <= Len(tmp)
  BY <1>2, ContentIs
<1>4. TypeInv
  BY <1>1, <1>2, <1>3 DEF Init, TypeInv
<1>5. TailInv /\ ReadInv /\ WriteInv
  BY DEF Init, TailInv, ReadInv, WriteInv
<1>6. WholeFile
  BY DEF Init, WholeFile
<1> QED
  BY <1>4, <1>5, <1>6 DEF IInv

\* A run that is refused changes nothing.
LEMMA NotStartedKeeps == IInv /\ NotStarted => IInv'
<1> SUFFICES ASSUME IInv, NotStarted PROVE IInv'
  OBVIOUS
<1>1. TypeInv'
  BY DEF IInv, NotStarted, TypeInv, fileVars, blockVars
<1>2. TailInv' /\ ReadInv' /\ WriteInv'
  BY DEF NotStarted, TailInv, ReadInv, WriteInv
<1>3. WholeFile'
  BY DEF NotStarted, WholeFile
<1> QED
  BY <1>1, <1>2, <1>3 DEF IInv

\* A run begins.
LEMMA StartKeeps == IInv /\ Start => IInv'
<1> SUFFICES ASSUME IInv, Start PROVE IInv'
  OBVIOUS
<1>1. file \in Contents /\ tmp \in Contents
  BY DEF IInv, TypeInv
<1>2. Len(tmp) \in Nat /\ Len(file) \in Nat
  BY <1>1, ContentIs
<1>3. /\ pc' = "read" /\ op' \in {"en", "de"} /\ inPlace' \in BOOLEAN
      /\ given' = (IF inPlace' THEN tmp ELSE file) /\ old' = tmp
      /\ at' = 0 /\ wat' = 0 /\ out' = 1 /\ trouble' = {}
      /\ tmp' = tmp /\ file' = file /\ src' = src /\ dst' = dst
  BY DEF Start, fileVars, blockVars
<1>4. given' \in Contents /\ Len(given') \in Nat
  BY <1>1, <1>2, <1>3
<1>5. TypeInv'
  BY <1>1, <1>2, <1>3, <1>4 DEF IInv, TypeInv
<1>6. TailInv'
  BY <1>2, <1>3 DEF TailInv
<1>7. ReadInv'
  <2>1. BLOCK \in Nat \ {0} /\ 0 % BLOCK = 0
    BY TwoHalves
  <2>2. Made(given', tmp', old', wat', op')
    <3>1. ASSUME NEW k \in Nat PROVE ~((k + 1) * BLOCK <= 0)
      <4>1. (k + 1) * BLOCK = k * BLOCK + BLOCK /\ k * BLOCK \in Nat
        BY <2>1
      <4> QED
        BY <2>1, <4>1
    <3>2. /\ wat' = 0 /\ tmp' = old' /\ Len(old') \in Nat
      BY <1>2, <1>3
    <3> QED
      BY <3>1, <3>2 DEF Made
  <2> QED
    BY <1>3, <1>4, <2>1, <2>2 DEF ReadInv
<1>8. WriteInv' /\ WholeFile'
  BY <1>3 DEF WriteInv, WholeFile
<1> QED
  BY <1>5, <1>6, <1>7, <1>8 DEF IInv

\* A block is read, padded and transformed.
LEMMA ReadBlockKeeps == IInv /\ ReadBlock => IInv'
<1> SUFFICES ASSUME IInv, ReadBlock PROVE IInv'
  OBVIOUS
<1> DEFINE c == Content
           bytes == Taken(c, at)
<1>1. TypeInv /\ TailInv /\ ReadInv /\ pc = "read"
  BY DEF IInv, ReadBlock
<1>2. c \in Contents /\ Behind(given, c, at) /\ Len(c) = Len(given)
  BY <1>1, ContentKept DEF Behind
<1>3. /\ bytes # << >> /\ at' = at + Len(bytes) /\ src' = Padded(bytes)
      /\ dst' = Tea(op, src') /\ pc' = "write"
      /\ out' = IF Len(bytes) < BLOCK THEN 0 ELSE out
      /\ UNCHANGED <<file, tmp, op, inPlace, given, old, runs, wat, trouble, code>>
  BY DEF ReadBlock, Content, Taken, fileVars, runVars
<1>4. /\ given \in Contents /\ at \in Nat /\ wat \in Nat /\ op \in {"en", "de"}
      /\ out = 1 /\ at % BLOCK = 0 /\ wat <= at /\ at <= Len(given)
  BY <1>1 DEF TypeInv, ReadInv
<1>5. BLOCK \in Nat \ {0} /\ Len(given) \in Nat
  BY <1>4, TwoHalves, ContentIs
<1> HIDE DEF c
<1>6. at < Len(given)
  <2> SUFFICES ASSUME at = Len(given) PROVE FALSE
    BY <1>4, <1>5
  <2>1. bytes = SubSeq(c, at + 1, at)
    BY <1>2, <1>5 DEF Taken
  <2>2. bytes = << >>
    BY <1>4, <2>1
  <2> QED
    BY <1>3, <2>2
<1>7. /\ Len(bytes) \in Nat /\ at + Len(bytes) <= Len(given)
      /\ IF at + BLOCK <= Len(given) THEN Len(bytes) = BLOCK ELSE Len(bytes) < BLOCK
      /\ Padded(bytes) \in WholeBlocks
      /\ Padded(bytes) = Block(Whole(given), (at \div BLOCK) + 1)
      /\ Len(bytes) < BLOCK => Len(given) % BLOCK # 0
  BY <1>2, <1>4, <1>6, ReadIs
<1> HIDE DEF bytes
<1>8. src' \in WholeBlocks /\ dst' \in WholeBlocks
  BY <1>3, <1>4, <1>7, TeaIs
<1>9. TypeInv'
  BY <1>1, <1>3, <1>4, <1>7, <1>8 DEF TypeInv
<1>10. TailInv'
  BY <1>1, <1>3 DEF TailInv
<1>11. ReadInv' /\ WholeFile'
  BY <1>3 DEF ReadInv, WholeFile
<1>12. WriteInv'
  <2>1. out' = 1 => at' % BLOCK = 0 /\ wat' + BLOCK <= at' /\ at' <= Len(given')
    <3> SUFFICES ASSUME out' = 1 PROVE at' % BLOCK = 0 /\ wat + BLOCK <= at' /\ at' <= Len(given)
      BY <1>3
    <3>1. Len(bytes) = BLOCK /\ at' = at + BLOCK
      BY <1>3, <1>5, <1>7
    <3>2. (at + BLOCK) % BLOCK = 0
      <4>1. (at + BLOCK * 1) % BLOCK = at % BLOCK
        <5>1. at \in Nat /\ 1 \in Nat
          BY <1>4
        <5> QED
          BY <1>5, <5>1, ModShift, Zenon
      <4> QED
        BY <1>4, <1>5, <4>1
    <3> QED
      BY <1>3, <1>4, <1>5, <1>7, <3>1, <3>2
  <2>2. out' = 0 => Len(given') % BLOCK # 0
    BY <1>3, <1>4, <1>7
  <2>3. ASSUME trouble' = {}
        PROVE  /\ wat' % BLOCK = 0 /\ wat' < Len(given')
               /\ IF out' = 1 THEN at' = wat' + BLOCK ELSE Len(given') < wat' + BLOCK
               /\ src' = Block(Whole(given'), (wat' \div BLOCK) + 1)
               /\ Made(given', tmp', old', wat', op')
    <3>1. wat = at /\ Made(given, tmp, old, wat, op)
      BY <1>1, <1>3, <2>3 DEF ReadInv
    <3>3. IF out' = 1 THEN at' = at + BLOCK ELSE Len(given) < at + BLOCK
      BY <1>3, <1>4, <1>5, <1>7
    <3>4. Made(given', tmp', old', wat', op')
      BY <1>3, <3>1
    <3>5. src' = Block(Whole(given'), (wat' \div BLOCK) + 1)
      BY <1>3, <1>7, <3>1
    <3> QED
      BY <1>3, <1>4, <1>6, <3>1, <3>3, <3>4, <3>5
  <2>4. dst' = Tea(op', src')
    BY <1>3
  <2> QED
    BY <2>1, <2>2, <2>3, <2>4 DEF WriteInv
<1> QED
  BY <1>9, <1>10, <1>11, <1>12 DEF IInv

\* At the end of a file of whole blocks all of it has been written.
LEMMA ReadEndsKeeps == IInv /\ ReadEnds => IInv'
<1> SUFFICES ASSUME IInv, ReadEnds PROVE IInv'
  OBVIOUS
<1>1. TypeInv /\ TailInv /\ ReadInv /\ pc = "read"
  BY DEF IInv, ReadEnds
<1>2. /\ at >= Len(Content) /\ out' = 0 /\ pc' = "shell" /\ code' = 1
      /\ UNCHANGED <<file, tmp, op, inPlace, given, old, runs, at, wat, src, dst, trouble>>
  BY DEF ReadEnds, Exit, Content, fileVars, runVars, blockVars
<1>3. Len(Content) = Len(given)
  BY <1>1, ContentKept DEF Behind
<1>4. TypeInv'
  BY <1>1, <1>2 DEF TypeInv
<1>5. TailInv' /\ ReadInv' /\ WriteInv'
  BY <1>2 DEF TailInv, ReadInv, WriteInv
<1>6. WholeFile'
  <2>1. trouble \subseteq {"short"}
    BY <1>1 DEF TailInv
  <2>2. ASSUME trouble = {}
        PROVE  AllMade(given, tmp, old, op)
    <3>1. /\ wat = at /\ at % BLOCK = 0 /\ at <= Len(given) /\ wat \in Nat
          /\ Made(given, tmp, old, wat, op)
      BY <1>1, <2>2 DEF TypeInv, ReadInv
    <3>2. given \in Contents /\ tmp \in Contents /\ old \in Contents
      BY <1>1 DEF TypeInv
    <3>3. BLOCK \in Nat \ {0} /\ Len(given) \in Nat
      BY <3>2, TwoHalves, ContentIs
    <3>4. wat = Len(given)
      BY <1>2, <1>3, <3>1, <3>3
    <3>5. Len(given) <= wat /\ wat < Len(given) + BLOCK /\ wat % BLOCK = 0
      BY <3>1, <3>3, <3>4
    <3> QED
      BY <3>1, <3>2, <3>5, Finished
  <2> QED
    BY <1>2, <2>1, <2>2 DEF WholeFile, AllMade
<1> QED
  BY <1>4, <1>5, <1>6 DEF IInv

\* A read that fails ends the run and is reported.
LEMMA ReadFailsKeeps == IInv /\ ReadFails => IInv'
<1> SUFFICES ASSUME IInv, ReadFails PROVE IInv'
  OBVIOUS
<1>1. /\ pc = "read" /\ pc' = "shell" /\ trouble' = trouble \cup {"read"}
      /\ UNCHANGED <<file, tmp, op, inPlace, given, old, runs, at, wat, src, dst, out>>
  BY DEF ReadFails, Exit, fileVars, runVars, blockVars
<1>2. TypeInv'
  BY <1>1 DEF IInv, TypeInv
<1>3. TailInv' /\ ReadInv' /\ WriteInv'
  BY <1>1 DEF TailInv, ReadInv, WriteInv
<1>4. WholeFile'
  <2>1. out' = 1
    BY <1>1 DEF IInv, ReadInv
  <2> QED
    BY <1>1, <2>1 DEF WholeFile
<1> QED
  BY <1>2, <1>3, <1>4 DEF IInv

\* What a write of n bytes leaves of what is true before it.
LEMMA WriteIs ==
  ASSUME IInv, pc = "write", NEW n \in Parts \cup {BLOCK},
         NEW t, t = Overwrite(tmp, wat, SubSeq(dst, 1, n))
  PROVE  /\ n \in Nat /\ n <= BLOCK /\ t \in Contents /\ wat + n <= Len(t)
         /\ Len(t) = IF wat + n > Len(old) THEN wat + n ELSE Len(old)
         /\ \A i \in wat + n + 1 .. Len(old) : t[i] = old[i]
         /\ n = BLOCK /\ trouble = {} => Made(given, t, old, wat + BLOCK, op)
<1> DEFINE bytes == SubSeq(dst, 1, n)
           z == wat + n
<1>1. TypeInv /\ TailInv /\ WriteInv
  BY DEF IInv
<1>2. /\ tmp \in Contents /\ old \in Contents /\ given \in Contents
      /\ wat \in Nat /\ wat <= Len(tmp) /\ dst \in WholeBlocks /\ src \in WholeBlocks
      /\ op \in {"en", "de"}
  BY <1>1 DEF TypeInv
<1>3. /\ BLOCK \in Nat \ {0} /\ BLOCK \in Nat /\ Len(tmp) \in Nat /\ Len(old) \in Nat
  BY <1>2, TwoHalves, ContentIs
<1>4. n \in Nat /\ n <= BLOCK
  BY <1>3, TeaAssumption
<1>5. dst \in Contents /\ Len(dst) = BLOCK
  BY <1>2, BlocksAre
<1>6. bytes \in Contents /\ Len(bytes) = n /\ \A j \in 1 .. n : bytes[j] = dst[j]
  <2>1. 1 \in Nat \ {0} /\ n <= Len(dst)
    BY <1>4, <1>5
  <2>2. /\ bytes \in Contents /\ Len(bytes) = IF 1 <= n THEN n + 1 - 1 ELSE 0
        /\ \A j \in 1 .. n + 1 - 1 : bytes[j] = dst[1 + j - 1]
    BY <1>4, <1>5, <2>1, PartIs
  <2> HIDE DEF bytes
  <2> QED
    BY <1>4, <2>2
<1> HIDE DEF bytes
<1>7. t = Overwrite(tmp, wat, bytes)
  BY DEF bytes
<1>8. /\ t \in Contents
      /\ Len(t) = IF z > Len(tmp) THEN z ELSE Len(tmp)
      /\ \A i \in 1 .. wat : t[i] = tmp[i]
      /\ \A i \in 1 .. n : t[wat + i] = bytes[i]
      /\ \A i \in z + 1 .. Len(tmp) : t[i] = tmp[i]
  BY <1>2, <1>6, <1>7, OverwriteIs
<1>9. /\ Len(tmp) = IF wat > Len(old) THEN wat ELSE Len(old)
      /\ \A i \in wat + 1 .. Len(old) : tmp[i] = old[i]
  BY <1>1 DEF TailInv
<1>10. z \in Nat /\ z >= wat
  BY <1>2, <1>4
<1> HIDE DEF z
<1>11. Len(t) = (IF z > Len(old) THEN z ELSE Len(old)) /\ z <= Len(t)
  BY <1>2, <1>3, <1>8, <1>9, <1>10
<1>12. \A i \in z + 1 .. Len(old) : t[i] = old[i]
  <2> SUFFICES ASSUME NEW i \in z + 1 .. Len(old) PROVE t[i] = old[i]
    OBVIOUS
  <2>1. i \in z + 1 .. Len(tmp) /\ i \in wat + 1 .. Len(old)
    BY <1>2, <1>3, <1>9, <1>10
  <2> QED
    BY <1>8, <1>9, <2>1
<1>13. ASSUME n = BLOCK, trouble = {} PROVE Made(given, t, old, z, op)
  <2> DEFINE q == wat \div BLOCK
  <2>1. /\ wat % BLOCK = 0 /\ dst = Tea(op, src)
        /\ src = Block(Whole(given), (wat \div BLOCK) + 1)
        /\ Made(given, tmp, old, wat, op)
    BY <1>1, <1>13 DEF WriteInv
  <2>2. q \in Nat /\ wat = q * BLOCK
    BY <1>2, <2>1, MultipleIs
  <2>3. src = Block(Whole(given), q + 1)
    BY <2>1
  <2> HIDE DEF q
  <2>4. z = wat + BLOCK /\ z = (q + 1) * BLOCK
    <3>1. (q + 1) * BLOCK = q * BLOCK + BLOCK
      BY <1>3, <2>2
    <3> QED
      BY <1>13, <2>2, <3>1 DEF z
  <2>5. ASSUME NEW k \in Nat, (k + 1) * BLOCK <= z
        PROVE  Block(t, k + 1) = Tea(op, Block(Whole(given), k + 1))
    <3>1. k + 1 \in Nat /\ q + 1 \in Nat /\ (k + 1) * BLOCK \in Nat
      BY <1>3, <2>2
    <3>2. CASE k < q
      <4>1. k + 1 <= q
        BY <2>2, <3>2
      <4>2. (k + 1) * BLOCK <= wat
        BY <1>3, <2>2, <3>1, <4>1, MultipleLeq
      <4>3. Block(tmp, k + 1) = Tea(op, Block(Whole(given), k + 1))
        BY <2>1, <4>2 DEF Made
      <4>4. wat <= Len(t)
        BY <1>2, <1>3, <1>8, <1>10
      <4>5. Block(t, k + 1) = Block(tmp, k + 1)
        BY <1>2, <1>8, <4>2, <4>4, BlockKept
      <4> QED
        BY <4>3, <4>5
    <3>3. CASE k = q
      <4>1. (q + 1) * BLOCK <= Len(t)
        BY <1>11, <2>4
      <4>2. Block(t, q + 1) = [j \in 1 .. BLOCK |-> t[q * BLOCK + j]]
        BY <1>8, <2>2, <4>1, BlockIs
      <4>3. \A j \in 1 .. BLOCK : t[q * BLOCK + j] = dst[j]
        BY <1>6, <1>8, <1>13, <2>2
      <4>4. dst = [j \in 1 .. BLOCK |-> dst[j]]
        BY <1>2 DEF WholeBlocks
      <4>5. [j \in 1 .. BLOCK |-> t[q * BLOCK + j]] = [j \in 1 .. BLOCK |-> dst[j]]
        BY <4>3
      <4> QED
        BY <2>1, <2>3, <3>3, <4>2, <4>4, <4>5
    <3>4. ~(k > q)
      <4> SUFFICES ASSUME k > q PROVE FALSE
        OBVIOUS
      <4>1. q + 1 + 1 \in Nat /\ q + 1 + 1 <= k + 1
        BY <2>2
      <4>2. (q + 1 + 1) * BLOCK <= (k + 1) * BLOCK
        BY <1>3, <3>1, <4>1, MultipleLeq
      <4>3. (q + 1 + 1) * BLOCK = (q + 1) * BLOCK + BLOCK
        BY <1>3, <3>1
      <4> QED
        BY <1>3, <1>10, <2>4, <2>5, <3>1, <4>2, <4>3
    <3> QED
      BY <2>2, <3>2, <3>3, <3>4
  <2> QED
    BY <1>11, <1>12, <2>5 DEF Made
<1>14. n = BLOCK /\ trouble = {} => Made(given, t, old, wat + BLOCK, op)
  BY <1>13 DEF z
<1> QED
  BY <1>4, <1>8, <1>11, <1>12, <1>14 DEF z

\* A block, or a part of it, is written.
LEMMA WriteBlockKeeps == IInv /\ WriteBlock => IInv'
<1> SUFFICES ASSUME IInv, WriteBlock PROVE IInv'
  OBVIOUS
<1>1. PICK n \in Parts \cup {BLOCK} :
        /\ tmp' = Overwrite(tmp, wat, SubSeq(dst, 1, n)) /\ wat' = wat + n
        /\ trouble' = trouble \cup (IF n < BLOCK THEN {"short"} ELSE {})
  BY DEF WriteBlock
<1>2. /\ pc = "write"
      /\ UNCHANGED <<file, op, inPlace, given, old, runs, at, src, dst, out>>
      /\ IF out = 0 THEN pc' = "shell" /\ code' = 1 ELSE pc' = "read"
  BY DEF WriteBlock, Turn, Exit, runVars, blockVars
<1>3. /\ n \in Nat /\ n <= BLOCK /\ tmp' \in Contents /\ wat + n <= Len(tmp')
      /\ Len(tmp') = IF wat + n > Len(old) THEN wat + n ELSE Len(old)
      /\ \A i \in wat + n + 1 .. Len(old) : tmp'[i] = old[i]
      /\ n = BLOCK /\ trouble = {} => Made(given, tmp', old, wat + BLOCK, op)
  BY <1>1, <1>2, WriteIs
<1>4. TypeInv /\ TailInv /\ WriteInv
  BY DEF IInv
<1>5. /\ BLOCK \in Nat \ {0} /\ wat \in Nat /\ at \in Nat /\ out \in {0, 1}
      /\ given \in Contents /\ old \in Contents /\ Len(given) \in Nat
  BY <1>4, TwoHalves, ContentIs DEF TypeInv
<1>6. TypeInv'
  BY <1>1, <1>2, <1>3, <1>4, <1>5 DEF TypeInv
<1>7. TailInv'
  <2>1. trouble' \subseteq {"short"}
    BY <1>1, <1>2, <1>4 DEF TailInv
  <2> QED
    BY <1>1, <1>2, <1>3, <1>4, <2>1 DEF TailInv
<1>8. trouble' = {} => trouble = {} /\ n = BLOCK /\ wat' = wat + BLOCK
  <2> SUFFICES ASSUME trouble' = {} PROVE trouble = {} /\ n = BLOCK /\ wat' = wat + BLOCK
    OBVIOUS
  <2>1. ~(n < BLOCK)
    <3> SUFFICES ASSUME n < BLOCK PROVE FALSE
      OBVIOUS
    <3>1. "short" \in trouble'
      BY <1>1
    <3> QED
      BY <3>1
  <2>2. n = BLOCK
    BY <1>3, <1>5, <2>1
  <2>3. trouble = {}
    BY <1>1
  <2> QED
    BY <1>1, <2>2, <2>3
<1>9. ReadInv'
  <2> SUFFICES ASSUME pc' = "read"
               PROVE  /\ out' = 1 /\ at' % BLOCK = 0 /\ wat' <= at' /\ at' <= Len(given')
                      /\ trouble' = {} =>
                           wat' = at' /\ Made(given', tmp', old', wat', op')
    BY DEF ReadInv
  <2>1. out = 1
    BY <1>2, <1>5
  <2>2. at % BLOCK = 0 /\ wat + BLOCK <= at /\ at <= Len(given)
    BY <1>2, <1>4, <2>1 DEF WriteInv
  <2>3. trouble = {} => at = wat + BLOCK
    BY <1>2, <1>4, <2>1 DEF WriteInv
  <2>4. wat' <= at
    BY <1>1, <1>3, <1>5, <2>2
  <2> QED
    BY <1>2, <1>3, <1>8, <2>1, <2>2, <2>3, <2>4
<1>10. WriteInv'
  BY <1>2 DEF WriteInv
<1>11. WholeFile'
  <2> SUFFICES ASSUME pc' = "shell", code' = 1
               PROVE  /\ trouble' = {} => AllMade(given', tmp', old', op') /\ out' = 0
                      /\ out' = 1 => trouble' # {}
                      /\ out' = 0 => /\ "read" \notin trouble'
                                     /\ "write" \in trouble' => Len(given') % BLOCK # 0
    BY DEF WholeFile, AllMade
  <2>1. out = 0
    BY <1>2
  <2>2. trouble' \subseteq {"short"}
    BY <1>1, <1>2, <1>4 DEF TailInv
  <2>3. ASSUME trouble' = {} PROVE AllMade(given, tmp', old, op)
    <3>1. /\ wat % BLOCK = 0 /\ wat < Len(given) /\ Len(given) < wat + BLOCK
      BY <1>2, <1>4, <1>8, <2>1, <2>3 DEF WriteInv
    <3>2. (wat + BLOCK) % BLOCK = 0
      <4>1. (wat + BLOCK * 1) % BLOCK = wat % BLOCK
        <5>1. wat \in Nat /\ 1 \in Nat
          BY <1>5
        <5> QED
          BY <1>5, <5>1, ModShift, Zenon
      <4> QED
        BY <1>5, <3>1, <4>1
    <3>3. /\ wat + BLOCK \in Nat /\ Len(given) <= wat + BLOCK
          /\ wat + BLOCK < Len(given) + BLOCK
      BY <1>5, <3>1
    <3> QED
      BY <1>3, <1>5, <1>8, <2>3, <3>2, <3>3, Finished
  <2> QED
    BY <1>2, <2>1, <2>2, <2>3
<1> QED
  BY <1>6, <1>7, <1>9, <1>10, <1>11 DEF IInv

\* A write that fails ends the run; that of the last block is not reported.
LEMMA WriteFailsKeeps == IInv /\ WriteFails => IInv'
<1> SUFFICES ASSUME IInv, WriteFails PROVE IInv'
  OBVIOUS
<1>1. /\ pc = "write" /\ pc' = "shell" /\ trouble' = trouble \cup {"write"}
      /\ UNCHANGED <<file, tmp, op, inPlace, given, old, runs, at, wat, src, dst, out>>
  BY DEF WriteFails, Exit, fileVars, runVars, blockVars
<1>2. TypeInv'
  BY <1>1 DEF IInv, TypeInv
<1>3. TailInv' /\ ReadInv' /\ WriteInv'
  BY <1>1 DEF TailInv, ReadInv, WriteInv
<1>4. WholeFile'
  <2>1. trouble \subseteq {"short"} /\ (out = 0 => Len(given) % BLOCK # 0)
    BY <1>1 DEF IInv, TailInv, WriteInv
  <2>2. "read" \notin trouble'
    BY <1>1, <2>1
  <2> QED
    BY <1>1, <2>1, <2>2 DEF WholeFile
<1> QED
  BY <1>2, <1>3, <1>4 DEF IInv

\* The user moves tmpfile over the file.
LEMMA KeepKeeps == IInv /\ Keep => IInv'
<1> SUFFICES ASSUME IInv, Keep PROVE IInv'
  OBVIOUS
<1>1. Zeros \in WholeBlocks
  <2>1. 0 \in ByteValues
    BY TwoHalves DEF ByteValues
  <2> QED
    BY <2>1 DEF Zeros, WholeBlocks
<1>2. tmp \in Contents /\ << >> \in Contents /\ Len(<< >>) = 0
  BY DEF IInv, TypeInv, Contents
<1>3. TypeInv'
  <2>1. /\ UNCHANGED <<pc, code, runs>> /\ file' = tmp /\ tmp' = << >>
        /\ op' = "en" /\ inPlace' = FALSE /\ given' = << >> /\ old' = << >>
        /\ at' = 0 /\ wat' = 0 /\ src' = Zeros /\ dst' = Zeros /\ out' = 1
    BY DEF Keep
  <2>2. pc \in {"shell", "read", "write"}
    BY DEF IInv, TypeInv
  <2>3. 0 <= Len(tmp')
    BY <1>2, <2>1
  <2> QED
    BY <1>1, <1>2, <2>1, <2>2, <2>3 DEF TypeInv
<1>4. TailInv' /\ ReadInv' /\ WriteInv'
  BY DEF Keep, TailInv, ReadInv, WriteInv
<1>5. WholeFile'
  BY DEF Keep, WholeFile
<1> QED
  BY <1>3, <1>4, <1>5 DEF IInv

\* The invariant is kept by every step.
LEMMA Invariant == Spec => []IInv
<1>1. Init => IInv
  BY Initial
<1>2. IInv /\ [Next]_vars => IInv'
  <2> SUFFICES ASSUME IInv, [Next]_vars PROVE IInv'
    OBVIOUS
  <2>1. CASE Next
    BY <2>1, NotStartedKeeps, StartKeeps, ReadBlockKeeps, ReadEndsKeeps, ReadFailsKeeps,
       WriteBlockKeeps, WriteFailsKeeps, KeepKeeps DEF Next
  <2>2. CASE UNCHANGED vars
    BY <2>2 DEF vars, fileVars, runVars, blockVars, IInv, TypeInv, TailInv, ReadInv,
       WriteInv, WholeFile
  <2> QED
    BY <2>1, <2>2
<1> QED
  BY <1>1, <1>2, PTL DEF Spec

\* Whatever a run has written, the reverse operation gives back the block that
\* was read.
THEOREM BlocksInvert == Spec => []BlocksInvertible
<1>1. IInv => BlocksInvertible
  <2> SUFFICES ASSUME IInv, pc = "write"
               PROVE  src = Tea(IF op = "en" THEN "de" ELSE "en", dst)
    BY DEF BlocksInvertible
  <2>1. src \in WholeBlocks /\ op \in {"en", "de"} /\ dst = Tea(op, src)
    BY DEF IInv, TypeInv, WriteInv
  <2>2. Tea("de", Tea("en", src)) = src /\ Tea("en", Tea("de", src)) = src
    BY <2>1, TeaInverse
  <2> QED
    BY <2>1, <2>2
<1> QED
  BY <1>1, Invariant, PTL

\* After a run in which nothing failed, tmpfile begins with the transformed
\* file; what runs report of their failures.
THEOREM FileWhole == Spec => []WholeFile
<1>1. IInv => WholeFile
  BY DEF IInv
<1> QED
  BY <1>1, Invariant, PTL
===============================================================================
