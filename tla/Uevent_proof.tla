------------------------------ MODULE Uevent_proof ------------------------------
(***************************************************************************)
(* Proofs about Uevent: what the listener prints of a message is what the  *)
(* message says, and nothing it reads is outside the buffer, for every     *)
(* size of the buffer and of envp and every alphabet.                      *)
(*                                                                         *)
(* The invariant says what the buffer holds at every stage, field by       *)
(* field: what fits of the message, and behind it a NUL; the bytes of      *)
(* earlier messages behind that NUL are in no part of it, and the proof    *)
(* never speaks of them.                                                   *)
(***************************************************************************)
EXTENDS Uevent, NatLemmas, FiniteSetTheorems, SequenceTheorems

-------------------------------------------------------------------------------
Offsets == 0 .. BufferSize - 1
Buffers == [Offsets -> Chars]
Texts == Seq(Chars)

\* What a text is.
LEMMA TextIs ==
  ASSUME NEW f \in Texts
  PROVE  Len(f) \in Nat /\ DOMAIN f = 1 .. Len(f) /\ \A i \in 1 .. Len(f) : f[i] \in Chars
  BY DEF Texts

\* A part of n characters behind the first m.
LEMMA PartIs ==
  ASSUME NEW f \in Texts, NEW m \in Nat, NEW n \in Nat, m + n <= Len(f)
  PROVE  /\ SubSeq(f, m + 1, m + n) \in Texts /\ Len(SubSeq(f, m + 1, m + n)) = n
         /\ SubSeq(f, m + 1, m + n) = [k \in 1 .. n |-> f[m + k]]
<1> DEFINE a == m + 1
           z == m + n
           s == SubSeq(f, a, z)
<1>1. /\ a \in Nat \ {0} /\ z \in Nat /\ Len(f) \in Nat /\ z <= Len(f)
      /\ z + 1 - a = n /\ a \in 1 .. z + 1 /\ z \in a - 1 .. Len(f)
  BY TextIs
<1>2. \A k \in 1 .. n : a + k - 1 = m + k
  OBVIOUS
<1> HIDE DEF a, z
<1>3. /\ s \in Texts /\ Len(s) = n /\ \A k \in 1 .. n : s[k] = f[a + k - 1]
  <2>1. CASE n = 0
    <3>1. ~(a <= z)
      BY <1>1, <2>1
    <3>2. s = << >>
      BY <1>1, <3>1
    <3> QED
      BY <2>1, <3>2 DEF Texts
  <2>2. CASE n # 0
    <3>1. a <= z
      BY <1>1, <2>2
    <3>2. /\ s \in Seq(Chars) /\ Len(s) = z - a + 1
          /\ \A k \in 1 .. z - a + 1 : s[k] = f[a + k - 1]
      BY <1>1, <3>1, SubSeqProperties DEF Texts
    <3>3. z - a + 1 = n
      BY <1>1
    <3> HIDE DEF s
    <3> QED
      BY <3>2, <3>3 DEF Texts
  <2> QED
    BY <2>1, <2>2
<1> HIDE DEF s
<1>4. s = [k \in 1 .. n |-> s[k]]
  BY <1>3 DEF Texts
<1>5. [k \in 1 .. n |-> s[k]] = [k \in 1 .. n |-> f[m + k]]
  BY <1>2, <1>3
<1>6. s = [k \in 1 .. n |-> f[m + k]]
  BY <1>4, <1>5, Zenon
<1> QED
  BY <1>3, <1>6 DEF s, a, z

-------------------------------------------------------------------------------
\* Where the field that starts at a place of a text ends: at the first NUL from
\* there on, or behind the text.
IsEnd(f, from, e) ==
  /\ e \in from .. Len(f) + 1
  /\ e <= Len(f) => f[e] = NUL
  /\ \A j \in from .. e - 1 : f[j] # NUL

\* Every field has an end.
LEMMA EndExists ==
  ASSUME NEW f \in Texts, NEW from \in 1 .. Len(f) + 1
  PROVE  \E e \in Nat : IsEnd(f, from, e)
<1>1. Len(f) \in Nat
  BY TextIs
<1> DEFINE T == {k \in from .. Len(f) + 1 : k = Len(f) + 1 \/ f[k] = NUL}
<1>2. T \in SUBSET Nat /\ Len(f) + 1 \in T
  BY <1>1
<1>3. PICK e \in T : \A k \in T : e <= k
  <2> HIDE DEF T
  <2>1. T # {}
    BY <1>2
  <2> QED
    BY <1>2, <2>1, LeastNatural
<1>4. e \in from .. Len(f) + 1 /\ (e = Len(f) + 1 \/ f[e] = NUL) /\ e \in Nat
  BY <1>1, <1>3
<1>5. ASSUME NEW j \in from .. e - 1 PROVE f[j] # NUL
  <2>1. j \notin T
    BY <1>1, <1>3, <1>4
  <2>2. j \in from .. Len(f) + 1
    BY <1>1, <1>4
  <2> QED
    BY <2>1, <2>2
<1>6. e <= Len(f) => f[e] = NUL
  BY <1>1, <1>4
<1> QED
  BY <1>4, <1>5, <1>6 DEF IsEnd

\* A field is what there is before its end.
LEMMA FieldIs ==
  ASSUME NEW f \in Texts, NEW from \in 1 .. Len(f) + 1, NEW e \in Nat, IsEnd(f, from, e)
  PROVE  Field(f, from) = SubSeq(f, from, e - 1)
<1>1. Len(f) \in Nat
  BY TextIs
<1>2. /\ e \in from .. Len(f) + 1
      /\ e <= Len(f) => f[e] = NUL
      /\ \A j \in from .. e - 1 : f[j] # NUL
  BY DEF IsEnd
<1>3. e \in Ends(f, from)
  BY <1>1, <1>2 DEF Ends
<1>4. ASSUME NEW k \in Ends(f, from) PROVE e <= k /\ k \in Int
  <2>1. k \in from .. Len(f) + 1 /\ (k = Len(f) + 1 \/ f[k] = NUL)
    BY <1>1 DEF Ends
  <2>2. k \notin from .. e - 1
    BY <1>1, <1>2, <2>1
  <2> QED
    BY <1>1, <1>2, <2>1, <2>2
<1> DEFINE c == CHOOSE k \in Ends(f, from) : \A j \in Ends(f, from) : k <= j
<1>5. c \in Ends(f, from) /\ \A j \in Ends(f, from) : c <= j
  BY <1>3, <1>4
<1> HIDE DEF c
<1>6. c = e
  BY <1>3, <1>4, <1>5
<1> QED
  BY <1>6 DEF Field, c

\* A field by its end.
LEMMA FieldParts ==
  ASSUME NEW f \in Texts, NEW m \in Nat, NEW e \in Nat, m <= Len(f), IsEnd(f, m + 1, e)
  PROVE  /\ e - 1 - m \in Nat /\ Field(f, m + 1) \in Texts
         /\ Len(Field(f, m + 1)) = e - 1 - m
         /\ Field(f, m + 1) = [k \in 1 .. e - 1 - m |-> f[m + k]]
<1>1. Len(f) \in Nat
  BY TextIs
<1>2. e \in m + 1 .. Len(f) + 1
  BY DEF IsEnd
<1> DEFINE n == e - 1 - m
<1>3. n \in Nat /\ m + n <= Len(f) /\ m + n = e - 1 /\ m + 1 \in 1 .. Len(f) + 1
  BY <1>1, <1>2
<1>4. Field(f, m + 1) = SubSeq(f, m + 1, m + n)
  BY <1>3, FieldIs
<1> HIDE DEF n
<1>5. /\ SubSeq(f, m + 1, m + n) \in Texts /\ Len(SubSeq(f, m + 1, m + n)) = n
      /\ SubSeq(f, m + 1, m + n) = [k \in 1 .. n |-> f[m + k]]
  BY <1>3, PartIs
<1> QED
  BY <1>3, <1>4, <1>5 DEF n

\* The length of the text at an offset of a buffer.
LEMMA StrlenIs ==
  ASSUME NEW b, NEW from \in Nat, NEW e \in from .. BufferSize - 1,
         b[e] = NUL, \A j \in from .. e - 1 : b[j] # NUL
  PROVE  strlen(b, from) = e - from
<1>1. BufferSize \in Nat
  BY UeventAssumption
<1> DEFINE Q(k) == b[k] = NUL /\ \A j \in from .. k - 1 : b[j] # NUL
           c == CHOOSE k \in from .. BufferSize - 1 : Q(k)
<1>2. c \in from .. BufferSize - 1 /\ Q(c)
  BY Zenon
<1> HIDE DEF c
<1>3. c = e
  <2>1. ~(c < e)
    BY <1>1, <1>2
  <2>2. ~(e < c)
    BY <1>1, <1>2
  <2> QED
    BY <1>1, <1>2, <2>1, <2>2
<1> QED
  BY <1>3 DEF strlen, c

\* A buffer that holds a text from an offset on.
Holding(b, f, from) ==
  /\ Len(f) < BufferSize /\ b[Len(f)] = NUL
  /\ \A k \in from .. Len(f) - 1 : b[k] = f[k + 1]

\* What strlen and printf take for a text there is the field of the text.
LEMMA HeldText ==
  ASSUME NEW b, NEW f \in Texts, NEW from \in Nat, from <= Len(f), Holding(b, f, from),
         NEW e \in Nat, IsEnd(f, from + 1, e)
  PROVE  strlen(b, from) = e - 1 - from /\ Text(b, from) = Field(f, from + 1)
<1>1. Len(f) \in Nat /\ BufferSize \in Nat
  BY TextIs, UeventAssumption
<1>2. /\ e \in from + 1 .. Len(f) + 1
      /\ e <= Len(f) => f[e] = NUL
      /\ \A j \in from + 1 .. e - 1 : f[j] # NUL
  BY DEF IsEnd
<1>3. /\ Len(f) < BufferSize /\ b[Len(f)] = NUL
      /\ \A k \in from .. Len(f) - 1 : b[k] = f[k + 1]
  BY DEF Holding
<1>4. e - 1 \in from .. BufferSize - 1
  BY <1>1, <1>2, <1>3
<1>5. b[e - 1] = NUL
  <2>1. CASE e <= Len(f)
    <3>1. e - 1 \in from .. Len(f) - 1 /\ (e - 1) + 1 = e
      BY <1>1, <1>2, <2>1
    <3> QED
      BY <1>2, <1>3, <2>1, <3>1
  <2>2. CASE e > Len(f)
    <3>1. e - 1 = Len(f)
      BY <1>1, <1>2, <2>2
    <3> QED
      BY <1>3, <3>1
  <2> QED
    BY <1>1, <1>2, <2>1, <2>2
<1>6. ASSUME NEW j \in from .. e - 1 - 1 PROVE b[j] # NUL /\ b[j] = f[j + 1]
  <2>1. j \in from .. Len(f) - 1 /\ j + 1 \in from + 1 .. e - 1
    BY <1>1, <1>2
  <2> QED
    BY <1>2, <1>3, <2>1
<1>7. strlen(b, from) = e - 1 - from
  BY <1>4, <1>5, <1>6, StrlenIs
<1>8. Text(b, from) = [k \in 1 .. e - 1 - from |-> b[from + k - 1]]
  BY <1>7 DEF Text
<1>9. ASSUME NEW k \in 1 .. e - 1 - from PROVE b[from + k - 1] = f[from + k]
  <2>1. from + k - 1 \in from .. e - 1 - 1 /\ (from + k - 1) + 1 = from + k
    BY <1>1, <1>2
  <2> QED
    BY <1>6, <2>1
<1>10. Field(f, from + 1) = [k \in 1 .. e - 1 - from |-> f[from + k]]
  BY FieldParts
<1>11. Text(b, from) = Field(f, from + 1)
  BY <1>8, <1>9, <1>10
<1> QED
  BY <1>7, <1>11

-------------------------------------------------------------------------------
\* The number of fields behind the first that start up to a place.
Count(f, p) == Cardinality(Starts(f) \cap (1 .. p))

\* There are finitely many fields.
LEMMA StartsFinite ==
  ASSUME NEW f \in Texts
  PROVE  /\ IsFiniteSet(Starts(f)) /\ Cardinality(Starts(f)) \in Nat
         /\ \A p : IsFiniteSet(Starts(f) \cap (1 .. p)) /\ Count(f, p) \in Nat
                   /\ Count(f, p) <= Cardinality(Starts(f))
<1>1. Len(f) \in Nat
  BY TextIs
<1>2. IsFiniteSet(2 .. Len(f))
  BY <1>1, FS_Interval
<1>3. Starts(f) \subseteq 2 .. Len(f)
  BY DEF Starts
<1>4. IsFiniteSet(Starts(f)) /\ Cardinality(Starts(f)) \in Nat
  BY <1>2, <1>3, FS_Subset, FS_CardinalityType
<1> SUFFICES ASSUME NEW p
             PROVE  /\ IsFiniteSet(Starts(f) \cap (1 .. p)) /\ Count(f, p) \in Nat
                    /\ Count(f, p) <= Cardinality(Starts(f))
  BY <1>4
<1>5. Starts(f) \cap (1 .. p) \subseteq Starts(f)
  OBVIOUS
<1> QED
  BY <1>4, <1>5, FS_Subset, FS_CardinalityType DEF Count

\* A field is known by how many start up to it.
LEMMA KeyIs ==
  ASSUME NEW f \in Texts, NEW k \in Starts(f)
  PROVE  Key(f, Count(f, k)) = k
<1> DEFINE S == Starts(f)
           c == CHOOSE n \in S : Cardinality(S \cap (1 .. n)) = Count(f, k)
<1>1. S \subseteq Nat \ {0}
  BY TextIs DEF Starts
<1>2. c \in S /\ Cardinality(S \cap (1 .. c)) = Count(f, k)
  BY DEF Count
<1>3. Key(f, Count(f, k)) = c
  BY DEF Key
<1> HIDE DEF c
<1>4. ASSUME NEW x \in S, NEW y \in S, x < y PROVE Count(f, x) # Count(f, y)
  <2>1. S \cap (1 .. x) \subseteq S \cap (1 .. y) /\ IsFiniteSet(S \cap (1 .. y))
    BY <1>1, <1>4, StartsFinite
  <2>2. y \in S \cap (1 .. y) /\ y \notin S \cap (1 .. x)
    BY <1>1, <1>4
  <2> QED
    BY <2>1, <2>2, FS_Subset DEF Count
<1>5. Count(f, c) = Count(f, k)
  BY <1>2 DEF Count
<1>6. c \in Nat /\ k \in Nat
  BY <1>1, <1>2
<1> HIDE DEF S
<1>7. ~(c < k) /\ ~(k < c)
  BY <1>2, <1>4, <1>5 DEF S
<1> QED
  BY <1>3, <1>6, <1>7

\* No field behind the first starts at the beginning.
LEMMA CountFirst == ASSUME NEW f \in Texts PROVE Count(f, 1) = 0
<1>1. Starts(f) \cap (1 .. 1) = {}
  BY DEF Starts
<1> QED
  BY <1>1, FS_EmptySet DEF Count

\* Behind the end of a field the next one starts, if there is anything there.
LEMMA NextStart ==
  ASSUME NEW f \in Texts, NEW p \in 1 .. Len(f), NEW e \in Nat, IsEnd(f, p, e)
  PROVE  IF e < Len(f) THEN e + 1 \in Starts(f) /\ Count(f, e + 1) = Count(f, p) + 1
         ELSE Cardinality(Starts(f)) = Count(f, p)
<1>1. Len(f) \in Nat /\ p \in Nat
  BY TextIs
<1>2. /\ e \in p .. Len(f) + 1
      /\ e <= Len(f) => f[e] = NUL
      /\ \A j \in p .. e - 1 : f[j] # NUL
  BY DEF IsEnd
<1> DEFINE S == Starts(f)
<1>3. \A k \in S : k \in 2 .. Len(f) /\ f[k - 1] = NUL
  BY DEF Starts
<1>4. ASSUME NEW k \in S, k > p PROVE k >= e + 1
  <2>1. k - 1 \notin p .. e - 1 /\ k \in Nat
    BY <1>1, <1>2, <1>3
  <2> QED
    BY <1>1, <1>2, <1>4, <2>1
<1>5. CASE e < Len(f)
  <2>1. e + 1 \in S
    <3>1. e + 1 \in 2 .. Len(f) /\ (e + 1) - 1 = e /\ f[e] = NUL
      BY <1>1, <1>2, <1>5
    <3> QED
      BY <3>1 DEF Starts
  <2>2. S \cap (1 .. e + 1) = (S \cap (1 .. p)) \cup {e + 1}
    <3>1. ASSUME NEW k \in S PROVE k \in 1 .. e + 1 <=> (k \in 1 .. p \/ k = e + 1)
      <4>1. k \in Nat /\ k >= 1
        BY <1>1, <1>3
      <4> QED
        BY <1>1, <1>2, <1>4, <4>1
    <3> HIDE DEF S
    <3> QED
      BY <2>1, <3>1
  <2>3. e + 1 \notin S \cap (1 .. p) /\ IsFiniteSet(S \cap (1 .. p))
    <3>1. e + 1 \notin 1 .. p
      BY <1>1, <1>2
    <3>2. IsFiniteSet(S \cap (1 .. p))
      BY StartsFinite
    <3> QED
      BY <3>1, <3>2
  <2> HIDE DEF S
  <2>4. Cardinality((S \cap (1 .. p)) \cup {e + 1}) = Cardinality(S \cap (1 .. p)) + 1
    BY <2>3, FS_AddElement
  <2> QED
    BY <1>5, <2>1, <2>2, <2>4 DEF Count, S
<1>6. CASE ~(e < Len(f))
  <2>1. \A k \in S : k \in 1 .. p
    <3> SUFFICES ASSUME NEW k \in S PROVE k \in 1 .. p
      OBVIOUS
    <3>1. k \in Nat /\ k >= 1 /\ k <= Len(f)
      BY <1>1, <1>3
    <3> QED
      BY <1>1, <1>2, <1>4, <1>6, <3>1
  <2>2. S \cap (1 .. p) = S
    BY <2>1
  <2> QED
    BY <1>6, <2>2 DEF Count
<1> QED
  BY <1>5, <1>6

-------------------------------------------------------------------------------
\* What fits of a message.
LEMMA FitsIs ==
  ASSUME NEW m \in Texts
  PROVE  /\ Fits(m) \in Texts /\ Len(Fits(m)) = Smaller(Len(m), BufferSize - 1)
         /\ Len(Fits(m)) \in Nat /\ Len(Fits(m)) < BufferSize
         /\ \A k \in 1 .. Len(Fits(m)) : Fits(m)[k] = m[k]
<1> DEFINE n == Smaller(Len(m), BufferSize - 1)
<1>1. n \in Nat /\ n < BufferSize /\ 0 + n <= Len(m)
  BY TextIs, UeventAssumption DEF Smaller
<1>2. Fits(m) = SubSeq(m, 0 + 1, 0 + n)
  BY <1>1 DEF Fits
<1> HIDE DEF n
<1>3. /\ SubSeq(m, 0 + 1, 0 + n) \in Texts /\ Len(SubSeq(m, 0 + 1, 0 + n)) = n
      /\ SubSeq(m, 0 + 1, 0 + n) = [k \in 1 .. n |-> m[0 + k]]
  <2>1. 0 \in Nat
    OBVIOUS
  <2> QED
    BY <1>1, <2>1, PartIs, Zenon
<1>4. \A k \in 1 .. n : Fits(m)[k] = m[k]
  <2>1. \A k \in 1 .. n : 0 + k = k
    BY <1>1
  <2> QED
    BY <1>2, <1>3, <2>1
<1> QED
  BY <1>1, <1>2, <1>3, <1>4 DEF n

\* The first field is what is before its end.
LEMMA HeadIs ==
  ASSUME NEW f \in Texts, NEW e \in Nat, IsEnd(f, 1, e)
  PROVE  /\ e >= 1 /\ e <= Len(f) + 1
         /\ Field(f, 1) \in Texts /\ Len(Field(f, 1)) = e - 1
         /\ \A k \in 1 .. e - 1 : Field(f, 1)[k] = f[k]
<1>1. 0 \in Nat /\ 0 <= Len(f) /\ 0 + 1 = 1 /\ Len(f) \in Nat
  BY TextIs
<1>2. e \in 1 .. Len(f) + 1
  BY DEF IsEnd
<1>3. /\ Field(f, 0 + 1) \in Texts /\ Len(Field(f, 0 + 1)) = e - 1 - 0
      /\ Field(f, 0 + 1) = [k \in 1 .. e - 1 - 0 |-> f[0 + k]]
  <2>1. IsEnd(f, 0 + 1, e)
    BY <1>1
  <2> QED
    BY <1>1, <2>1, FieldParts
<1>4. e - 1 - 0 = e - 1 /\ \A k \in 1 .. e - 1 : 0 + k = k
  OBVIOUS
<1>5. Field(f, 1) = [k \in 1 .. e - 1 |-> f[0 + k]]
  BY <1>1, <1>3, <1>4, Zenon
<1>6. \A k \in 1 .. e - 1 : Field(f, 1)[k] = f[k]
  BY <1>4, <1>5
<1> QED
  BY <1>1, <1>2, <1>3, <1>4, <1>6

\* A message without an '@' in its first field is no event.
LEMMA ExpectedNothing ==
  ASSUME NEW m \in Texts, NEW e \in Nat, IsEnd(Fits(m), 1, e),
         \A j \in 1 .. e - 1 : Fits(m)[j] # At
  PROVE  Expected(m) = Nothing
<1> DEFINE head == Field(Fits(m), 1)
<1>1. /\ head \in Texts /\ Len(head) = e - 1
      /\ \A k \in 1 .. e - 1 : head[k] = Fits(m)[k]
  BY FitsIs, HeadIs
<1>2. DOMAIN head = 1 .. e - 1
  BY <1>1, TextIs
<1>3. {k \in DOMAIN head : head[k] = At} = {}
  BY <1>1, <1>2
<1> QED
  BY <1>3 DEF Expected

\* What should be printed for an event, by the places its parts are at.
LEMMA ExpectedEvent ==
  ASSUME NEW m \in Texts, NEW e \in Nat, IsEnd(Fits(m), 1, e),
         NEW d \in 1 .. e - 1, Fits(m)[d] = At, \A j \in 1 .. d - 1 : Fits(m)[j] # At
  PROVE  /\ IsEnd(Fits(m), d + 1, e)
         /\ Expected(m) =
              [said |-> TRUE, action |-> [k \in 1 .. d - 1 |-> Fits(m)[k]],
               devpath |-> Field(Fits(m), d + 1),
               env |-> [i \in 1 .. Smaller(Cardinality(Starts(Fits(m))), HOTPLUG_NUM_ENVP - 1) |->
                          Field(Fits(m), Key(Fits(m), i))]]
<1> DEFINE f == Fits(m)
           head == Field(f, 1)
           ats == {k \in DOMAIN head : head[k] = At}
           first == CHOOSE k \in ats : \A j \in ats : k <= j
<1>1. f \in Texts /\ Len(f) \in Nat
  BY FitsIs
<1>2. /\ e >= 1 /\ e <= Len(f) + 1
      /\ head \in Texts /\ Len(head) = e - 1
      /\ \A k \in 1 .. e - 1 : head[k] = f[k]
  BY <1>1, HeadIs
<1>3. DOMAIN head = 1 .. e - 1
  BY <1>2, TextIs
<1>4. Expected(m) =
        IF ats = {} THEN Nothing
        ELSE [said |-> TRUE, action |-> SubSeq(head, 1, first - 1),
              devpath |-> SubSeq(head, first + 1, Len(head)),
              env |-> [i \in 1 .. Smaller(Cardinality(Starts(f)), HOTPLUG_NUM_ENVP - 1) |->
                         Field(f, Key(f, i))]]
  BY DEF Expected
<1> HIDE DEF head
<1>5. d \in ats
  BY <1>2, <1>3
<1>6. ASSUME NEW k \in ats PROVE d <= k /\ k \in Nat
  <2>1. k \in 1 .. e - 1 /\ f[k] = At
    BY <1>2, <1>3
  <2>2. k \notin 1 .. d - 1
    BY <2>1
  <2> QED
    BY <2>1, <2>2
<1> HIDE DEF ats
<1>7. first = d
  <2>1. first \in ats /\ \A j \in ats : first <= j
    BY <1>5, <1>6
  <2> HIDE DEF first
  <2> QED
    BY <1>5, <1>6, <2>1
<1> HIDE DEF first
<1>8. SubSeq(head, 1, d - 1) = [k \in 1 .. d - 1 |-> f[k]]
  <2>1. 0 \in Nat /\ d - 1 \in Nat /\ 0 + (d - 1) <= Len(head)
    BY <1>2
  <2>2. SubSeq(head, 0 + 1, 0 + (d - 1)) = [k \in 1 .. d - 1 |-> head[0 + k]]
    BY <1>2, <2>1, PartIs, Zenon
  <2>3. \A k \in 1 .. d - 1 : 0 + k = k /\ head[0 + k] = f[k]
    BY <1>2
  <2>4. 0 + 1 = 1 /\ 0 + (d - 1) = d - 1
    OBVIOUS
  <2>5. [k \in 1 .. d - 1 |-> head[0 + k]] = [k \in 1 .. d - 1 |-> f[k]]
    BY <2>3
  <2> QED
    BY <2>2, <2>4, <2>5
<1>9. IsEnd(f, d + 1, e)
  <2>1. /\ e \in 1 .. Len(f) + 1
        /\ e <= Len(f) => f[e] = NUL
        /\ \A j \in 1 .. e - 1 : f[j] # NUL
    BY DEF IsEnd
  <2> QED
    BY <1>1, <2>1 DEF IsEnd
<1>10. SubSeq(head, d + 1, Len(head)) = Field(f, d + 1)
  <2> DEFINE n == e - 1 - d
  <2>1. d \in Nat /\ n \in Nat /\ d + n <= Len(head) /\ d + n = Len(head) /\ d <= Len(f)
    BY <1>1, <1>2
  <2>2. Field(f, d + 1) = [k \in 1 .. n |-> f[d + k]]
    BY <1>1, <1>9, <2>1, FieldParts
  <2>3. \A k \in 1 .. n : head[d + k] = f[d + k]
    <3>1. \A k \in 1 .. n : d + k \in 1 .. e - 1
      OBVIOUS
    <3> QED
      BY <1>2, <3>1
  <2> HIDE DEF n
  <2>4. SubSeq(head, d + 1, d + n) = [k \in 1 .. n |-> head[d + k]]
    BY <1>2, <2>1, PartIs
  <2>5. [k \in 1 .. n |-> head[d + k]] = [k \in 1 .. n |-> f[d + k]]
    BY <2>3
  <2> QED
    BY <2>1, <2>2, <2>4, <2>5
<1>11. Expected(m) =
         [said |-> TRUE, action |-> [k \in 1 .. d - 1 |-> f[k]], devpath |-> Field(f, d + 1),
          env |-> [i \in 1 .. Smaller(Cardinality(Starts(f)), HOTPLUG_NUM_ENVP - 1) |->
                     Field(f, Key(f, i))]]
  BY <1>4, <1>5, <1>7, <1>8, <1>10
<1> QED
  BY <1>9, <1>11

-------------------------------------------------------------------------------
\* The part of the last message that fits.
F == Fits(msg)

\* What the variables hold.
TypeInv ==
  /\ pc \in {"start", "listen", "split", "keys", "ended"}
  /\ buffer \in Buffers /\ buflen \in Nat /\ bufpos \in Nat /\ devpath \in Nat
  /\ envp \in Seq(Nat) /\ msg \in Texts

\* Before the '@' is looked for: the buffer holds what fits of the message.
SplitInv ==
  pc = "split" => buflen = Len(F) /\ Holding(buffer, F, 0) /\ bufpos = strlen(buffer, 0) + 1

\* When the keys are gone through: the action is cut off at the first '@', and
\* behind it the buffer holds what it held.
HeadInv ==
  pc = "keys" =>
    /\ buflen = Len(F) /\ Holding(buffer, F, devpath)
    /\ devpath \in 1 .. Len(F) /\ F[devpath] = At /\ buffer[devpath - 1] = NUL
    /\ \A j \in 1 .. devpath - 1 : buffer[j - 1] = F[j] /\ F[j] \notin {At, NUL}

\* The pointers stored are those of the first keys, and bufpos is where the
\* next one starts, if there is another.
KeysInv ==
  pc = "keys" =>
    /\ Len(envp) <= HOTPLUG_NUM_ENVP - 1
    /\ \A i \in 1 .. Len(envp) : envp[i] + 1 \in Starts(F) /\ Count(F, envp[i] + 1) = i
    /\ IF bufpos < buflen
       THEN bufpos + 1 \in Starts(F) /\ Count(F, bufpos + 1) = Len(envp) + 1
       ELSE Cardinality(Starts(F)) = Len(envp)

\* What has been printed, also before the first message.
SaidInv == pc \in {"start", "listen"} => printed = Expected(msg)

IInv == TypeInv /\ SplitInv /\ HeadInv /\ KeysInv /\ SaidInv

\* The NUL is put inside the buffer, whatever strlen and printf are given starts
\* there, and there is a NUL in the buffer from there on.
InsideBuffer ==
  /\ pc \in {"split", "keys"} => buflen \in Offsets
  /\ pc = "split" => \E k \in Offsets : buffer[k] = NUL
  /\ pc = "keys" =>
       \A p \in {0, devpath} \cup {envp[i] : i \in 1 .. Len(envp)}
                \cup (IF bufpos < buflen THEN {bufpos} ELSE {}) :
          p \in Offsets /\ \E k \in Offsets : p <= k /\ buffer[k] = NUL

-------------------------------------------------------------------------------
\* The invariant holds at the beginning.
LEMMA Initial == Init => IInv
<1> SUFFICES ASSUME Init PROVE IInv
  OBVIOUS
<1>1. NUL \in Chars
  BY DEF Chars
<1>2. << >> \in Texts /\ << >> \in Seq(Nat) /\ Len(<< >>) = 0
  BY DEF Texts
<1>3. TypeInv
  BY <1>1, <1>2 DEF Init, TypeInv, Buffers, Offsets
<1>4. SplitInv /\ HeadInv /\ KeysInv
  BY DEF Init, SplitInv, HeadInv, KeysInv
<1>5. SaidInv
  <2>1. msg = << >> /\ printed = Nothing
    BY DEF Init
  <2>2. Fits(<< >>) \in Texts /\ Len(Fits(<< >>)) = 0
    <3>1. Smaller(0, BufferSize - 1) = 0
      BY UeventAssumption DEF Smaller
    <3> QED
      BY <1>2, <3>1, FitsIs
  <2>3. PICK e \in Nat : IsEnd(Fits(<< >>), 1, e)
    <3>1. 1 \in 1 .. Len(Fits(<< >>)) + 1
      BY <2>2
    <3> QED
      BY <2>2, <3>1, EndExists
  <2>4. e = 1
    BY <2>2, <2>3 DEF IsEnd
  <2>5. \A j \in 1 .. e - 1 : Fits(<< >>)[j] # At
    BY <2>4
  <2> QED
    BY <1>2, <2>1, <2>3, <2>5, ExpectedNothing DEF SaidInv
<1> QED
  BY <1>3, <1>4, <1>5 DEF IInv

\* The socket is refused or bound.
LEMMA OpenKeeps == IInv /\ (Refused \/ Bound) => IInv'
<1> SUFFICES ASSUME IInv, Refused \/ Bound PROVE IInv'
  OBVIOUS
<1>1. /\ pc = "start" /\ pc' \in {"ended", "listen"}
      /\ UNCHANGED <<buffer, buflen, bufpos, devpath, envp, msg, printed>>
  BY DEF Refused, Bound, parseVars
<1>2. TypeInv'
  BY <1>1 DEF IInv, TypeInv
<1>3. SplitInv' /\ HeadInv' /\ KeysInv'
  BY <1>1 DEF SplitInv, HeadInv, KeysInv
<1>4. SaidInv'
  BY <1>1 DEF IInv, SaidInv
<1> QED
  BY <1>2, <1>3, <1>4 DEF IInv

\* A message is received into the buffer.
LEMMA ReceiveKeeps == IInv /\ Receive => IInv'
<1> SUFFICES ASSUME IInv, Receive PROVE IInv'
  OBVIOUS
<1> DEFINE n == Smaller(Len(msg'), BufferSize - 1)
<1>1. /\ msg' \in Messages /\ buflen' = n /\ bufpos' = strlen(buffer', 0) + 1 /\ pc' = "split"
      /\ buffer' = [k \in DOMAIN buffer |->
                      IF k = n THEN NUL ELSE IF k < Len(msg') THEN msg'[k + 1] ELSE buffer[k]]
      /\ UNCHANGED <<devpath, envp, printed>>
  BY DEF Receive
<1>2. msg' \in Texts
  BY <1>1, UeventAssumption DEF Messages, Texts
<1>3. /\ Fits(msg') \in Texts /\ Len(Fits(msg')) = n /\ n \in Nat /\ n < BufferSize
      /\ \A k \in 1 .. n : Fits(msg')[k] = msg'[k]
  BY <1>2, FitsIs
<1>4. Len(msg') \in Nat /\ n <= Len(msg') /\ BufferSize \in Nat
  BY <1>2, TextIs, UeventAssumption DEF Smaller
<1>5. buffer \in Buffers /\ envp \in Seq(Nat) /\ devpath \in Nat
  BY DEF IInv, TypeInv
<1> HIDE DEF n
<1>6. DOMAIN buffer = Offsets /\ NUL \in Chars
  BY <1>5 DEF Buffers, Chars
<1>7. buffer' \in Buffers
  <2>1. ASSUME NEW k \in Offsets
        PROVE  (IF k = n THEN NUL ELSE IF k < Len(msg') THEN msg'[k + 1] ELSE buffer[k]) \in Chars
    <3>1. k < Len(msg') => msg'[k + 1] \in Chars
      <4>1. k < Len(msg') => k + 1 \in 1 .. Len(msg')
        BY <1>4 DEF Offsets
      <4> QED
        BY <1>2, <4>1, TextIs
    <3>2. buffer[k] \in Chars
      BY <1>5 DEF Buffers
    <3> QED
      BY <1>6, <3>1, <3>2
  <2> QED
    BY <1>1, <1>6, <2>1 DEF Buffers
<1>8. Holding(buffer', Fits(msg'), 0)
  <2>1. n \in Offsets /\ buffer'[n] = NUL
    BY <1>1, <1>3, <1>4, <1>6 DEF Offsets
  <2>2. ASSUME NEW k \in 0 .. n - 1 PROVE buffer'[k] = Fits(msg')[k + 1]
    <3>1. k \in Offsets /\ k # n /\ k < Len(msg') /\ k + 1 \in 1 .. n
      BY <1>3, <1>4 DEF Offsets
    <3>2. buffer'[k] = msg'[k + 1]
      BY <1>1, <1>6, <3>1
    <3> QED
      BY <1>3, <3>1, <3>2
  <2> QED
    BY <1>3, <2>1, <2>2 DEF Holding
<1>9. SplitInv'
  BY <1>1, <1>3, <1>8 DEF SplitInv, F
<1>10. bufpos' \in Nat
  <2>1. PICK e \in Nat : IsEnd(Fits(msg'), 1, e)
    <3>1. 1 \in 1 .. Len(Fits(msg')) + 1
      BY <1>3
    <3> QED
      BY <1>3, <3>1, EndExists
  <2>2. 0 \in Nat /\ 0 <= Len(Fits(msg')) /\ IsEnd(Fits(msg'), 0 + 1, e) /\ e >= 1
    BY <1>3, <2>1 DEF IsEnd
  <2>3. strlen(buffer', 0) = e - 1 - 0
    BY <1>3, <1>8, <2>2, HeldText
  <2> QED
    BY <1>1, <2>2, <2>3
<1>11. TypeInv'
  BY <1>1, <1>2, <1>3, <1>5, <1>7, <1>10 DEF TypeInv
<1>12. HeadInv' /\ KeysInv' /\ SaidInv'
  BY <1>1 DEF HeadInv, KeysInv, SaidInv
<1> QED
  BY <1>9, <1>11, <1>12 DEF IInv

\* Where the first field ends in the buffer before the '@' is looked for.
LEMMA HeadInBuffer ==
  ASSUME IInv, pc = "split"
  PROVE  \E e \in Nat : /\ IsEnd(F, 1, e) /\ e <= Len(F) + 1 /\ bufpos = e
                        /\ Action = 0 .. e - 1 - 1
                        /\ \A k \in Action : buffer[k] = F[k + 1]
<1>1. F \in Texts /\ Len(F) \in Nat
  BY FitsIs DEF F, IInv, TypeInv
<1>2. Holding(buffer, F, 0) /\ bufpos = strlen(buffer, 0) + 1
  BY DEF IInv, SplitInv
<1>3. PICK e \in Nat : IsEnd(F, 1, e)
  <2>1. 1 \in 1 .. Len(F) + 1
    BY <1>1
  <2> QED
    BY <1>1, <2>1, EndExists
<1>4. 0 \in Nat /\ 0 <= Len(F) /\ IsEnd(F, 0 + 1, e) /\ e >= 1 /\ e <= Len(F) + 1
  BY <1>1, <1>3 DEF IsEnd
<1>5. strlen(buffer, 0) = e - 1 - 0
  BY <1>1, <1>2, <1>4, HeldText
<1>6. bufpos = e /\ Action = 0 .. e - 1 - 1
  BY <1>2, <1>4, <1>5 DEF Action
<1>7. ASSUME NEW k \in 0 .. e - 1 - 1 PROVE buffer[k] = F[k + 1]
  <2>1. k \in 0 .. Len(F) - 1
    BY <1>1, <1>4
  <2> QED
    BY <1>2, <2>1 DEF Holding
<1> QED
  BY <1>3, <1>4, <1>6, <1>7

\* A message that is no event.
LEMMA NoEventKeeps == IInv /\ NoEvent => IInv'
<1> SUFFICES ASSUME IInv, NoEvent PROVE IInv'
  OBVIOUS
<1>1. /\ pc = "split" /\ pc' = "listen" /\ printed' = Nothing
      /\ \A k \in Action : buffer[k] # At
      /\ UNCHANGED <<buffer, buflen, bufpos, devpath, envp, msg>>
  BY DEF NoEvent, parseVars
<1>2. TypeInv'
  BY <1>1 DEF IInv, TypeInv
<1>3. SplitInv' /\ HeadInv' /\ KeysInv'
  BY <1>1 DEF SplitInv, HeadInv, KeysInv
<1>4. SaidInv'
  <2>1. PICK e \in Nat : /\ IsEnd(F, 1, e) /\ Action = 0 .. e - 1 - 1
                         /\ \A k \in Action : buffer[k] = F[k + 1]
    BY <1>1, HeadInBuffer
  <2>2. ASSUME NEW j \in 1 .. e - 1 PROVE F[j] # At
    <3>1. j - 1 \in Action /\ (j - 1) + 1 = j
      BY <2>1
    <3> QED
      BY <1>1, <2>1, <3>1
  <2>3. msg \in Texts
    BY DEF IInv, TypeInv
  <2>4. Expected(msg) = Nothing
    BY <2>1, <2>2, <2>3, ExpectedNothing DEF F
  <2> QED
    BY <1>1, <2>4 DEF SaidInv
<1> QED
  BY <1>2, <1>3, <1>4 DEF IInv

\* The first '@' is overwritten.
LEMMA SplitKeeps == IInv /\ Split => IInv'
<1> SUFFICES ASSUME IInv, Split PROVE IInv'
  OBVIOUS
<1>1. PICK a \in Action : /\ buffer[a] = At /\ \A j \in 0 .. a - 1 : buffer[j] # At
                          /\ buffer' = [buffer EXCEPT ![a] = NUL] /\ devpath' = a + 1
  BY DEF Split
<1>2. /\ pc = "split" /\ pc' = "keys" /\ envp' = << >>
      /\ UNCHANGED <<buflen, bufpos, msg, printed>>
  BY DEF Split
<1>3. PICK e \in Nat : /\ IsEnd(F, 1, e) /\ e <= Len(F) + 1 /\ bufpos = e
                       /\ Action = 0 .. e - 1 - 1
                       /\ \A k \in Action : buffer[k] = F[k + 1]
  BY <1>2, HeadInBuffer
<1>4. /\ F \in Texts /\ Len(F) \in Nat /\ F' = F /\ Len(F) < BufferSize /\ BufferSize \in Nat
      /\ buflen = Len(F) /\ Holding(buffer, F, 0)
  BY <1>2, FitsIs, UeventAssumption DEF F, IInv, TypeInv, SplitInv
<1>5. a \in Nat /\ a + 1 <= e - 1 /\ a + 1 <= Len(F) /\ a \in Offsets
  BY <1>1, <1>3, <1>4 DEF Offsets
<1>6. \A j \in 1 .. e - 1 : F[j] # NUL
  BY <1>3 DEF IsEnd
<1>7. buffer \in Buffers /\ NUL \in Chars
  BY DEF IInv, TypeInv, Chars
<1>8. buffer' \in Buffers /\ buffer'[a] = NUL /\ \A k \in Offsets : k # a => buffer'[k] = buffer[k]
  BY <1>1, <1>5, <1>7 DEF Buffers
<1>9. TypeInv'
  <2>1. << >> \in Seq(Nat)
    OBVIOUS
  <2> QED
    BY <1>1, <1>2, <1>5, <1>8, <2>1 DEF IInv, TypeInv
<1>10. SplitInv' /\ SaidInv'
  BY <1>2 DEF SplitInv, SaidInv
<1>11. HeadInv'
  <2>1. Holding(buffer', F, a + 1)
    <3>1. Len(F) \in Offsets /\ Len(F) # a /\ buffer'[Len(F)] = NUL
      BY <1>4, <1>5, <1>8 DEF Offsets, Holding
    <3>2. ASSUME NEW k \in a + 1 .. Len(F) - 1 PROVE buffer'[k] = F[k + 1]
      <4>1. k \in Offsets /\ k # a /\ k \in 0 .. Len(F) - 1
        BY <1>4, <1>5 DEF Offsets
      <4> QED
        BY <1>4, <1>8, <4>1 DEF Holding
    <3> QED
      BY <1>4, <3>1, <3>2 DEF Holding
  <2>2. F[a + 1] = At
    BY <1>1, <1>3
  <2>3. ASSUME NEW j \in 1 .. a PROVE buffer'[j - 1] = F[j] /\ F[j] \notin {At, NUL}
    <3>1. /\ j - 1 \in 0 .. a - 1 /\ j - 1 \in Action /\ (j - 1) + 1 = j /\ j - 1 \in Offsets
          /\ j - 1 # a /\ j \in 1 .. e - 1
      BY <1>3, <1>4, <1>5 DEF Offsets
    <3>2. buffer[j - 1] = F[j] /\ buffer[j - 1] # At
      BY <1>1, <1>3, <3>1
    <3> QED
      BY <1>6, <1>8, <3>1, <3>2
  <2>4. (a + 1) - 1 = a /\ a + 1 \in 1 .. Len(F)
    BY <1>4, <1>5
  <2> QED
    BY <1>1, <1>2, <1>4, <1>8, <2>1, <2>2, <2>3, <2>4 DEF HeadInv
<1>12. KeysInv'
  <2>1. 1 \in 1 .. Len(F)
    BY <1>4, <1>5
  <2>2. IF e < Len(F) THEN e + 1 \in Starts(F) /\ Count(F, e + 1) = Count(F, 1) + 1
        ELSE Cardinality(Starts(F)) = Count(F, 1)
    BY <1>3, <1>4, <2>1, NextStart
  <2>3. Len(envp') = 0 /\ 0 <= HOTPLUG_NUM_ENVP - 1 /\ 1 .. 0 = {}
    BY <1>2, UeventAssumption
  <2>4. Count(F, 1) = 0
    BY <1>4, CountFirst
  <2>5. IF bufpos' < buflen'
        THEN bufpos' + 1 \in Starts(F) /\ Count(F, bufpos' + 1) = 0 + 1
        ELSE Cardinality(Starts(F)) = 0
    BY <1>2, <1>3, <1>4, <2>2, <2>4
  <2> QED
    BY <1>4, <2>3, <2>5 DEF KeysInv
<1> QED
  BY <1>9, <1>10, <1>11, <1>12 DEF IInv

-------------------------------------------------------------------------------
\* A place behind the '@' in the buffer is read as the field that starts there.
LEMMA Behind ==
  ASSUME IInv, pc = "keys", NEW p \in Nat, devpath <= p, p <= Len(F)
  PROVE  \E e \in Nat : /\ IsEnd(F, p + 1, e) /\ strlen(buffer, p) = e - 1 - p
                        /\ Text(buffer, p) = Field(F, p + 1)
<1>1. F \in Texts /\ Len(F) \in Nat /\ devpath \in Nat
  BY FitsIs DEF F, IInv, TypeInv
<1>2. Holding(buffer, F, p)
  <2>1. Holding(buffer, F, devpath)
    BY DEF IInv, HeadInv
  <2>2. \A k \in p .. Len(F) - 1 : k \in devpath .. Len(F) - 1
    BY <1>1
  <2> QED
    BY <2>1, <2>2 DEF Holding
<1>3. PICK e \in Nat : IsEnd(F, p + 1, e)
  <2>1. p + 1 \in 1 .. Len(F) + 1
    BY <1>1
  <2> QED
    BY <1>1, <2>1, EndExists
<1>4. strlen(buffer, p) = e - 1 - p /\ Text(buffer, p) = Field(F, p + 1)
  BY <1>1, <1>2, <1>3, HeldText
<1> QED
  BY <1>3, <1>4

\* The keys start behind the '@'.
LEMMA KeyBehind ==
  ASSUME IInv, pc = "keys", NEW p \in Nat, p + 1 \in Starts(F)
  PROVE  devpath <= p /\ p < Len(F)
<1>1. /\ devpath \in 1 .. Len(F) /\ F[devpath] = At /\ Len(F) \in Nat
      /\ \A j \in 1 .. devpath - 1 : F[j] \notin {At, NUL}
  BY FitsIs DEF F, IInv, TypeInv, HeadInv
<1>2. p \in 1 .. Len(F) - 1 /\ F[p] = NUL
  <2>1. p + 1 \in 2 .. Len(F) /\ F[(p + 1) - 1] = NUL
    BY DEF Starts
  <2>2. (p + 1) - 1 = p
    OBVIOUS
  <2> QED
    BY <1>1, <2>1, <2>2
<1>3. p # devpath
  BY <1>1, <1>2 DEF At, NUL
<1>4. p \notin 1 .. devpath - 1
  BY <1>1, <1>2
<1> QED
  BY <1>1, <1>2, <1>3, <1>4

\* A turn of the loop that reconstructs envp.
LEMMA NextKeyKeeps == IInv /\ NextKey => IInv'
<1> SUFFICES ASSUME IInv, NextKey PROVE IInv'
  OBVIOUS
<1>1. /\ pc = "keys" /\ bufpos < buflen /\ Len(envp) < HOTPLUG_NUM_ENVP - 1
      /\ envp' = Append(envp, bufpos) /\ bufpos' = bufpos + strlen(buffer, bufpos) + 1
      /\ UNCHANGED <<pc, buffer, buflen, devpath, msg, printed>>
  BY DEF NextKey
<1>2. /\ F \in Texts /\ Len(F) \in Nat /\ F' = F /\ bufpos \in Nat /\ envp \in Seq(Nat)
      /\ Len(envp) \in Nat /\ HOTPLUG_NUM_ENVP \in Nat
  BY <1>1, FitsIs, UeventAssumption DEF F, IInv, TypeInv
<1>3. /\ buflen = Len(F) /\ bufpos + 1 \in Starts(F) /\ Count(F, bufpos + 1) = Len(envp) + 1
      /\ \A i \in 1 .. Len(envp) : envp[i] + 1 \in Starts(F) /\ Count(F, envp[i] + 1) = i
  BY <1>1 DEF IInv, HeadInv, KeysInv
<1>4. devpath <= bufpos /\ bufpos < Len(F)
  BY <1>1, <1>2, <1>3, KeyBehind
<1>5. PICK e \in Nat : IsEnd(F, bufpos + 1, e) /\ strlen(buffer, bufpos) = e - 1 - bufpos
  BY <1>1, <1>2, <1>4, Behind
<1>6. bufpos' = e
  BY <1>1, <1>2, <1>5
<1>7. /\ envp' \in Seq(Nat) /\ Len(envp') = Len(envp) + 1 /\ envp'[Len(envp) + 1] = bufpos
      /\ \A i \in 1 .. Len(envp) : envp'[i] = envp[i]
  BY <1>1, <1>2
<1>8. TypeInv'
  BY <1>1, <1>6, <1>7 DEF IInv, TypeInv
<1>9. SplitInv' /\ SaidInv'
  BY <1>1 DEF SplitInv, SaidInv
<1>10. HeadInv'
  BY <1>1, <1>2 DEF IInv, HeadInv
<1>11. KeysInv'
  <2>1. bufpos + 1 \in 1 .. Len(F)
    BY <1>2, <1>4
  <2>2. IF e < Len(F) THEN e + 1 \in Starts(F) /\ Count(F, e + 1) = Count(F, bufpos + 1) + 1
        ELSE Cardinality(Starts(F)) = Count(F, bufpos + 1)
    BY <1>2, <1>5, <2>1, NextStart
  <2>3. IF bufpos' < buflen'
        THEN bufpos' + 1 \in Starts(F') /\ Count(F', bufpos' + 1) = Len(envp') + 1
        ELSE Cardinality(Starts(F')) = Len(envp')
    BY <1>1, <1>2, <1>3, <1>6, <1>7, <2>2
  <2>4. ASSUME NEW i \in 1 .. Len(envp')
        PROVE  envp'[i] + 1 \in Starts(F') /\ Count(F', envp'[i] + 1) = i
    <3>1. CASE i = Len(envp) + 1
      BY <1>2, <1>3, <1>7, <3>1
    <3>2. CASE i # Len(envp) + 1
      <4>1. i \in 1 .. Len(envp)
        BY <1>2, <1>7, <3>2
      <4> QED
        BY <1>2, <1>3, <1>7, <4>1
    <3> QED
      BY <3>1, <3>2
  <2>5. Len(envp') <= HOTPLUG_NUM_ENVP - 1
    BY <1>1, <1>2, <1>7
  <2> QED
    BY <2>3, <2>4, <2>5 DEF KeysInv
<1> QED
  BY <1>8, <1>9, <1>10, <1>11 DEF IInv

\* The event is printed.
LEMMA PrintEventKeeps == IInv /\ PrintEvent => IInv'
<1> SUFFICES ASSUME IInv, PrintEvent PROVE IInv'
  OBVIOUS
<1>1. /\ pc = "keys" /\ ~(bufpos < buflen /\ Len(envp) < HOTPLUG_NUM_ENVP - 1)
      /\ pc' = "listen"
      /\ printed' = [said |-> TRUE, action |-> Text(buffer, 0),
                     devpath |-> Text(buffer, devpath),
                     env |-> [i \in DOMAIN envp |-> Text(buffer, envp[i])]]
      /\ UNCHANGED <<buffer, buflen, bufpos, devpath, envp, msg>>
  BY DEF PrintEvent, parseVars
<1>2. /\ F \in Texts /\ Len(F) \in Nat /\ msg \in Texts /\ envp \in Seq(Nat)
      /\ Len(envp) \in Nat /\ HOTPLUG_NUM_ENVP \in Nat /\ BufferSize \in Nat /\ devpath \in Nat
  BY FitsIs, UeventAssumption DEF F, IInv, TypeInv
<1>3. /\ Holding(buffer, F, devpath) /\ devpath \in 1 .. Len(F) /\ F[devpath] = At
      /\ buffer[devpath - 1] = NUL
      /\ \A j \in 1 .. devpath - 1 : buffer[j - 1] = F[j] /\ F[j] \notin {At, NUL}
  BY <1>1 DEF IInv, HeadInv
<1>4. /\ Len(envp) <= HOTPLUG_NUM_ENVP - 1
      /\ \A i \in 1 .. Len(envp) : envp[i] + 1 \in Starts(F) /\ Count(F, envp[i] + 1) = i
      /\ IF bufpos < buflen
         THEN bufpos + 1 \in Starts(F) /\ Count(F, bufpos + 1) = Len(envp) + 1
         ELSE Cardinality(Starts(F)) = Len(envp)
  BY <1>1 DEF IInv, KeysInv
<1>5. TypeInv' /\ SplitInv' /\ HeadInv' /\ KeysInv'
  <2>1. TypeInv'
    BY <1>1 DEF IInv, TypeInv
  <2> QED
    BY <1>1, <2>1 DEF SplitInv, HeadInv, KeysInv
<1>6. PICK e \in Nat : IsEnd(F, 1, e)
  <2>1. 1 \in 1 .. Len(F) + 1
    BY <1>2
  <2> QED
    BY <1>2, <2>1, EndExists
<1>7. devpath \in 1 .. e - 1
  <2>1. e \in 1 .. Len(F) + 1 /\ (e <= Len(F) => F[e] = NUL)
    BY <1>6 DEF IsEnd
  <2>2. e # devpath
    BY <1>2, <1>3, <2>1 DEF At, NUL
  <2>3. e \notin 1 .. devpath - 1
    BY <1>2, <1>3, <2>1
  <2> QED
    BY <1>2, <1>3, <2>1, <2>2, <2>3
<1>8. Expected(msg) =
        [said |-> TRUE, action |-> [k \in 1 .. devpath - 1 |-> F[k]],
         devpath |-> Field(F, devpath + 1),
         env |-> [i \in 1 .. Smaller(Cardinality(Starts(F)), HOTPLUG_NUM_ENVP - 1) |->
                    Field(F, Key(F, i))]]
  <2>1. \A j \in 1 .. devpath - 1 : F[j] # At
    BY <1>3
  <2> QED
    BY <1>2, <1>3, <1>6, <1>7, <2>1, ExpectedEvent DEF F
<1>9. Text(buffer, 0) = [k \in 1 .. devpath - 1 |-> F[k]]
  <2>1. devpath - 1 \in 0 .. BufferSize - 1 /\ 0 \in Nat
    BY <1>2, <1>3 DEF Holding
  <2>2. ASSUME NEW j \in 0 .. devpath - 1 - 1 PROVE buffer[j] # NUL /\ buffer[j] = F[j + 1]
    <3>1. j + 1 \in 1 .. devpath - 1 /\ (j + 1) - 1 = j
      BY <1>2
    <3> QED
      BY <1>3, <3>1
  <2>3. strlen(buffer, 0) = devpath - 1 - 0
    <3>1. \A j \in 0 .. devpath - 1 - 1 : buffer[j] # NUL
      BY <2>2
    <3> QED
      BY <1>3, <2>1, <3>1, StrlenIs
  <2>4. devpath - 1 - 0 = devpath - 1
    BY <1>2
  <2>5. Text(buffer, 0) = [k \in 1 .. devpath - 1 |-> buffer[0 + k - 1]]
    BY <2>3, <2>4 DEF Text
  <2>6. ASSUME NEW k \in 1 .. devpath - 1 PROVE buffer[0 + k - 1] = F[k]
    <3>1. 0 + k - 1 = k - 1
      OBVIOUS
    <3> QED
      BY <1>3, <3>1
  <2> QED
    BY <2>5, <2>6
<1>10. Text(buffer, devpath) = Field(F, devpath + 1)
  <2>1. devpath <= devpath /\ devpath <= Len(F)
    BY <1>2, <1>3
  <2> QED
    BY <1>1, <1>2, <2>1, Behind
<1>11. Len(envp) = Smaller(Cardinality(Starts(F)), HOTPLUG_NUM_ENVP - 1)
  <2>1. CASE bufpos < buflen
    <3>1. Len(envp) = HOTPLUG_NUM_ENVP - 1
      BY <1>1, <1>2, <1>4, <2>1
    <3>2. Len(envp) + 1 <= Cardinality(Starts(F)) /\ Cardinality(Starts(F)) \in Nat
      BY <1>2, <1>4, <2>1, StartsFinite
    <3> QED
      BY <1>2, <3>1, <3>2 DEF Smaller
  <2>2. CASE ~(bufpos < buflen)
    BY <1>2, <1>4, <2>2 DEF Smaller
  <2> QED
    BY <2>1, <2>2
<1>12. [i \in DOMAIN envp |-> Text(buffer, envp[i])]
         = [i \in 1 .. Len(envp) |-> Field(F, Key(F, i))]
  <2>1. DOMAIN envp = 1 .. Len(envp)
    BY <1>2
  <2>2. ASSUME NEW i \in 1 .. Len(envp) PROVE Text(buffer, envp[i]) = Field(F, Key(F, i))
    <3>1. envp[i] \in Nat /\ envp[i] + 1 \in Starts(F) /\ Count(F, envp[i] + 1) = i
      BY <1>2, <1>4
    <3>2. devpath <= envp[i] /\ envp[i] <= Len(F)
      BY <1>1, <1>2, <3>1, KeyBehind
    <3>3. Text(buffer, envp[i]) = Field(F, envp[i] + 1)
      BY <1>1, <3>1, <3>2, Behind
    <3>4. Key(F, Count(F, envp[i] + 1)) = envp[i] + 1
      BY <1>2, <3>1, KeyIs
    <3> QED
      BY <3>1, <3>3, <3>4
  <2> QED
    BY <2>1, <2>2
<1>13. printed' = Expected(msg)
  BY <1>1, <1>8, <1>9, <1>10, <1>11, <1>12
<1>14. SaidInv'
  BY <1>1, <1>13 DEF SaidInv
<1> QED
  BY <1>5, <1>14 DEF IInv

\* Nothing changes.
LEMMA RestKeeps == IInv /\ UNCHANGED vars => IInv'
<1> SUFFICES ASSUME IInv, UNCHANGED vars PROVE IInv'
  OBVIOUS
<1>1. UNCHANGED <<pc, buffer, buflen, bufpos, devpath, envp, msg, printed>>
  BY DEF vars
<1>2. F' = F
  BY <1>1 DEF F
<1>3. TypeInv' /\ SaidInv'
  BY <1>1 DEF IInv, TypeInv, SaidInv
<1>4. SplitInv' /\ HeadInv' /\ KeysInv'
  BY <1>1, <1>2 DEF IInv, SplitInv, HeadInv, KeysInv
<1> QED
  BY <1>3, <1>4 DEF IInv

\* The invariant holds throughout.
LEMMA Invariant == Spec => []IInv
<1>1. IInv /\ [Next]_vars => IInv'
  <2> SUFFICES ASSUME IInv, [Next]_vars PROVE IInv'
    OBVIOUS
  <2>1. CASE RecvFails \/ Rests \/ UNCHANGED vars
    BY <2>1, RestKeeps DEF RecvFails, Rests
  <2>2. CASE Refused \/ Bound
    BY <2>2, OpenKeeps
  <2>3. CASE Receive
    BY <2>3, ReceiveKeeps
  <2>4. CASE NoEvent
    BY <2>4, NoEventKeeps
  <2>5. CASE Split
    BY <2>5, SplitKeeps
  <2>6. CASE NextKey
    BY <2>6, NextKeyKeeps
  <2>7. CASE PrintEvent
    BY <2>7, PrintEventKeeps
  <2> QED
    BY <2>1, <2>2, <2>3, <2>4, <2>5, <2>6, <2>7 DEF Next
<1> QED
  BY Initial, <1>1, PTL DEF Spec

\* What the listener prints of a message is what the message says, for every
\* size of the buffer and of envp, every alphabet and all messages received
\* before: no byte of an earlier message is printed, a message that is too long
\* is cut, keys beyond the room of envp are left out (uevent_listen.c 115-169).
THEOREM PrintsMessage == Spec => []PrintedIsMessage
<1>1. IInv => PrintedIsMessage
  BY DEF IInv, SaidInv, PrintedIsMessage
<1> QED
  BY <1>1, Invariant, PTL

\* strlen, printf and the search for the '@' never leave the buffer: all they
\* are given points into it, and a NUL follows; the NUL behind what recv stored
\* is put inside it, too (uevent_listen.c 125-167).
THEOREM ReadsInside == Spec => []InsideBuffer
<1>1. IInv => InsideBuffer
  <2> SUFFICES ASSUME IInv PROVE InsideBuffer
    OBVIOUS
  <2>1. /\ F \in Texts /\ Len(F) \in Nat /\ Len(F) < BufferSize /\ BufferSize \in Nat
        /\ envp \in Seq(Nat) /\ bufpos \in Nat
    BY FitsIs, UeventAssumption DEF F, IInv, TypeInv
  <2>2. Len(F) \in Offsets
    BY <2>1 DEF Offsets
  <2>3. ASSUME pc = "split" PROVE \E k \in Offsets : buffer[k] = NUL
    BY <2>2, <2>3 DEF IInv, SplitInv, Holding
  <2>4. ASSUME pc = "keys",
               NEW p \in {0, devpath} \cup {envp[i] : i \in 1 .. Len(envp)}
                           \cup (IF bufpos < buflen THEN {bufpos} ELSE {})
        PROVE  p \in Offsets /\ \E k \in Offsets : p <= k /\ buffer[k] = NUL
    <3>1. buffer[Len(F)] = NUL /\ devpath \in 1 .. Len(F)
      BY <2>4 DEF IInv, HeadInv, Holding
    <3>2. p \in Nat /\ p <= Len(F)
      <4>1. CASE p \in {0, devpath}
        BY <2>1, <3>1, <4>1
      <4>2. CASE p \in {envp[i] : i \in 1 .. Len(envp)}
        <5>1. PICK i \in 1 .. Len(envp) : p = envp[i]
          BY <4>2
        <5>2. p \in Nat /\ p + 1 \in Starts(F)
          BY <2>1, <2>4, <5>1 DEF IInv, KeysInv
        <5> QED
          BY <2>1, <2>4, <5>2, KeyBehind
      <4>3. CASE bufpos < buflen /\ p = bufpos
        <5>1. p \in Nat /\ p + 1 \in Starts(F)
          BY <2>1, <2>4, <4>3 DEF IInv, KeysInv
        <5> QED
          BY <2>1, <2>4, <5>1, KeyBehind
      <4> QED
        BY <2>4, <4>1, <4>2, <4>3
    <3>3. p \in Offsets
      BY <2>1, <3>2 DEF Offsets
    <3> QED
      BY <2>2, <3>1, <3>2, <3>3
  <2>5. ASSUME pc \in {"split", "keys"} PROVE buflen \in Offsets
    BY <2>2, <2>5 DEF IInv, SplitInv, HeadInv
  <2> QED
    BY <2>3, <2>4, <2>5 DEF InsideBuffer
<1> QED
  BY <1>1, Invariant, PTL
===============================================================================
