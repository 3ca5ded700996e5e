----------------------------- MODULE NatLemmas ------------------------------
(***************************************************************************)
(* What the proofs about the components need of the natural numbers.       *)
(* Division with remainder.  Induction, stated with sets in the place of   *)
(* predicates: to prove P(n) for all n, take T == {n \in Nat : P(n)}.  And  *)
(* its use, that a function defined by primitive recursion exists, so that *)
(* it satisfies the equation that defines it.                              *)
(***************************************************************************)
EXTENDS Integers, WellFoundedInduction, TLAPS

\* The quotient and the remainder are those of the division.
LEMMA DivModUnique ==
  ASSUME NEW b \in Nat \ {0}, NEW q \in Nat, NEW r \in 0 .. b - 1
  PROVE  (b * q + r) \div b = q /\ (b * q + r) % b = r
  OBVIOUS

\* Division with remainder.
LEMMA DivMod ==
  ASSUME NEW a \in Nat, NEW b \in Nat \ {0}
  PROVE  /\ a \div b \in Nat /\ a % b \in 0 .. b - 1
         /\ a = b * (a \div b) + (a % b)
  OBVIOUS

\* A multiple of the divisor on top leaves the remainder.
LEMMA ModShift ==
  ASSUME NEW a \in Nat, NEW z \in Nat, NEW b \in Nat \ {0}
  PROVE  (a + b * z) % b = a % b
<1> DEFINE q == a \div b
           r == a % b
<1>1. q \in Nat /\ r \in 0 .. b - 1 /\ a = b * q + r
  BY DivMod
<1> HIDE DEF q, r
<1>2. q + z \in Nat /\ a + b * z = b * (q + z) + r
  BY <1>1
<1>3. (b * q + r) % b = r /\ (b * (q + z) + r) % b = r
  BY <1>1, <1>2, DivModUnique
<1> QED
  BY <1>1, <1>2, <1>3

\* Equal remainders stay equal when the same is added.
LEMMA ModAdd ==
  ASSUME NEW a \in Nat, NEW c \in Nat, NEW d \in Nat, NEW b \in Nat \ {0}, a % b = c % b
  PROVE  (a + d) % b = (c + d) % b
<1> DEFINE q == a \div b
           s == c \div b
           r == a % b
<1>1. q \in Nat /\ r \in 0 .. b - 1 /\ a = b * q + r
  BY DivMod
<1>2. s \in Nat /\ c = b * s + r
  BY DivMod
<1> HIDE DEF q, r, s
<1>3. r + d \in Nat /\ a + d = (r + d) + b * q /\ c + d = (r + d) + b * s
  BY <1>1, <1>2
<1>4. ((r + d) + b * q) % b = (r + d) % b /\ ((r + d) + b * s) % b = (r + d) % b
  BY <1>1, <1>2, <1>3, ModShift
<1> QED
  BY <1>3, <1>4

-----------------------------------------------------------------------------
\* Every set of naturals that is not empty has a least element.
LEMMA LeastNatural ==
  ASSUME NEW T \in SUBSET Nat, T # {}
  PROVE  \E m \in T : \A k \in T : m <= k
<1> DEFINE R == OpToRel(<, Nat)
<1>1. IsWellFoundedOn(R, Nat)
  BY NatLessThanWellFounded
<1>2. \A x, y \in Nat : <<y, x>> \in R <=> y < x
  BY DEF OpToRel
<1> HIDE DEF R
<1>3. PICK m \in T : \A y \in T : ~ (<<y, m>> \in R)
  BY <1>1, WFMin
<1>4. ASSUME NEW y \in T PROVE m <= y
  <2>1. ~ (y < m)
    BY <1>2, <1>3
  <2> QED
    BY <2>1
<1> QED
  BY <1>4

\* A set of naturals with 0, and with n + 1 if it has n, is all of them.
LEMMA Induct ==
  ASSUME NEW T \in SUBSET Nat, 0 \in T, \A n \in T : n + 1 \in T
  PROVE  T = Nat
<1> SUFFICES ASSUME T # Nat PROVE FALSE
  OBVIOUS
<1>1. PICK m \in Nat \ T : \A k \in Nat \ T : m <= k
  <2>1. Nat \ T # {} /\ Nat \ T \in SUBSET Nat
    OBVIOUS
  <2> QED
    BY <2>1, LeastNatural
<1>2. m # 0 /\ m - 1 \in T
  BY <1>1
<1> QED
  BY <1>1, <1>2

\* c starts with a, and next makes c[i] of i and c[i - 1].
Unrolls(c, a, next) ==
  c = [i \in Nat |-> IF i = 0 THEN a ELSE next[<<i, c[i - 1]>>]]

\* Such a function exists for every start and every next.
LEMMA Recursion ==
  ASSUME NEW S, NEW a \in S, NEW next \in [Nat \X S -> S]
  PROVE  \E c \in [Nat -> S] : Unrolls(c, a, next)
<1> DEFINE Is(f, n) == /\ f \in [0 .. n -> S] /\ f[0] = a
                       /\ \A i \in 1 .. n : f[i] = next[<<i, f[i - 1]>>]
           T == {n \in Nat : \E f \in [0 .. n -> S] : Is(f, n)}
<1>1. T = Nat
  <2>1. 0 \in T
    <3>1. Is([i \in 0 .. 0 |-> a], 0)
      OBVIOUS
    <3> QED
      BY <3>1
  <2>2. ASSUME NEW n \in T PROVE n + 1 \in T
    <3>1. PICK f \in [0 .. n -> S] : Is(f, n)
      OBVIOUS
    <3> DEFINE g == [i \in 0 .. n + 1 |-> IF i = n + 1 THEN next[<<n + 1, f[n]>>] ELSE f[i]]
    <3>2. g \in [0 .. n + 1 -> S] /\ g[0] = a
      BY <3>1
    <3>3. ASSUME NEW i \in 1 .. n + 1 PROVE g[i] = next[<<i, g[i - 1]>>]
      <4>1. g[i - 1] = f[i - 1]
        OBVIOUS
      <4>2. CASE i = n + 1
        <5>1. g[i] = next[<<n + 1, f[n]>>] /\ i - 1 = n
          BY <4>2
        <5> QED
          BY <4>1, <4>2, <5>1
      <4>3. CASE i # n + 1
        <5>1. g[i] = f[i] /\ i \in 1 .. n
          BY <4>3
        <5>2. f[i] = next[<<i, f[i - 1]>>]
          BY <3>1, <5>1
        <5> QED
          BY <4>1, <5>1, <5>2
      <4> QED
        BY <4>2, <4>3
    <3> HIDE DEF g
    <3>4. Is(g, n + 1)
      BY <3>2, <3>3
    <3> QED
      BY <3>2, <3>4
  <2> HIDE DEF T
  <2>3. T \in SUBSET Nat
    BY DEF T
  <2> QED
    BY <2>1, <2>2, <2>3, Induct
<1> DEFINE f(n) == CHOOSE g \in [0 .. n -> S] : Is(g, n)
<1>2. \A n \in Nat : Is(f(n), n)
  BY <1>1
<1> DEFINE U == {n \in Nat : \A m \in Nat : m >= n => f(m)[n] = f(n)[n]}
<1> HIDE DEF f
<1>3. U = Nat
  <2>1. 0 \in U
    BY <1>2
  <2>2. ASSUME NEW n \in U PROVE n + 1 \in U
    <3> SUFFICES ASSUME NEW m \in Nat, m >= n + 1 PROVE f(m)[n + 1] = f(n + 1)[n + 1]
      OBVIOUS
    <3>1. f(m)[n] = f(n)[n] /\ f(n + 1)[n] = f(n)[n]
      OBVIOUS
    <3>2. f(m)[n + 1] = next[<<n + 1, f(m)[n]>>]
      <4>1. n + 1 \in 1 .. m /\ (n + 1) - 1 = n
        OBVIOUS
      <4> QED
        BY <1>2, <4>1
    <3>3. f(n + 1)[n + 1] = next[<<n + 1, f(n + 1)[n]>>]
      <4>1. n + 1 \in 1 .. n + 1 /\ (n + 1) - 1 = n
        OBVIOUS
      <4> QED
        BY <1>2, <4>1
    <3> QED
      BY <3>1, <3>2, <3>3
  <2> HIDE DEF U
  <2>3. U \in SUBSET Nat
    BY DEF U
  <2> QED
    BY <2>1, <2>2, <2>3, Induct
<1> DEFINE c == [n \in Nat |-> f(n)[n]]
<1>4. c \in [Nat -> S]
  BY <1>2
<1>5. ASSUME NEW i \in Nat PROVE c[i] = IF i = 0 THEN a ELSE next[<<i, c[i - 1]>>]
  <2>1. CASE i = 0
    BY <1>2, <2>1
  <2>2. CASE i # 0
    <3>1. i - 1 \in Nat /\ i \in 1 .. i /\ i - 1 \in U /\ i >= i - 1
      BY <1>3, <2>2
    <3>2. f(i)[i - 1] = f(i - 1)[i - 1]
      BY <3>1
    <3>3. f(i)[i] = next[<<i, f(i)[i - 1]>>]
      BY <1>2, <3>1
    <3> QED
      BY <2>2, <3>1, <3>2, <3>3
  <2> QED
    BY <2>1, <2>2
<1> HIDE DEF c
<1>6. Unrolls(c, a, next)
  BY <1>4, <1>5 DEF Unrolls
<1> QED
  BY <1>4, <1>6

\* The same with a last index N.
UnrollsTo(c, a, next, N) ==
  c = [i \in 0 .. N |-> IF i = 0 THEN a ELSE next[<<i, c[i - 1]>>]]

\* Such a function exists too.
LEMMA RecursionTo ==
  ASSUME NEW S, NEW a \in S, NEW N \in Nat, NEW next \in [(1 .. N) \X S -> S]
  PROVE  \E c \in [0 .. N -> S] : UnrollsTo(c, a, next, N)
<1> DEFINE far == [v \in Nat \X S |-> IF v[1] \in 1 .. N THEN next[v] ELSE a]
<1>1. far \in [Nat \X S -> S]
  <2>1. ASSUME NEW v \in Nat \X S, v[1] \in 1 .. N PROVE next[v] \in S
    <3>1. v \in (1 .. N) \X S
      BY <2>1
    <3> QED
      BY <3>1
  <2> QED
    BY <2>1
<1>2. \A i \in 1 .. N, x \in S : far[<<i, x>>] = next[<<i, x>>]
  OBVIOUS
<1> HIDE DEF far
<1>3. PICK d \in [Nat -> S] : Unrolls(d, a, far)
  BY <1>1, Recursion
<1>4. \A i \in Nat : d[i] = IF i = 0 THEN a ELSE far[<<i, d[i - 1]>>]
  BY <1>3 DEF Unrolls
<1> DEFINE c == [i \in 0 .. N |-> d[i]]
<1>5. c \in [0 .. N -> S]
  OBVIOUS
<1>6. ASSUME NEW i \in 0 .. N
      PROVE  c[i] = IF i = 0 THEN a ELSE next[<<i, c[i - 1]>>]
  <2>1. CASE i = 0
    BY <1>4, <2>1
  <2>2. CASE i # 0
    <3>1. i \in 1 .. N /\ i - 1 \in 0 .. N /\ i - 1 \in Nat
      BY <2>2
    <3>2. c[i] = far[<<i, c[i - 1]>>] /\ c[i - 1] \in S
      BY <1>4, <1>5, <2>2, <3>1
    <3>3. far[<<i, c[i - 1]>>] = next[<<i, c[i - 1]>>]
      BY <1>2, <3>1, <3>2
    <3> QED
      BY <2>2, <3>2, <3>3
  <2> QED
    BY <2>1, <2>2
<1> HIDE DEF c
<1>7. UnrollsTo(c, a, next, N)
  BY <1>5, <1>6 DEF UnrollsTo
<1> QED
  BY <1>5, <1>7
=============================================================================
