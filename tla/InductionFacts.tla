--------------------------- MODULE InductionFacts ---------------------------
(***************************************************************************)
(* Induction on the natural numbers in the forms the provers can use: the  *)
(* least and the greatest element of a set, and functions defined from     *)
(* their previous value.  They serve the loops of the repository that the  *)
(* modules write as recursive functions: the growth of the call stack in   *)
(* Examine, and the searches of the region cache and of heap events.       *)
(***************************************************************************)
EXTENDS Integers, WellFoundedInduction, TLAPS

\* A nonempty set of naturals has a least element.
LEMMA NatHasLeast ==
    ASSUME NEW S \in SUBSET Nat, S # {}
    PROVE  \E n \in S : \A m \in S : n <= m
<1> DEFINE R == OpToRel(<, Nat)
<1>1. IsWellFoundedOn(R, Nat)
  BY NatLessThanWellFounded
<1>2. \A x, y \in Nat : x < y => <<x, y>> \in R
  BY DEF OpToRel
<1> HIDE DEF R
<1>3. PICK n \in S : \A m \in S : ~(<<m, n>> \in R)
  BY <1>1, WFMin
<1>4. \A m \in S : n <= m
  <2> TAKE m \in S
  <2>1. m \in Nat /\ n \in Nat
    OBVIOUS
  <2>2. ~(m < n)
    BY <1>2, <1>3, <2>1
  <2> QED
    BY <2>1, <2>2
<1> QED
  BY <1>4

\* Induction up to n: a set that holds 0 and with k its successor holds 0 .. n.
LEMMA InductionUpTo ==
    ASSUME NEW n \in Nat, NEW S, 0 \in S, \A k \in 0 .. n - 1 : k \in S => k + 1 \in S
    PROVE  0 .. n \subseteq S
<1> SUFFICES ASSUME NEW x \in 0 .. n, x \notin S PROVE FALSE
  OBVIOUS
<1> DEFINE Bad == {k \in Nat : k <= n /\ k \notin S}
<1>1. Bad \in SUBSET Nat /\ Bad # {}
  <2>1. x \in Bad
    OBVIOUS
  <2> QED
    BY <2>1
<1>2. PICK k \in Bad : \A m \in Bad : k <= m
  BY <1>1, NatHasLeast
<1>3. k \in Nat /\ k <= n /\ k \notin S /\ k # 0
  BY <1>2
<1>4. k - 1 \in 0 .. n - 1 /\ (k - 1) + 1 = k
  BY <1>3
<1>5. k - 1 \in S
  <2> SUFFICES ASSUME k - 1 \notin S PROVE FALSE
    OBVIOUS
  <2>1. k - 1 \in Bad
    BY <1>3, <1>4
  <2>2. k <= k - 1
    BY <1>2, <2>1
  <2> QED
    BY <1>3, <2>2
<1> QED
  BY <1>3, <1>4, <1>5

\* A nonempty set of numbers up to n has a greatest element.
LEMMA HasGreatest ==
    ASSUME NEW n \in Nat, NEW S, S \subseteq 0 .. n, S # {}
    PROVE  \E m \in S : \A k \in S : k <= m
<1> DEFINE R == {k \in Nat : k <= n /\ n - k \in S}
<1>1. PICK s \in S : TRUE
  OBVIOUS
<1>2. n - s \in R
  <2>1. s \in Nat /\ s <= n
    OBVIOUS
  <2>2. n - s \in Nat /\ n - s <= n /\ n - (n - s) = s
    BY <2>1
  <2> QED
    BY <2>2
<1>3. PICK r \in R : \A q \in R : r <= q
  <2>1. R \in SUBSET Nat /\ R # {}
    BY <1>2
  <2> QED
    BY <2>1, NatHasLeast
<1>4. n - r \in S /\ r \in Nat
  BY <1>3
<1>5. ASSUME NEW k \in S
      PROVE  k <= n - r
  <2>1. k \in Nat /\ k <= n
    OBVIOUS
  <2>2. n - k \in Nat /\ n - k <= n /\ n - (n - k) = k
    BY <2>1
  <2>3. n - k \in R
    BY <2>2
  <2>4. r <= n - k
    BY <1>3, <2>3
  <2> QED
    BY <1>4, <2>1, <2>4
<1> QED
  BY <1>4, <1>5

\* There is a function on 0 .. n that starts at v and takes its i-th value from
\* the one before by F[i].
DefinedUpTo(n, V, v, F) ==
    \E f \in [0 .. n -> V] : f[0] = v /\ \A i \in 1 .. n : f[i] = F[i][f[i - 1]]

\* A function on 0 .. n may be defined from its previous value.
LEMMA RecursionUpTo ==
    ASSUME NEW n \in Nat, NEW V, NEW v \in V, NEW F \in [1 .. n -> [V -> V]]
    PROVE  DefinedUpTo(n, V, v, F)
<1> DEFINE Def(k) == \E f \in [0 .. k -> V] :
                        f[0] = v /\ \A i \in 1 .. k : f[i] = F[i][f[i - 1]]
           S == {k \in Nat : Def(k)}
<1>1. 0 \in S
  <2>1. [x \in 0 .. 0 |-> v] \in [0 .. 0 -> V] /\ [x \in 0 .. 0 |-> v][0] = v
    OBVIOUS
  <2>2. \A i \in 1 .. 0 : FALSE
    OBVIOUS
  <2>3. Def(0)
    BY <2>1, <2>2
  <2> QED
    BY <2>3
<1>2. ASSUME NEW k \in 0 .. n - 1, k \in S
      PROVE  k + 1 \in S
  <2>1. PICK f \in [0 .. k -> V] : f[0] = v /\ \A i \in 1 .. k : f[i] = F[i][f[i - 1]]
    BY <1>2
  <2>2. k \in Nat /\ k + 1 \in 1 .. n /\ f[k] \in V
    OBVIOUS
  <2> DEFINE w == F[k + 1][f[k]]
             g == [i \in 0 .. k + 1 |-> IF i = k + 1 THEN w ELSE f[i]]
  <2>3. w \in V
    BY <2>2
  <2>4. g \in [0 .. k + 1 -> V]
    <3>1. \A i \in 0 .. k + 1 : i # k + 1 => i \in 0 .. k
      BY <2>2
    <3> QED
      BY <2>3, <3>1
  <2>5. g[0] = v
    BY <2>1, <2>2
  <2>6. ASSUME NEW i \in 1 .. k + 1
        PROVE  g[i] = F[i][g[i - 1]]
    <3>1. CASE i = k + 1
      <4>1. i - 1 = k /\ k \in 0 .. k + 1 /\ k # k + 1 /\ k + 1 \in 0 .. k + 1
        BY <2>2, <3>1
      <4>2. g[i - 1] = f[k] /\ g[i] = w
        BY <3>1, <4>1
      <4> QED
        BY <3>1, <4>2
    <3>2. CASE i # k + 1
      <4>1. i \in 1 .. k /\ i \in 0 .. k + 1 /\ i - 1 \in 0 .. k + 1 /\ i - 1 # k + 1
        BY <2>2, <3>2
      <4>2. g[i - 1] = f[i - 1] /\ g[i] = f[i]
        BY <3>2, <4>1
      <4> QED
        BY <2>1, <4>1, <4>2
    <3> QED
      BY <3>1, <3>2
  <2> HIDE DEF g
  <2>7. Def(k + 1)
    BY <2>4, <2>5, <2>6
  <2>8. k + 1 \in Nat
    BY <2>2
  <2> QED
    BY <2>7, <2>8
<1> HIDE DEF S
<1>3. 0 .. n \subseteq S
  BY <1>1, <1>2, InductionUpTo
<1>4. n \in S
  BY <1>3
<1> QED
  BY <1>4 DEF S, DefinedUpTo
=============================================================================
