--------------------------- MODULE ExamineProofs ---------------------------
(***************************************************************************)
(* The debug server answers for every recording, every request and every   *)
(* history of earlier requests what the module Examine says it answers.    *)
(*                                                                         *)
(* First the recording: the depth that is stored with a step is the number *)
(* of the calls that are active there (DepthIsCalls), one step leaves at   *)
(* most the innermost call and enters at most one (StackStep), and calls   *)
(* outside the ones the program is in stay as they are (KeptOver).  From   *)
(* these follow what the queries over depths find: stepOut the caller,     *)
(* stackTrace the call stack (FramesAre, LastStepIs).                      *)
(*                                                                         *)
(* Then the server: ExamineInv is inductive.  The frame list is reused     *)
(* between requests and sessions, so that the invariant has to say which   *)
(* part of it the IDE was told of (ListedInOrder).                         *)
(***************************************************************************)
EXTENDS Examine, InductionFacts, FiniteSetTheorems, SequenceTheorems, TLAPS

-----------------------------------------------------------------------------
(***************************************************************************)
(* Least and greatest rows of a query.                                     *)
(***************************************************************************)

\* ORDER BY id LIMIT 1 finds the least row.
LEMMA MinOf ==
    ASSUME NEW S \in SUBSET Nat, S # {}
    PROVE  Min(S) \in S /\ \A y \in S : Min(S) <= y
<1>1. PICK n \in S : \A m \in S : n <= m
  BY NatHasLeast
<1> DEFINE P(x) == x \in S /\ \A y \in S : x =< y
<1>2. P(n)
  BY <1>1
<1>3. P(CHOOSE x : P(x))
  BY <1>2
<1>4. Min(S) = CHOOSE x : P(x)
  BY DEF Min
<1> QED
  BY <1>3, <1>4

\* ORDER BY id DESC LIMIT 1 and MAX(id) find the greatest.
LEMMA MaxOf ==
    ASSUME NEW n \in Nat, NEW S, S \subseteq 0 .. n, S # {}
    PROVE  Max(S) \in S /\ \A y \in S : y <= Max(S)
<1>1. PICK m \in S : \A y \in S : y <= m
  BY HasGreatest
<1> DEFINE P(x) == x \in S /\ \A y \in S : x >= y
<1>2. P(m)
  BY <1>1
<1>3. P(CHOOSE x : P(x))
  BY <1>2
<1>4. Max(S) = CHOOSE x : P(x)
  BY DEF Max
<1> QED
  BY <1>3, <1>4

\* A greatest row is the only one.
LEMMA MaxIs ==
    ASSUME NEW S \in SUBSET Nat, NEW m \in S, \A y \in S : y <= m
    PROVE  Max(S) = m
<1> DEFINE P(x) == x \in S /\ \A y \in S : x >= y
<1>1. P(m)
  OBVIOUS
<1>2. P(CHOOSE x : P(x))
  BY <1>1
<1>3. Max(S) = CHOOSE x : P(x)
  BY DEF Max
<1>4. Max(S) \in S /\ Max(S) >= m
  BY <1>2, <1>3
<1>5. Max(S) \in Nat /\ m \in Nat /\ Max(S) <= m
  BY <1>4
<1> QED
  BY <1>4, <1>5

\* A least row is the only one.
LEMMA MinIs ==
    ASSUME NEW S \in SUBSET Nat, NEW m \in S, \A y \in S : m <= y
    PROVE  Min(S) = m
<1>1. Min(S) \in S /\ Min(S) <= m
  BY MinOf
<1>2. Min(S) \in Nat /\ m \in Nat /\ m <= Min(S)
  BY <1>1
<1> QED
  BY <1>1, <1>2

-----------------------------------------------------------------------------
(***************************************************************************)
(* The calls of a recording.                                               *)
(***************************************************************************)

\* The calls that are active at a step, from those at the step before.
Left(t, i, calls) ==
    IF i > 1 /\ Info[t[i - 1]].flag = "END" THEN Front(calls) ELSE calls
Enter(t, i, calls) ==
    IF Info[t[i]].flag = "START" THEN Append(Left(t, i, calls), i) ELSE Left(t, i, calls)

\* A sequence without its last element.
LEMMA FrontOf ==
    ASSUME NEW s \in Seq(Nat)
    PROVE  /\ Front(s) \in Seq(Nat)
           /\ s # <<>> => Len(Front(s)) = Len(s) - 1
           /\ \A k \in 1 .. Len(s) - 1 : Front(s)[k] = s[k]
           /\ s = <<>> => Front(s) = <<>>
<1>1. CASE s = <<>>
  <2>1. Len(s) = 0 /\ SubSeq(s, 1, Len(s) - 1) = <<>>
    BY <1>1
  <2> QED
    BY <1>1, <2>1 DEF Front
<1>2. CASE s # <<>>
  <2>1. Len(s) \in Nat /\ Len(s) # 0
    BY <1>2
  <2>2. PICK n \in Nat : n = Len(s) - 1
    BY <2>1
  <2>3. \A i \in 1 .. n : s[i] \in Nat
    BY <2>1, <2>2
  <2>4. /\ SubSeq(s, 1, n) \in Seq(Nat)
        /\ Len(SubSeq(s, 1, n)) = n
        /\ \A i \in 1 .. n : SubSeq(s, 1, n)[i] = s[i]
    <3>1. /\ SubSeq(s, 1, n) \in Seq(Nat)
          /\ Len(SubSeq(s, 1, n)) = IF 1 <= n THEN n - 1 + 1 ELSE 0
          /\ \A i \in 1 .. n - 1 + 1 : SubSeq(s, 1, n)[i] = s[1 + i - 1]
      BY <2>3, SubSeqProperties
    <3>2. \A i \in 1 .. n : i \in 1 .. n - 1 + 1 /\ 1 + i - 1 = i
      OBVIOUS
    <3> QED
      BY <3>1, <3>2
  <2>5. Front(s) = SubSeq(s, 1, n)
    BY <2>2 DEF Front
  <2> QED
    BY <1>2, <2>2, <2>4, <2>5
<1> QED
  BY <1>1, <1>2

\* CallsOf is the function its definition says.
LEMMA CallsRecursion ==
    ASSUME NEW t \in Seq(Stmts)
    PROVE  /\ CallsOf(t) \in [0 .. Len(t) -> Seq(Nat)]
           /\ CallsOf(t)[0] = <<>>
           /\ \A i \in 1 .. Len(t) : CallsOf(t)[i] = Enter(t, i, CallsOf(t)[i - 1])
<1> DEFINE n == Len(t)
           V == Seq(Nat)
           F == [i \in 1 .. n |-> [c \in V |-> Enter(t, i, c)]]
           Body(f) == [i \in 0 .. n |-> IF i = 0 THEN <<>> ELSE Enter(t, i, f[i - 1])]
<1>1. n \in Nat /\ <<>> \in V
  OBVIOUS
<1>2. ASSUME NEW i \in 1 .. n, NEW c \in V
      PROVE  Enter(t, i, c) \in V
  <2>1. Left(t, i, c) \in V
    BY FrontOf DEF Left
  <2> QED
    BY <2>1 DEF Enter
<1>3. F \in [1 .. n -> [V -> V]]
  BY <1>2
<1>4. \E f \in [0 .. n -> V] : f[0] = <<>> /\ \A i \in 1 .. n : f[i] = F[i][f[i - 1]]
  <2> HIDE DEF F, V, n
  <2>1. DefinedUpTo(n, V, <<>>, F)
    BY <1>1, <1>3, RecursionUpTo
  <2> QED
    BY <2>1 DEF DefinedUpTo
<1>5. PICK f \in [0 .. n -> V] : f[0] = <<>> /\ \A i \in 1 .. n : f[i] = F[i][f[i - 1]]
  BY <1>4
<1>6. \A i \in 1 .. n : i - 1 \in 0 .. n /\ f[i - 1] \in V
  BY <1>1
<1>7. \A i \in 1 .. n : f[i] = Enter(t, i, f[i - 1])
  BY <1>5, <1>6
<1>8. f = Body(f)
  <2>1. \A i \in 0 .. n : f[i] = IF i = 0 THEN <<>> ELSE Enter(t, i, f[i - 1])
    BY <1>5, <1>7
  <2> HIDE DEF V
  <2> QED
    BY <2>1
<1>9. CallsOf(t) = CHOOSE g : g = Body(g)
  BY DEF CallsOf, Enter, Left
<1> HIDE DEF Body
<1>10. PICK g : g = CallsOf(t) /\ g = Body(g)
  BY <1>8, <1>9
<1>11. /\ g[0] = <<>>
       /\ \A i \in 1 .. n : g[i] = Enter(t, i, g[i - 1])
       /\ g = [i \in 0 .. n |-> g[i]]
  BY <1>1, <1>10 DEF Body
<1>12. 0 .. n \subseteq {i \in Nat : g[i] \in V}
  <2> DEFINE S == {i \in Nat : g[i] \in V}
  <2>1. 0 \in S
    BY <1>1, <1>11
  <2>2. ASSUME NEW k \in 0 .. n - 1, k \in S
        PROVE  k + 1 \in S
    <3>1. k + 1 \in 1 .. n /\ (k + 1) - 1 = k /\ k + 1 \in Nat
      BY <1>1
    <3>2. g[k + 1] = Enter(t, k + 1, g[k])
      BY <1>11, <3>1
    <3> QED
      BY <1>2, <2>2, <3>1, <3>2
  <2> HIDE DEF S
  <2> QED
    BY <1>1, <2>1, <2>2, InductionUpTo DEF S
<1> HIDE DEF V
<1>13. g \in [0 .. n -> V]
  BY <1>11, <1>12
<1> QED
  BY <1>10, <1>11, <1>13 DEF V

\* The stacks of an execution are sequences of steps, empty only before it.
LEMMA StacksOf ==
    ASSUME NEW t \in Seq(Stmts), Execution(t)
    PROVE  /\ Len(t) \in Nat
           /\ \A i \in 0 .. Len(t) : /\ CallsOf(t)[i] \in Seq(Nat)
                                     /\ Len(CallsOf(t)[i]) \in Nat
           /\ CallsOf(t)[0] = <<>>
           /\ \A i \in 1 .. Len(t) : CallsOf(t)[i] # <<>> /\ Len(CallsOf(t)[i]) >= 1
<1>1. CallsOf(t) \in [0 .. Len(t) -> Seq(Nat)] /\ CallsOf(t)[0] = <<>>
  BY CallsRecursion
<1>2. Len(t) \in Nat
  OBVIOUS
<1>3. ASSUME NEW i \in 0 .. Len(t)
      PROVE  CallsOf(t)[i] \in Seq(Nat) /\ Len(CallsOf(t)[i]) \in Nat
  <2>1. CallsOf(t)[i] \in Seq(Nat)
    BY <1>1
  <2> QED
    BY <2>1
<1>4. ASSUME NEW i \in 1 .. Len(t)
      PROVE  CallsOf(t)[i] # <<>> /\ Len(CallsOf(t)[i]) >= 1
  <2>1. CallsOf(t)[i] # <<>>
    BY DEF Execution
  <2>2. i \in 0 .. Len(t)
    BY <1>2
  <2>3. CallsOf(t)[i] \in Seq(Nat)
    BY <1>3, <2>2
  <2> HIDE DEF CallsOf
  <2> QED
    BY <2>1, <2>3
<1> QED
  BY <1>1, <1>2, <1>3, <1>4

\* The stack b at step i + 1, and the stack a at the step before: at most the
\* innermost call is left and one call is entered.
Stepped(t, i, a, b) ==
    /\ a \in Seq(Nat) /\ b \in Seq(Nat)
    /\ Len(b) <= Len(a) + 1
    /\ \A k \in 1 .. Len(a) - 1 : k <= Len(b) /\ b[k] = a[k]
    /\ Len(b) > Len(a) => \A k \in 1 .. Len(a) : b[k] = a[k]
    /\ \A k \in 1 .. Len(b) : (b[k] = i + 1 /\ k = Len(b)) \/ (k <= Len(a) /\ b[k] = a[k])
    /\ Len(b) = Len(a) + (IF Info[t[i + 1]].flag = "START" THEN 1 ELSE 0)
                       - (IF i > 0 /\ Info[t[i]].flag = "END" THEN 1 ELSE 0)

\* Every step of a recording changes the calls that way.
LEMMA StackStep ==
    ASSUME NEW t \in Seq(Stmts), Execution(t), NEW i \in 0 .. Len(t) - 1
    PROVE  Stepped(t, i, CallsOf(t)[i], CallsOf(t)[i + 1])
<1> SUFFICES ASSUME NEW a, NEW b, a = CallsOf(t)[i], b = CallsOf(t)[i + 1]
             PROVE  Stepped(t, i, a, b)
  OBVIOUS
<1> USE DEF Stepped
<1>1. i + 1 \in 1 .. Len(t) /\ i \in Nat /\ (i + 1) - 1 = i /\ i \in 0 .. Len(t)
      /\ i + 1 \in 0 .. Len(t)
  OBVIOUS
<1>2. b = Enter(t, i + 1, a)
  <2>1. CallsOf(t)[i + 1] = Enter(t, i + 1, CallsOf(t)[(i + 1) - 1])
    BY <1>1, CallsRecursion
  <2> QED
    BY <1>1, <2>1
<1>3. a \in Seq(Nat) /\ b \in Seq(Nat)
  BY <1>1, StacksOf
<1>4. i > 0 => a # <<>>
  <2>1. i > 0 => i \in 1 .. Len(t)
    BY <1>1
  <2> QED
    BY <2>1, StacksOf
<1>5. PICK l, e, n :
         /\ l = Left(t, i + 1, a)
         /\ e = IF i > 0 /\ Info[t[i]].flag = "END" THEN 1 ELSE 0
         /\ n = Len(a)
  OBVIOUS
<1>6. n \in Nat /\ (e = 0 \/ e = 1) /\ n - e \in Nat /\ (e = 1 => n > 0)
  <2>1. n \in Nat /\ (a # <<>> => n > 0)
    BY <1>3, <1>5
  <2>2. (e = 0 \/ e = 1) /\ (e = 1 => i > 0)
    BY <1>5
  <2> QED
    BY <1>4, <2>1, <2>2
<1>7. l \in Seq(Nat) /\ Len(l) = n - e /\ \A k \in 1 .. n - e : l[k] = a[k]
  <2>1. CASE i > 0 /\ Info[t[i]].flag = "END"
    <3>1. l = Front(a) /\ e = 1
      BY <1>1, <1>5, <2>1 DEF Left
    <3>2. /\ l \in Seq(Nat) /\ Len(l) = Len(a) - 1
          /\ \A k \in 1 .. Len(a) - 1 : l[k] = a[k]
      BY <1>3, <1>4, <2>1, <3>1, FrontOf
    <3> QED
      BY <1>5, <3>1, <3>2
  <2>2. CASE ~(i > 0 /\ Info[t[i]].flag = "END")
    <3>1. l = a /\ e = 0
      BY <1>1, <1>5, <2>2 DEF Left
    <3>2. n - e = n
      BY <1>6, <3>1
    <3>3. Len(l) = n /\ l \in Seq(Nat)
      BY <1>3, <1>5, <3>1
    <3> QED
      BY <3>1, <3>2, <3>3
  <2> QED
    BY <2>1, <2>2
<1>8. CASE Info[t[i + 1]].flag = "START"
  <2>1. b = Append(l, i + 1)
    BY <1>2, <1>5, <1>8 DEF Enter
  <2>2. PICK m \in Nat : m = n - e
    BY <1>6
  <2>3. Len(b) = m + 1 /\ b[m + 1] = i + 1 /\ \A k \in 1 .. m : b[k] = a[k]
    <3>1. Len(l) = m /\ \A k \in 1 .. m : l[k] = a[k]
      BY <1>7, <2>2
    <3>2. Len(b) = Len(l) + 1 /\ b[Len(l) + 1] = i + 1 /\ \A k \in 1 .. Len(l) : b[k] = l[k]
      BY <1>1, <1>7, <2>1
    <3> QED
      BY <3>1, <3>2
  <2>4. m <= n /\ n <= m + 1
    BY <1>6, <2>2
  <2>5. \A k \in 1 .. m + 1 : k = m + 1 \/ (k \in 1 .. m /\ k <= n)
    BY <1>6, <2>4
  <2>6. \A k \in 1 .. n - 1 : k \in 1 .. m /\ k <= m + 1
    BY <1>6, <2>4
  <2>7. m + 1 > n => \A k \in 1 .. n : k \in 1 .. m
    BY <1>6, <2>4
  <2>8. m + 1 = n + 1 - e
    BY <1>6, <2>2
  <2> HIDE DEF CallsOf
  <2>9. m + 1 <= n + 1
    BY <1>6, <2>4
  <2>10. /\ Len(b) <= n + 1
         /\ \A k \in 1 .. n - 1 : k <= Len(b) /\ b[k] = a[k]
         /\ Len(b) > n => \A k \in 1 .. n : b[k] = a[k]
         /\ Len(b) = n + 1 - e
    BY <2>3, <2>6, <2>7, <2>8, <2>9
  <2>11. \A k \in 1 .. Len(b) : (b[k] = i + 1 /\ k = Len(b)) \/ (k <= n /\ b[k] = a[k])
    <3> SUFFICES ASSUME NEW k \in 1 .. m + 1
                 PROVE  (b[k] = i + 1 /\ k = m + 1) \/ (k <= n /\ b[k] = a[k])
      BY <2>3
    <3>1. CASE k = m + 1
      BY <2>3, <3>1
    <3>2. CASE k \in 1 .. m /\ k <= n
      BY <2>3, <3>2
    <3> QED
      BY <2>5, <3>1, <3>2
  <2>12. \A k \in 1 .. Len(b) : (b[k] = i + 1 /\ k = Len(b)) \/ (k <= Len(a) /\ b[k] = a[k])
    BY <1>5, <2>11
  <2>13. Len(b) = Len(a) + (IF Info[t[i + 1]].flag = "START" THEN 1 ELSE 0)
                         - (IF i > 0 /\ Info[t[i]].flag = "END" THEN 1 ELSE 0)
    BY <1>5, <1>8, <2>10
  <2> QED
    BY <1>3, <1>5, <2>10, <2>12, <2>13
<1>9. CASE Info[t[i + 1]].flag # "START"
  <2>1. b = l
    BY <1>2, <1>5, <1>9 DEF Enter
  <2>2. PICK m \in Nat : m = n - e
    BY <1>6
  <2>3. Len(b) = m /\ \A k \in 1 .. m : b[k] = a[k]
    BY <1>7, <2>1, <2>2
  <2>4. m <= n /\ n <= m + 1 /\ ~(m > n) /\ m <= n + 1 /\ m = n + 0 - e
    BY <1>6, <2>2
  <2>5. \A k \in 1 .. n - 1 : k \in 1 .. m /\ k <= m
    BY <1>6, <2>4
  <2>6. \A k \in 1 .. m : k <= n
    BY <1>6, <2>4
  <2>7. /\ Len(b) <= n + 1
        /\ \A k \in 1 .. n - 1 : k <= Len(b) /\ b[k] = a[k]
        /\ Len(b) > n => \A k \in 1 .. n : b[k] = a[k]
        /\ Len(b) = n + 0 - e
        /\ \A k \in 1 .. Len(b) : k <= n /\ b[k] = a[k]
    BY <2>3, <2>4, <2>5, <2>6
  <2> QED
    BY <1>3, <1>5, <1>9, <2>7
<1> QED
  BY <1>8, <1>9

\* A set of steps is finite, and one more step counts one more.
LEMMA CountOneMore ==
    ASSUME NEW i \in Nat, NEW S, S \subseteq 1 .. i
    PROVE  /\ Cardinality(S) \in Nat
           /\ \A x : x \notin S => Cardinality(S \cup {x}) = Cardinality(S) + 1
<1>1. IsFiniteSet(1 .. i)
  BY FS_Interval
<1>2. IsFiniteSet(S)
  BY <1>1, FS_Subset
<1> QED
  BY <1>2, FS_CardinalityType, FS_AddElement

\* The depth process_breakpoint() stores is the number of active calls.
LEMMA DepthIsCalls ==
    ASSUME NEW t \in Seq(Stmts), Execution(t)
    PROVE  \A i \in 0 .. Len(t) : DepthOf(t, i) = Len(CallsOf(t)[i])
<1> DEFINE n == Len(t)
           A(i) == {j \in 1 .. i : Info[t[j]].flag = "START"}
           B(i) == {j \in 1 .. i - 1 : Info[t[j]].flag = "END"}
           Right(i) == Cardinality(A(i)) - Cardinality(B(i)) = Len(CallsOf(t)[i])
           S == {i \in Nat : Right(i)}
<1>1. n \in Nat
  OBVIOUS
<1>2. 0 \in S
  <2>1. A(0) = {} /\ B(0) = {}
    OBVIOUS
  <2>2. Cardinality({}) = 0
    BY FS_EmptySet
  <2>3. Len(CallsOf(t)[0]) = 0
    BY StacksOf
  <2>4. Right(0)
    BY <2>1, <2>2, <2>3
  <2> QED
    BY <2>4
<1>3. ASSUME NEW i \in 0 .. n - 1, i \in S
      PROVE  i + 1 \in S
  <2>1. i \in Nat /\ i + 1 \in 1 .. n /\ i + 1 \in Nat
    BY <1>1
  <2>2. PICK a, b, x, y : /\ a = CallsOf(t)[i] /\ b = CallsOf(t)[i + 1]
                          /\ x = IF Info[t[i + 1]].flag = "START" THEN 1 ELSE 0
                          /\ y = IF i > 0 /\ Info[t[i]].flag = "END" THEN 1 ELSE 0
    OBVIOUS
  <2>3. Len(b) = Len(a) + x - y /\ Len(a) \in Nat
    <3>1. Len(b) = Len(a) + (IF Info[t[i + 1]].flag = "START" THEN 1 ELSE 0)
                          - (IF i > 0 /\ Info[t[i]].flag = "END" THEN 1 ELSE 0)
      <4>1. Stepped(t, i, a, b)
        BY <2>2, StackStep
      <4> QED
        BY <4>1 DEF Stepped
    <3>2. Len(a) \in Nat
      BY <2>2, StacksOf
    <3> QED
      BY <2>2, <3>1, <3>2
  <2>4. Cardinality(A(i)) \in Nat /\ Cardinality(A(i + 1)) = Cardinality(A(i)) + x
    <3>1. A(i) \subseteq 1 .. i /\ i + 1 \notin A(i)
      BY <2>1
    <3>2. Cardinality(A(i)) \in Nat /\ Cardinality(A(i) \cup {i + 1}) = Cardinality(A(i)) + 1
      BY <2>1, <3>1, CountOneMore
    <3>3. CASE Info[t[i + 1]].flag = "START"
      <4>1. A(i + 1) = A(i) \cup {i + 1}
        BY <2>1, <3>3
      <4> HIDE DEF A
      <4> QED
        BY <2>2, <3>2, <3>3, <4>1
    <3>4. CASE Info[t[i + 1]].flag # "START"
      <4>1. A(i + 1) = A(i)
        BY <2>1, <3>4
      <4> HIDE DEF A
      <4> QED
        BY <2>2, <3>2, <3>4, <4>1
    <3> QED
      BY <3>3, <3>4
  <2>5. Cardinality(B(i)) \in Nat /\ Cardinality(B(i + 1)) = Cardinality(B(i)) + y
    <3>1. B(i) \subseteq 1 .. i /\ i \notin B(i)
      BY <2>1
    <3>2. Cardinality(B(i)) \in Nat /\ Cardinality(B(i) \cup {i}) = Cardinality(B(i)) + 1
      BY <2>1, <3>1, CountOneMore
    <3>3. CASE i > 0 /\ Info[t[i]].flag = "END"
      <4>1. B(i + 1) = B(i) \cup {i}
        BY <2>1, <3>3
      <4> HIDE DEF B
      <4> QED
        BY <2>2, <3>2, <3>3, <4>1
    <3>4. CASE ~(i > 0 /\ Info[t[i]].flag = "END")
      <4>1. B(i + 1) = B(i)
        BY <2>1, <3>4
      <4>2. y = 0
        BY <2>2, <3>4
      <4> HIDE DEF B
      <4> QED
        BY <3>2, <4>1, <4>2
    <3> QED
      BY <3>3, <3>4
  <2>6. Cardinality(A(i)) - Cardinality(B(i)) = Len(a)
    BY <1>3, <2>2
  <2>7. x \in Nat /\ y \in Nat
    BY <2>2
  <2> HIDE DEF A, B
  <2>8. Cardinality(A(i + 1)) - Cardinality(B(i + 1)) = Len(b)
    <3>1. PICK p, q, p1, q1, la, lb :
             /\ p = Cardinality(A(i)) /\ p1 = Cardinality(A(i + 1))
             /\ q = Cardinality(B(i)) /\ q1 = Cardinality(B(i + 1))
             /\ la = Len(a) /\ lb = Len(b)
      OBVIOUS
    <3>2. /\ p \in Nat /\ q \in Nat /\ la \in Nat /\ p1 = p + x /\ q1 = q + y
          /\ lb = la + x - y /\ p - q = la
      BY <2>3, <2>4, <2>5, <2>6, <3>1
    <3>3. p1 - q1 = lb
      BY <2>7, <3>2
    <3> QED
      BY <3>1, <3>3
  <2>9. Right(i + 1)
    BY <2>2, <2>8
  <2> QED
    BY <2>1, <2>9
<1> HIDE DEF S
<1>4. 0 .. n \subseteq S
  BY <1>1, <1>2, <1>3, InductionUpTo
<1>5. ASSUME NEW i \in 0 .. n
      PROVE  Right(i)
  BY <1>4 DEF S
<1> QED
  BY <1>5 DEF DepthOf

\* An active call is named by the step that entered it, and entered it at the
\* depth the call has.
LEMMA EntriesOf ==
    ASSUME NEW t \in Seq(Stmts), Execution(t)
    PROVE  \A i \in 0 .. Len(t) : \A k \in 1 .. Len(CallsOf(t)[i]) :
              /\ CallsOf(t)[i][k] \in 1 .. i
              /\ Len(CallsOf(t)[CallsOf(t)[i][k]]) = k
<1> DEFINE n == Len(t)
           Entered(i, s, k) == s \in 1 .. i /\ Len(CallsOf(t)[s]) = k
           S == {i \in Nat : \A k \in 1 .. Len(CallsOf(t)[i]) : Entered(i, CallsOf(t)[i][k], k)}
<1>1. n \in Nat
  OBVIOUS
<1>2. 0 \in S
  <2>1. \A k \in 1 .. Len(CallsOf(t)[0]) : FALSE
    BY StacksOf
  <2> QED
    BY <2>1
<1>3. ASSUME NEW i \in 0 .. n - 1, i \in S
      PROVE  i + 1 \in S
  <2>1. i \in Nat /\ i + 1 \in 1 .. n /\ i + 1 \in Nat
    BY <1>1
  <2>2. PICK a, b : a = CallsOf(t)[i] /\ b = CallsOf(t)[i + 1]
    OBVIOUS
  <2>3. /\ \A k \in 1 .. Len(b) : (b[k] = i + 1 /\ k = Len(b)) \/ (k <= Len(a) /\ b[k] = a[k])
        /\ a \in Seq(Nat) /\ b \in Seq(Nat)
    <3>1. Stepped(t, i, a, b)
      BY <2>2, StackStep
    <3> QED
      BY <3>1 DEF Stepped
  <2>4. \A k \in 1 .. Len(a) : Entered(i, a[k], k)
    BY <1>3, <2>2
  <2>5. ASSUME NEW k \in 1 .. Len(b)
        PROVE  Entered(i + 1, b[k], k)
    <3>1. CASE b[k] = i + 1 /\ k = Len(b)
      <4>1. Len(CallsOf(t)[i + 1]) = k /\ b[k] = i + 1
        BY <2>2, <3>1
      <4>2. i + 1 \in 1 .. i + 1
        BY <2>1
      <4> QED
        BY <4>1, <4>2
    <3>2. CASE k <= Len(a) /\ b[k] = a[k]
      <4>1. k \in 1 .. Len(a)
        <5>1. Len(a) \in Nat /\ Len(b) \in Nat
          BY <2>3
        <5> QED
          BY <3>2, <5>1
      <4>2. a[k] \in 1 .. i /\ Len(CallsOf(t)[a[k]]) = k
        BY <2>4, <4>1
      <4>3. a[k] \in 1 .. i + 1
        BY <2>1, <4>2
      <4> QED
        BY <3>2, <4>2, <4>3
    <3> QED
      BY <2>3, <3>1, <3>2
  <2> HIDE DEF Entered
  <2> QED
    BY <2>1, <2>2, <2>5
<1> HIDE DEF S
<1>4. 0 .. n \subseteq S
  BY <1>1, <1>2, <1>3, InductionUpTo
<1> QED
  BY <1>4 DEF S

\* Calls outside the ones the program is in stay as they are.
LEMMA KeptOver ==
    ASSUME NEW t \in Seq(Stmts), Execution(t), NEW i \in 0 .. Len(t), NEW j \in i .. Len(t),
           NEW d \in Nat, d <= Len(CallsOf(t)[i]),
           \A m \in i .. j - 1 : Len(CallsOf(t)[m]) > d
    PROVE  /\ Len(CallsOf(t)[j]) >= d
           /\ \A k \in 1 .. d : CallsOf(t)[j][k] = CallsOf(t)[i][k]
<1> DEFINE n == j - i
           Kept(c) == Len(c) >= d /\ \A k \in 1 .. d : c[k] = CallsOf(t)[i][k]
           S == {m \in Nat : Kept(CallsOf(t)[i + m])}
<1>1. n \in Nat /\ Len(t) \in Nat /\ i \in Nat /\ j \in Nat /\ i + 0 = i
  OBVIOUS
<1>2. 0 \in S
  <2>1. Len(CallsOf(t)[i]) \in Nat
    BY StacksOf
  <2>2. Kept(CallsOf(t)[i])
    BY <2>1
  <2> HIDE DEF Kept
  <2> QED
    BY <1>1, <2>2
<1>3. ASSUME NEW m \in 0 .. n - 1, m \in S
      PROVE  m + 1 \in S
  <2>1. PICK r \in Nat : r = i + m
    BY <1>1
  <2>2. /\ r \in 0 .. Len(t) - 1 /\ r \in i .. j - 1 /\ m + 1 \in Nat
        /\ i + (m + 1) = r + 1
    BY <1>1, <2>1
  <2>3. PICK a, b : a = CallsOf(t)[r] /\ b = CallsOf(t)[r + 1]
    OBVIOUS
  <2>4. Stepped(t, r, a, b)
    BY <2>2, <2>3, StackStep
  <2>5. Kept(a)
    BY <1>3, <2>1, <2>3
  <2>6. Len(a) > d
    BY <2>2, <2>3
  <2>7. Len(a) \in Nat /\ Len(b) \in Nat
    <3>1. r \in 0 .. Len(t) /\ r + 1 \in 0 .. Len(t)
      BY <1>1, <2>2
    <3> QED
      BY <2>3, <3>1, StacksOf
  <2>8. \A k \in 1 .. d : k <= Len(b) /\ b[k] = a[k]
    <3>1. \A k \in 1 .. d : k \in 1 .. Len(a) - 1
      BY <2>6, <2>7
    <3> QED
      BY <2>4, <3>1 DEF Stepped
  <2>9. Len(b) >= d
    <3>1. d # 0 => d \in 1 .. d
      OBVIOUS
    <3> QED
      BY <2>7, <2>8, <3>1
  <2>10. Kept(b)
    BY <2>5, <2>8, <2>9
  <2> HIDE DEF Kept
  <2> QED
    BY <2>2, <2>3, <2>10
<1> HIDE DEF S
<1>4. 0 .. n \subseteq S
  BY <1>1, <1>2, <1>3, InductionUpTo
<1>5. n \in S /\ i + n = j
  BY <1>1, <1>4
<1>6. Kept(CallsOf(t)[j])
  <2> HIDE DEF Kept, n
  <2> QED
    BY <1>5 DEF S
<1> QED
  BY <1>6

\* Step j is the last one that the call at depth d of step i has made.
LastAt(t, i, d, j) ==
    /\ j \in 1 .. i
    /\ Len(CallsOf(t)[j]) = d
    /\ CallsOf(t)[j][d] = CallsOf(t)[i][d]
    /\ \A m \in j + 1 .. i : Len(CallsOf(t)[m]) > d

\* Every active call has made a last step, which called the next.
LEMMA LastAtDepth ==
    ASSUME NEW t \in Seq(Stmts), Execution(t), NEW i \in 1 .. Len(t),
           NEW d \in 1 .. Len(CallsOf(t)[i])
    PROVE  \E j \in 1 .. i : LastAt(t, i, d, j)
<1> DEFINE L(m) == Len(CallsOf(t)[m])
<1>1. Len(t) \in Nat /\ i \in Nat /\ L(i) \in Nat /\ d \in Nat /\ d >= 1 /\ i \in 0 .. Len(t)
  <2>1. Len(t) \in Nat
    OBVIOUS
  <2>2. i \in 0 .. Len(t) /\ i \in Nat
    BY <2>1
  <2>3. L(i) \in Nat
    BY <2>2, StacksOf
  <2> QED
    BY <2>1, <2>2, <2>3
<1>2. \A m \in 0 .. i : L(m) \in Nat
  <2>1. \A m \in 0 .. i : m \in 0 .. Len(t)
    BY <1>1
  <2> QED
    BY <2>1, StacksOf
<1> DEFINE Low == {m \in 0 .. i : L(m) <= d}
<1>3. L(0) = 0
  BY StacksOf
<1>4. 0 \in Low
  BY <1>1, <1>3
<1>5. PICK j \in Low : \A m \in Low : m <= j
  BY <1>1, <1>4, HasGreatest
<1>6. j \in 0 .. i /\ L(j) <= d /\ L(j) \in Nat
  BY <1>2, <1>5
<1>7. \A m \in j + 1 .. i : L(m) > d
  <2> SUFFICES ASSUME NEW m \in j + 1 .. i, ~(L(m) > d)
               PROVE  FALSE
    OBVIOUS
  <2>1. m \in 0 .. i /\ m > j
    BY <1>1, <1>6
  <2>2. L(m) \in Nat
    BY <1>2, <2>1
  <2> HIDE DEF L
  <2>3. m \in Low
    BY <1>1, <2>1, <2>2
  <2>4. m <= j
    BY <1>5, <2>3
  <2> QED
    BY <1>1, <1>6, <2>1, <2>4
<1>8. CASE j = i
  <2>1. L(i) = d
    <3> HIDE DEF L
    <3> QED
      BY <1>1, <1>6, <1>8 DEF L
  <2>2. i \in 1 .. i
    BY <1>1
  <2>3. LastAt(t, i, d, i)
    <3>1. \A m \in i + 1 .. i : FALSE
      BY <1>1
    <3> QED
      BY <2>1, <2>2, <3>1 DEF LastAt
  <2> QED
    BY <2>2, <2>3
<1>9. CASE j # i
  <2>1. j \in 0 .. Len(t) - 1 /\ j + 1 \in j + 1 .. i /\ j \in Nat
    BY <1>1, <1>6, <1>9
  <2>2. PICK a, b : a = CallsOf(t)[j] /\ b = CallsOf(t)[j + 1]
    OBVIOUS
  <2>3. Stepped(t, j, a, b)
    BY <2>1, <2>2, StackStep
  <2>4. Len(b) > d /\ Len(a) <= d /\ Len(b) <= Len(a) + 1 /\ Len(a) \in Nat
    BY <1>6, <1>7, <2>1, <2>2, <2>3 DEF Stepped
  <2>5. Len(b) \in Nat
    <3>1. j + 1 \in 0 .. Len(t)
      BY <1>1, <2>1
    <3> QED
      BY <2>2, <3>1, StacksOf
  <2>6. Len(a) = d /\ Len(b) > Len(a)
    BY <1>1, <2>4, <2>5
  <2>7. j # 0
    BY <1>1, <1>3, <2>2, <2>6
  <2>8. b[d] = a[d]
    <3>1. d \in 1 .. Len(a)
      BY <1>1, <2>6
    <3> QED
      BY <2>3, <2>6, <3>1 DEF Stepped
  <2>9. CallsOf(t)[i][d] = b[d]
    <3>1. j + 1 \in 0 .. Len(t) /\ i \in j + 1 .. Len(t) /\ d \in 1 .. d
      BY <1>1, <1>6, <2>1, <1>9
    <3>2. d <= Len(CallsOf(t)[j + 1])
      BY <1>1, <2>2, <2>4, <2>5
    <3>3. \A m \in j + 1 .. i - 1 : Len(CallsOf(t)[m]) > d
      <4>1. \A m \in j + 1 .. i - 1 : m \in j + 1 .. i
        BY <1>1, <2>1
      <4> QED
        BY <1>7, <4>1
    <3>4. \A k \in 1 .. d : CallsOf(t)[i][k] = CallsOf(t)[j + 1][k]
      BY <1>1, <3>1, <3>2, <3>3, KeptOver
    <3> QED
      BY <2>2, <3>1, <3>4
  <2>10. j \in 1 .. i
    BY <1>1, <1>6, <2>1, <2>7
  <2>11. LastAt(t, i, d, j)
    BY <1>7, <2>2, <2>6, <2>8, <2>9, <2>10 DEF LastAt
  <2> QED
    BY <2>10, <2>11
<1> QED
  BY <1>8, <1>9

\* LastStepIn is that step.
LEMMA LastStepIs ==
    ASSUME NEW t \in Seq(Stmts), Execution(t), NEW i \in 1 .. Len(t),
           NEW d \in 1 .. Len(CallsOf(t)[i]), NEW j, LastAt(t, i, d, j)
    PROVE  Max({m \in 1 .. i : Last(CallsOf(t)[m]) = CallsOf(t)[i][d]}) = j
<1> DEFINE T == {m \in 1 .. i : Last(CallsOf(t)[m]) = CallsOf(t)[i][d]}
<1>1. Len(t) \in Nat /\ i \in Nat /\ i \in 0 .. Len(t)
  OBVIOUS
<1>2. d \in Nat /\ d >= 1 /\ Len(CallsOf(t)[i]) \in Nat
  <2>1. Len(CallsOf(t)[i]) \in Nat
    BY <1>1, StacksOf
  <2> QED
    BY <2>1
<1>3. j \in T
  BY DEF LastAt, Last
<1>4. \A k \in 1 .. Len(CallsOf(t)[i]) : Len(CallsOf(t)[CallsOf(t)[i][k]]) = k
  BY <1>1, EntriesOf
<1>5. ASSUME NEW m \in T
      PROVE  m <= j
  <2>1. m \in 1 .. i /\ m \in 1 .. Len(t) /\ m \in 0 .. Len(t) /\ m \in Nat
    BY <1>1
  <2>2. PICK l \in Nat : l = Len(CallsOf(t)[m]) /\ l >= 1
    BY <2>1, StacksOf
  <2>3. l \in 1 .. l /\ CallsOf(t)[m][l] = CallsOf(t)[i][d]
    BY <2>2 DEF Last
  <2>4. Len(CallsOf(t)[CallsOf(t)[m][l]]) = l
    BY <2>1, <2>2, <2>3, EntriesOf
  <2>5. l = d
    BY <1>4, <2>3, <2>4
  <2>6. ~(m \in j + 1 .. i)
    <3>1. l = Len(CallsOf(t)[m])
      BY <2>2
    <3> HIDE DEF T
    <3> QED
      BY <1>2, <2>5, <3>1 DEF LastAt
  <2>7. j \in 1 .. i
    BY DEF LastAt
  <2> QED
    BY <1>1, <2>1, <2>6, <2>7
<1>6. T \in SUBSET Nat
  BY <1>1
<1> HIDE DEF T
<1>7. Max(T) = j
  BY <1>3, <1>5, <1>6, MaxIs
<1> QED
  BY <1>7 DEF T

\* The frames of stackTrace are the active calls, innermost first: the rows
\* of the query are the depths from cur_depth down to 1, and the step of a row
\* is the last one the call at that depth has made.
LEMMA FramesAre ==
    ASSUME steps \in Seq(Stmts), Execution(steps), cur_step \in 1 .. Len(steps),
           cur_depth \in 1 .. Len(CallsOf(steps)[cur_step])
    PROVE  /\ DOMAIN FrameSteps = 1 .. cur_depth
           /\ \A k \in 1 .. cur_depth :
                 LastAt(steps, cur_step, cur_depth - k + 1, FrameSteps[k])
<1>1. PICK t, i, c : t = steps /\ i = cur_step /\ c = cur_depth
  OBVIOUS
<1>2. t \in Seq(Stmts) /\ Execution(t) /\ i \in 1 .. Len(t) /\ c \in 1 .. Len(CallsOf(t)[i])
  BY <1>1
<1>3. Len(t) \in Nat /\ i \in Nat /\ i \in 0 .. Len(t)
  BY <1>2
<1>4. Len(CallsOf(t)[i]) \in Nat
  BY <1>2, <1>3, StacksOf
<1>5. c \in Nat /\ c >= 1 /\ c <= Len(CallsOf(t)[i])
  BY <1>2, <1>4
<1>6. \A m \in 1 .. i : /\ DepthOf(t, m) = Len(CallsOf(t)[m])
                        /\ DepthOf(t, m) \in Nat /\ DepthOf(t, m) >= 1
  <2> TAKE m \in 1 .. i
  <2>1. m \in 1 .. Len(t) /\ m \in 0 .. Len(t)
    BY <1>3, <1>2
  <2> QED
    BY <1>2, <2>1, DepthIsCalls, StacksOf
<1>7. \A d \in 1 .. c : \E j \in 1 .. i : LastAt(t, i, d, j)
  <2> TAKE d \in 1 .. c
  <2>1. d \in 1 .. Len(CallsOf(t)[i])
    BY <1>4, <1>5
  <2> QED
    BY <1>2, <2>1, LastAtDepth
<1>8. FrameDepths = 1 .. c
  <2>1. FrameDepths = {DepthOf(t, m) : m \in 1 .. i} \cap 0 .. c
    BY <1>1 DEF FrameDepths, Depth
  <2>2. ASSUME NEW d \in 1 .. c
        PROVE  d \in FrameDepths
    <3>1. PICK j \in 1 .. i : LastAt(t, i, d, j)
      BY <1>7
    <3>2. DepthOf(t, j) = d
      BY <1>6, <3>1 DEF LastAt
    <3>3. d \in 0 .. c
      BY <1>5
    <3> QED
      BY <2>1, <3>2, <3>3
  <2>3. ASSUME NEW d \in FrameDepths
        PROVE  d \in 1 .. c
    BY <1>5, <1>6, <2>1
  <2> QED
    BY <2>2, <2>3
<1>9. ASSUME NEW d \in 1 .. c
      PROVE  Cardinality({e \in 1 .. c : e >= d}) = c - d + 1
  <2>1. {e \in 1 .. c : e >= d} = d .. c
    BY <1>5
  <2>2. d \in Int /\ c \in Int /\ ~(d > c)
    BY <1>5
  <2>3. Cardinality(d .. c) = c - d + 1
    BY <2>2, FS_Interval
  <2> QED
    BY <2>1, <2>3
<1> DEFINE Rows(k) == {m \in 1 .. i : /\ DepthOf(t, m) \in 1 .. c
                                      /\ Cardinality({e \in 1 .. c : e >= DepthOf(t, m)}) = k}
<1>10. FrameSteps = [k \in 1 .. c |-> Max(Rows(k))]
  <2>1. Cardinality(1 .. c) = c
    <3>1. 1 \in Int /\ c \in Int /\ ~(1 > c) /\ c - 1 + 1 = c
      BY <1>5
    <3> QED
      BY <3>1, FS_Interval
  <2>2. FrameSteps = [k \in 1 .. Cardinality(1 .. c) |-> Max(Rows(k))]
    BY <1>1, <1>8 DEF FrameSteps, Depth
  <2> QED
    BY <2>1, <2>2
<1>11. ASSUME NEW k \in 1 .. c
       PROVE  LastAt(t, i, c - k + 1, FrameSteps[k])
  <2>1. PICK d \in 1 .. c : d = c - k + 1
    BY <1>5
  <2>2. PICK j \in 1 .. i : LastAt(t, i, d, j)
    BY <1>7
  <2>3. j \in Rows(k)
    <3>1. DepthOf(t, j) = d
      BY <1>6, <2>2 DEF LastAt
    <3>2. c - d + 1 = k
      BY <1>5, <2>1
    <3> QED
      BY <1>9, <3>1, <3>2
  <2>4. ASSUME NEW m \in Rows(k)
        PROVE  m <= j
    <3>1. m \in 1 .. i /\ DepthOf(t, m) \in 1 .. c /\ c - DepthOf(t, m) + 1 = k
      BY <1>9
    <3>2. PICK e \in 1 .. c : e = DepthOf(t, m) /\ c - e + 1 = k
      BY <3>1
    <3>3. e = d
      BY <1>5, <2>1, <3>2
    <3>4. Len(CallsOf(t)[m]) = d
      BY <1>6, <3>1, <3>2, <3>3
    <3>5. ~(m \in j + 1 .. i)
      <4>1. d \in Nat /\ ~(d > d)
        BY <1>5
      <4> HIDE DEF Rows
      <4> QED
        BY <2>2, <3>4, <4>1 DEF LastAt
    <3> QED
      BY <1>3, <3>1, <3>5
  <2>5. Rows(k) \in SUBSET Nat
    BY <1>3
  <2> HIDE DEF Rows
  <2>6. Max(Rows(k)) = j
    BY <2>3, <2>4, <2>5, MaxIs
  <2> QED
    BY <1>10, <2>1, <2>2, <2>6
<1> HIDE DEF Rows
<1>12. DOMAIN FrameSteps = 1 .. c
  BY <1>10
<1> QED
  BY <1>1, <1>11, <1>12

-----------------------------------------------------------------------------
(***************************************************************************)
(* The invariant of the server.                                            *)
(***************************************************************************)

\* A launched session has a recording open, with steps in it.
Opened == Running => recording \in Recordings /\ steps # <<>>

\* The nodes of the frame list.
Frame == [id : Nat, step : Nat, scope : Nat]
FramesTyped == frame_list \in Seq(Frame)

\* Only a launched session has told the IDE of frames.
NothingListed == ~Running => listed = {}

\* The frames listed are at the head of the list, in the order of their ids
\* and without gaps: no frame left from before comes between them.
ListedInOrder ==
    \A id \in listed :
        /\ id \in Nat /\ id + 1 <= Len(frame_list)
        /\ \A k \in 1 .. id + 1 : frame_list[k].id = k - 1
        /\ 0 \in listed => \A k \in 1 .. id + 1 : k - 1 \in listed

\* The reference of the locals is the scope of the frame it was asked for.
AskedIs ==
    asked # NoFrame /\ asked.id \in listed => asked.scope = frame_list[asked.id + 1].scope

ExamineInv ==
    /\ TypeOK /\ FramesTyped
    /\ Opened /\ PositionCoherent
    /\ NothingListed /\ ListedInOrder /\ ListedFramesExact
    /\ AskedIs /\ LocalsOfFrameNoRecursion

\* The server is ready: nothing is open and nothing listed.
LEMMA InitExamine == Init => ExamineInv
<1> SUFFICES ASSUME Init PROVE ExamineInv
  OBVIOUS
<1>1. recording.steps = <<>> /\ recording.signal = 0
  BY DEF Init, Closed
<1>2. <<>> \in Seq(Stmts) /\ frame_list = <<>> /\ frame_list \in Seq(Frame) /\ DOMAIN frame_list = {}
  BY DEF Init
<1>3. asked \in [id : Nat, scope : Nat]
  BY DEF Init, NoFrame
<1>4. TypeOK
  <2>1. recording.steps \in Seq(Stmts) /\ recording.signal \in Nat
    BY <1>1, <1>2
  <2>2. /\ conn \in {"accept", "connected", "launched"}
        /\ cur_step \in Nat /\ cur_line \in Nat /\ cur_depth \in Nat /\ signum \in Nat
        /\ breakpoint \subseteq Nat \X Nat
        /\ listed \subseteq Nat /\ located \in Nat
    BY DEF Init
  <2>3. stop_on_entry \in BOOLEAN /\ addbr_failed \in BOOLEAN
    BY Zenon DEF Init
  <2>4. reply.success \in BOOLEAN /\ reply.event \in Events
    BY DEF Init, Events
  <2>5. \A k \in DOMAIN frame_list : frame_list[k] \in [id : Nat, step : Nat, scope : Nat]
    BY <1>2
  <2> QED
    BY <1>3, <2>1, <2>2, <2>3, <2>4, <2>5 DEF TypeOK
<1>5. conn # "launched" /\ listed = {} /\ located = 0 /\ asked = NoFrame
  BY DEF Init
<1> QED
  BY <1>2, <1>4, <1>5 DEF ExamineInv, FramesTyped, Opened, PositionCoherent, Running,
     NothingListed, ListedInOrder, ListedFramesExact, AskedIs, LocalsOfFrameNoRecursion

\* The columns of the row of a recorded step.
LEMMA RowOf ==
    ASSUME NEW t \in Seq(Stmts), NEW i \in 1 .. Len(t)
    PROVE  /\ Info[t[i]].line \in Nat /\ Info[t[i]].file \in Nat
           /\ Info[t[i]].scope \in Nat \ {0} /\ Info[t[i]].scope \in Nat
<1>1. t[i] \in Stmts
  OBVIOUS
<1>2. Info[t[i]] \in Row
  BY <1>1, InfoAssumption
<1> QED
  BY <1>2 DEF Row

\* What a running session knows of its recording.
LEMMA RunningFacts ==
    ASSUME TypeOK, Opened, PositionCoherent, Running
    PROVE  /\ steps \in Seq(Stmts) /\ Execution(steps)
           /\ Len(steps) \in Nat /\ Len(steps) >= 1
           /\ cur_step \in 1 .. Len(steps)
           /\ \A i \in 1 .. Len(steps) :
                 /\ Depth(i) = Len(CallsOf(steps)[i])
                 /\ Depth(i) \in Nat /\ Depth(i) >= 1
           /\ Depth(1) = 1
           /\ cur_depth \in 1 .. Len(CallsOf(steps)[cur_step])
<1>1. steps \in Seq(Stmts) /\ Execution(steps) /\ steps # <<>>
  BY RecordingAssumption DEF Opened, steps
<1>2. Len(steps) \in Nat /\ Len(steps) >= 1
  BY <1>1
<1>3. cur_step \in 1 .. Len(steps)
  BY DEF PositionCoherent
<1>4. PICK t : t = steps
  OBVIOUS
<1>5. \A i \in 1 .. Len(t) : DepthOf(t, i) = Len(CallsOf(t)[i]) /\ DepthOf(t, i) \in Nat
                             /\ DepthOf(t, i) >= 1
  <2>1. \A i \in 1 .. Len(t) : i \in 0 .. Len(t)
    BY <1>2, <1>4
  <2> QED
    BY <1>1, <1>4, <2>1, DepthIsCalls, StacksOf
<1>6. DepthOf(t, 1) = 1
  <2>1. 0 \in 0 .. Len(t) - 1 /\ 1 \in 1 .. Len(t) /\ 0 + 1 = 1
    BY <1>2, <1>4
  <2>2. PICK a, b : a = CallsOf(t)[0] /\ b = CallsOf(t)[1]
    OBVIOUS
  <2>3. Stepped(t, 0, a, b)
    BY <1>1, <1>4, <2>1, <2>2, StackStep
  <2>4. Info[t[1]].flag = "START"
    BY <1>1, <1>4, <2>1 DEF Execution
  <2>5. Len(a) = 0
    BY <1>1, <1>4, <2>2, StacksOf
  <2>6. Len(b) = 0 + 1 - 0
    BY <2>3, <2>4, <2>5 DEF Stepped
  <2>7. DepthOf(t, 1) = Len(b)
    BY <1>5, <2>1, <2>2
  <2> QED
    BY <2>6, <2>7
<1>7. cur_depth \in 1 .. Len(CallsOf(steps)[cur_step])
  <2>1. cur_depth = Depth(cur_step) \/ cur_depth = 1
    BY DEF PositionCoherent
  <2>2. Depth(cur_step) \in Nat /\ Depth(cur_step) >= 1
        /\ Len(CallsOf(steps)[cur_step]) = Depth(cur_step)
    BY <1>3, <1>4, <1>5 DEF Depth
  <2> QED
    BY <2>1, <2>2
<1> QED
  BY <1>1, <1>2, <1>3, <1>4, <1>5, <1>6, <1>7 DEF Depth

-----------------------------------------------------------------------------
(***************************************************************************)
(* Movements.                                                              *)
(***************************************************************************)

\* The position after a movement: where it was, a step with its depth, or
\* the end of the program.
NewPosition ==
    \/ UNCHANGED position
    \/ \E i \in 1 .. Len(steps) : MoveTo(i, Depth(i))
    \/ SetLastStep

ReplyTyped == reply'.success \in BOOLEAN /\ reply'.event \in Events

Moved ==
    /\ Running /\ NewPosition /\ Forget /\ ReplyTyped
    /\ UNCHANGED <<recording, conn, session, frame_list>>

Quiet ==
    /\ Running /\ ReplyTyped
    /\ UNCHANGED <<recording, conn, position, session, frame_list, ide>>

\* An answer is typed.
LEMMA AnswerTyped ==
    ASSUME NEW c, NEW s \in BOOLEAN, NEW e \in Events, Answer(c, s, e)
    PROVE  ReplyTyped
  BY DEF Answer, ReplyTyped

\* Every request that moves either moves to a step of the recording or
\* leaves the position alone.
LEMMA MovementKinds ==
    ASSUME TypeOK, Opened, PositionCoherent, Movement
    PROVE  Moved \/ Quiet
<1> USE DEF Events
<1>1. Running
  BY DEF Movement, Next_, StepIn, StepOut, StepOutOfMain, StepBack, Continue,
         ConfigurationDone, ReverseContinue
<1>2. /\ Len(steps) \in Nat /\ Len(steps) >= 1 /\ cur_step \in 1 .. Len(steps)
      /\ Depth(1) = 1
  BY <1>1, RunningFacts
<1>3. PICK n \in Nat : n = Len(steps) /\ cur_step \in 1 .. n /\ n >= 1
  BY <1>2
<1>4. ASSUME NEW c, NEW found \in BOOLEAN, NEW i, found => i \in 1 .. n, Stop(c, found, i)
      PROVE  Moved
  <2>1. NewPosition
    BY <1>3, <1>4 DEF Stop, NewPosition
  <2>2. ReplyTyped
    <3>1. CASE found
      BY <1>4, <3>1, AnswerTyped DEF Stop
    <3>2. CASE ~found
      <4>1. (IF signum # 0 THEN "exception" ELSE "terminated") \in Events
        OBVIOUS
      <4> QED
        BY <1>4, <3>2, <4>1, AnswerTyped DEF Stop
    <3> QED
      BY <3>1, <3>2
  <2> QED
    BY <1>1, <1>4, <2>1, <2>2 DEF Stop, Moved
<1>5. ASSUME NEW c, ContinueTo(c)
      PROVE  Moved
  <2>1. Onward(cur_step) \in SUBSET (1 .. n) /\ Onward(cur_step) \in SUBSET Nat
    BY <1>3 DEF Onward, Breaks
  <2>2. NewPosition
    <3>1. CASE Onward(cur_step) # {}
      <4>1. Min(Onward(cur_step)) \in 1 .. n
        BY <2>1, <3>1, MinOf
      <4> QED
        BY <1>3, <1>5, <3>1, <4>1 DEF ContinueTo, NewPosition
    <3>2. CASE Onward(cur_step) = {}
      BY <1>5, <3>2 DEF ContinueTo, NewPosition
    <3> QED
      BY <3>1, <3>2
  <2>3. ReplyTyped
    <3>1. (IF signum # 0 THEN "exception" ELSE "exit") \in Events
      OBVIOUS
    <3> QED
      BY <1>5, <3>1, AnswerTyped DEF ContinueTo
  <2> QED
    BY <1>1, <1>5, <2>2, <2>3 DEF ContinueTo, Moved
<1>6. CASE Next_
  <2> DEFINE rows == {i \in OverCalls : i > cur_step}
  <2>1. rows \in SUBSET (1 .. n) /\ rows \in SUBSET Nat
    BY <1>3 DEF OverCalls
  <2>2. Stop("next", rows # {}, Min(rows))
    BY <1>6 DEF Next_
  <2> HIDE DEF rows
  <2>3. rows # {} => Min(rows) \in 1 .. n
    BY <2>1, MinOf
  <2> QED
    BY <1>4, <2>2, <2>3
<1>7. CASE StepIn
  <2>1. cur_step < Len(steps) => cur_step + 1 \in 1 .. n
    BY <1>3
  <2>2. (cur_step < Len(steps)) \in BOOLEAN
    OBVIOUS
  <2> QED
    BY <1>4, <1>7, <2>1, <2>2 DEF StepIn
<1>8. CASE StepOut
  <2> DEFINE rows == {i \in cur_step + 1 .. Len(steps) : Depth(i) < cur_depth}
  <2>1. rows \in SUBSET (1 .. n) /\ rows \in SUBSET Nat
    BY <1>3
  <2>2. Stop("stepOut", rows # {}, Min(rows))
    BY <1>8 DEF StepOut
  <2> HIDE DEF rows
  <2>3. rows # {} => Min(rows) \in 1 .. n
    BY <2>1, MinOf
  <2> QED
    BY <1>4, <2>2, <2>3
<1>9. CASE StepOutOfMain
  BY <1>1, <1>9, AnswerTyped DEF StepOutOfMain, Quiet
<1>10. CASE StepBack
  <2> DEFINE rows == {i \in OverCalls : i < cur_step}
  <2>1. rows \in SUBSET (0 .. n) /\ rows \in SUBSET (1 .. n)
    BY <1>3 DEF OverCalls
  <2>2. rows # {} => Max(rows) \in 1 .. n
    BY <2>1, MaxOf
  <2>3. NewPosition
    BY <1>3, <1>10, <2>2 DEF StepBack, NewPosition
  <2>4. ReplyTyped
    BY <1>10, AnswerTyped DEF StepBack
  <2> QED
    BY <1>1, <1>10, <2>3, <2>4 DEF StepBack, Moved
<1>11. CASE Continue
  BY <1>5, <1>11 DEF Continue
<1>12. CASE ConfigurationDone
  BY <1>1, <1>5, <1>12, AnswerTyped DEF ConfigurationDone, Quiet
<1>13. CASE ReverseContinue
  <2>1. Back(cur_step) \in SUBSET (0 .. n) /\ Back(cur_step) \in SUBSET (1 .. n)
    BY <1>3 DEF Back, Breaks
  <2>2. NewPosition
    <3>1. CASE Back(cur_step) # {}
      <4>1. Max(Back(cur_step)) \in 1 .. n
        BY <2>1, <3>1, MaxOf
      <4> QED
        BY <1>3, <1>13, <3>1, <4>1 DEF ReverseContinue, NewPosition
    <3>2. CASE Back(cur_step) = {}
      <4>1. MoveTo(1, Depth(1)) /\ 1 \in 1 .. Len(steps)
        BY <1>2, <1>3, <1>13, <3>2 DEF ReverseContinue, SetFirstStep, MoveTo
      <4> QED
        BY <4>1 DEF NewPosition
    <3> QED
      BY <3>1, <3>2
  <2>3. ReplyTyped
    BY <1>13, AnswerTyped DEF ReverseContinue
  <2> QED
    BY <1>1, <1>13, <2>2, <2>3 DEF ReverseContinue, Moved
<1> QED
  BY <1>6, <1>7, <1>8, <1>9, <1>10, <1>11, <1>12, <1>13 DEF Movement

-----------------------------------------------------------------------------
(***************************************************************************)
(* The frame list.                                                         *)
(***************************************************************************)

\* A part of a list of frames, and a list overwritten from its head.
LEMMA OverwriteIs ==
    ASSUME FramesTyped, NEW new \in Seq(Frame)
    PROVE  /\ Overwrite(new) \in Seq(Frame)
           /\ Len(new) <= Len(Overwrite(new))
           /\ \A k \in 1 .. Len(new) : Overwrite(new)[k] = new[k]
<1>1. PICK f \in Seq(Frame), m \in Nat, n \in Nat, a \in Nat :
         f = frame_list /\ m = Len(new) + 1 /\ n = Len(f) /\ a = Len(new)
  BY DEF FramesTyped
<1>2. \A i \in m .. n : f[i] \in Frame
  BY <1>1
<1>3. PICK rest : rest = SubSeq(f, m, n) /\ rest \in Seq(Frame)
  <2>1. SubSeq(f, m, n) \in Seq(Frame)
    BY <1>2, SubSeqProperties
  <2> QED
    BY <2>1
<1>4. Overwrite(new) = new \o rest
  BY <1>1, <1>3 DEF Overwrite
<1>5. /\ new \o rest \in Seq(Frame) /\ Len(new \o rest) = Len(new) + Len(rest)
      /\ \A k \in 1 .. Len(new) : (new \o rest)[k] = new[k]
  BY <1>3
<1>6. Len(rest) \in Nat /\ Len(new) \in Nat
  BY <1>3
<1> QED
  BY <1>4, <1>5, <1>6

\* What stackTrace lists: one frame for every active call down to main().
LEMMA FramesOf ==
    ASSUME TypeOK, Opened, PositionCoherent, Running
    PROVE  /\ Frames \in Seq(Frame) /\ Len(Frames) = cur_depth /\ cur_depth \in Nat
           /\ \A k \in 1 .. cur_depth :
                 /\ Frames[k].id = k - 1
                 /\ Frames[k].step = FrameSteps[k]
                 /\ LastAt(steps, cur_step, cur_depth - k + 1, FrameSteps[k])
<1>1. /\ steps \in Seq(Stmts) /\ Execution(steps) /\ cur_step \in 1 .. Len(steps)
      /\ cur_depth \in 1 .. Len(CallsOf(steps)[cur_step])
  BY RunningFacts
<1>2. /\ DOMAIN FrameSteps = 1 .. cur_depth
      /\ \A k \in 1 .. cur_depth : LastAt(steps, cur_step, cur_depth - k + 1, FrameSteps[k])
  BY <1>1, FramesAre
<1>3. cur_depth \in Nat
  BY DEF TypeOK
<1>4. PICK c, i, t, fs :
         c = cur_depth /\ i = cur_step /\ t = steps /\ fs = FrameSteps /\ c \in Nat
  BY <1>3
<1>5. ASSUME NEW k \in 1 .. c
      PROVE  fs[k] \in 1 .. Len(t) /\ fs[k] \in Nat /\ Info[t[fs[k]]].scope \in Nat
  <2>1. fs[k] \in 1 .. i
    BY <1>2, <1>4 DEF LastAt
  <2>2. fs[k] \in 1 .. Len(t)
    BY <1>1, <1>4, <2>1
  <2> QED
    BY <1>1, <1>4, <2>1, <2>2, RowOf
<1>6. Frames = [k \in 1 .. c |-> [id |-> k - 1, step |-> fs[k], scope |-> Info[t[fs[k]]].scope]]
  BY <1>2, <1>4 DEF Frames, StmtOf
<1>7. \A k \in 1 .. c :
         /\ Frames[k] = [id |-> k - 1, step |-> fs[k], scope |-> Info[t[fs[k]]].scope]
         /\ Frames[k] \in Frame
  BY <1>5, <1>6 DEF Frame
<1>8. Frames \in [1 .. c -> Frame]
  <2>1. Frames = [k \in 1 .. c |-> Frames[k]]
    BY <1>6
  <2> QED
    BY <1>7, <2>1
<1>9. Frames \in Seq(Frame) /\ Len(Frames) = c
  BY <1>4, <1>8
<1>10. \A k \in 1 .. c : Frames[k].id = k - 1 /\ Frames[k].step = fs[k]
  <2> TAKE k \in 1 .. c
  <2>1. PICK x, y, z : x = k - 1 /\ y = fs[k] /\ z = Info[t[fs[k]]].scope
    OBVIOUS
  <2>2. Frames[k] = [id |-> x, step |-> y, scope |-> z]
    BY <1>7, <2>1
  <2>3. Frames[k].id = x /\ Frames[k].step = y
    BY <2>2
  <2> QED
    BY <2>1, <2>3
<1> QED
  BY <1>2, <1>3, <1>4, <1>9, <1>10

\* After stackTrace the list holds the frames the IDE is told of, whatever it
\* held before.
LEMMA StackTraceFrames ==
    ASSUME TypeOK, FramesTyped, Opened, PositionCoherent,
           NEW r \in StackRequests, StackTrace(r)
    PROVE  /\ FramesTyped' /\ ListedInOrder' /\ ListedFramesExact'
           /\ listed' \subseteq Nat
<1> USE DEF Frame
<1>1. /\ Running
      /\ recording' = recording /\ conn' = conn /\ position' = position
  <2>1. Running
    BY DEF StackTrace
  <2>2. UNCHANGED <<recording, conn, position, session>>
    BY DEF StackTrace
  <2> QED
    BY <2>1, <2>2
<1>2. r.start \in Nat /\ r.levels \in Nat
  BY RequestAssumption
<1>3. PICK new, c : new = Frames /\ c = cur_depth
  OBVIOUS
<1>4. /\ new \in Seq(Frame) /\ Len(new) = c /\ c \in Nat
      /\ \A k \in 1 .. c :
            /\ new[k].id = k - 1
            /\ new[k].step = FrameSteps[k]
            /\ LastAt(steps, cur_step, c - k + 1, FrameSteps[k])
  BY <1>1, <1>3, FramesOf
<1>5. PICK limit \in Nat : limit = r.start + r.levels
  BY <1>2
<1> HIDE DEF Frame
<1>6. CASE c <= limit
  <2>1. frame_list' = Overwrite(new) /\ listed' = r.start .. c - 1
    BY <1>3, <1>4, <1>5, <1>6 DEF StackTrace
  <2>2. /\ frame_list' \in Seq(Frame) /\ c <= Len(frame_list')
        /\ \A k \in 1 .. c : frame_list'[k] = new[k]
    BY <1>4, <2>1, OverwriteIs
  <2>3. listed' \subseteq Nat
    BY <1>2, <1>4, <2>1
  <2>4. Len(frame_list') \in Nat
    BY <2>2
  <2>5. ASSUME NEW id \in listed'
        PROVE  /\ id \in Nat /\ id < c /\ id + 1 <= Len(frame_list')
               /\ id + 1 \in 1 .. c
               /\ \A k \in 1 .. id + 1 : k \in 1 .. c
               /\ \A k \in 1 .. id + 1 : frame_list'[k].id = k - 1
               /\ 0 \in listed' => \A k \in 1 .. id + 1 : k - 1 \in listed'
    <3>1. id \in Nat /\ id < c /\ id >= r.start
      BY <1>2, <1>4, <2>1
    <3>2. id + 1 <= Len(frame_list') /\ id + 1 \in 1 .. c
      BY <1>4, <2>2, <2>4, <3>1
    <3>3. \A k \in 1 .. id + 1 : k \in 1 .. c
      BY <1>4, <3>1
    <3>4. \A k \in 1 .. id + 1 : frame_list'[k].id = k - 1
      BY <1>4, <2>2, <3>3
    <3>5. 0 \in listed' => \A k \in 1 .. id + 1 : k - 1 \in listed'
      BY <1>2, <1>4, <2>1, <3>1
    <3> QED
      BY <3>1, <3>2, <3>3, <3>4, <3>5
  <2>6. ListedInOrder'
    BY <2>5 DEF ListedInOrder
  <2>7. ListedFramesExact'
    <3>1. PICK t, i : t = steps /\ i = cur_step /\ t = steps' /\ i = cur_step'
                      /\ c = cur_depth /\ c = cur_depth'
      BY <1>1, <1>3 DEF position, steps
    <3>2. /\ t \in Seq(Stmts) /\ Execution(t) /\ i \in 1 .. Len(t)
          /\ c \in 1 .. Len(CallsOf(t)[i])
          /\ DepthOf(t, i) = Len(CallsOf(t)[i])
      BY <1>1, <3>1, RunningFacts DEF Depth
    <3>3. SUFFICES ASSUME c = DepthOf(t, i), NEW id \in listed'
                   PROVE  /\ id < Len(CallsOf(t)[i])
                          /\ frame_list'[id + 1].id = id
                          /\ frame_list'[id + 1].step =
                                Max({j \in 1 .. i : Last(CallsOf(t)[j]) =
                                          CallsOf(t)[i][Len(CallsOf(t)[i]) - id]})
      BY <3>1 DEF ListedFramesExact, LastStepIn, Call, Depth
    <3>4. id \in Nat /\ id < c /\ id + 1 \in 1 .. c /\ Len(CallsOf(t)[i]) = c
      BY <2>5, <3>2, <3>3
    <3>5. PICK d \in 1 .. c : d = c - id /\ c - (id + 1) + 1 = d
      BY <1>4, <3>4
    <3>6. frame_list'[id + 1] = new[id + 1] /\ new[id + 1].id = (id + 1) - 1 /\ (id + 1) - 1 = id
      BY <1>4, <2>2, <3>4
    <3>7. LastAt(t, i, d, new[id + 1].step)
      BY <1>4, <3>1, <3>4, <3>5
    <3>8. Max({j \in 1 .. i : Last(CallsOf(t)[j]) = CallsOf(t)[i][d]}) = new[id + 1].step
      BY <3>2, <3>4, <3>7, LastStepIs
    <3> QED
      BY <3>4, <3>5, <3>6, <3>8
  <2> QED
    BY <2>2, <2>3, <2>6, <2>7 DEF FramesTyped
<1>7. CASE ~(c <= limit)
  <2>1. PICK m \in Nat : m = limit + 1 /\ m <= c
    BY <1>4, <1>7
  <2>2. frame_list' = Overwrite(SubSeq(new, 1, m)) /\ listed' = {}
    BY <1>3, <1>4, <1>5, <1>7, <2>1 DEF StackTrace
  <2>3. SubSeq(new, 1, m) \in Seq(Frame)
    <3>1. \A i \in 1 .. m : new[i] \in Frame
      BY <1>4, <2>1
    <3> QED
      BY <3>1, SubSeqProperties
  <2>4. frame_list' \in Seq(Frame)
    BY <2>2, <2>3, OverwriteIs
  <2> QED
    BY <2>2, <2>4 DEF FramesTyped, ListedInOrder, ListedFramesExact
<1> QED
  BY <1>6, <1>7

-----------------------------------------------------------------------------
(***************************************************************************)
(* Every request keeps the invariant.                                      *)
(***************************************************************************)

\* The first frame of a lookup.
LEMMA FirstFrameOf ==
    ASSUME FramesTyped, NEW ks \in SUBSET DOMAIN frame_list, ks # {}
    PROVE  /\ Min(ks) \in ks /\ Min(ks) \in 1 .. Len(frame_list) /\ Min(ks) \in Nat
           /\ \A k \in ks : Min(ks) <= k
           /\ FirstFrame(ks) = frame_list[Min(ks)]
           /\ FirstFrame(ks) \in Frame
           /\ FirstFrame(ks).step \in Nat /\ FirstFrame(ks).scope \in Nat
<1>1. DOMAIN frame_list = 1 .. Len(frame_list) /\ Len(frame_list) \in Nat
  BY DEF FramesTyped
<1>2. ks \in SUBSET Nat
  BY <1>1
<1>3. Min(ks) \in ks /\ \A k \in ks : Min(ks) <= k
  BY <1>2, MinOf
<1>4. Min(ks) \in 1 .. Len(frame_list) /\ Min(ks) \in Nat
  BY <1>1, <1>3
<1>5. frame_list[Min(ks)] \in Frame
  BY <1>4 DEF FramesTyped
<1>6. FirstFrame(ks) = frame_list[Min(ks)]
  BY DEF FirstFrame
<1>7. FirstFrame(ks).step \in Nat /\ FirstFrame(ks).scope \in Nat
  BY <1>5, <1>6 DEF Frame
<1> QED
  BY <1>3, <1>4, <1>5, <1>6, <1>7

\* A step that moves keeps file, line and depth together.
LEMMA MovedPosition ==
    ASSUME TypeOK, Opened, PositionCoherent, Moved
    PROVE  /\ cur_step' \in Nat /\ cur_line' \in Nat /\ cur_depth' \in Nat
           /\ PositionCoherent'
<1>1. Running /\ recording' = recording /\ conn' = conn /\ NewPosition
  BY DEF Moved
<1>2. PICK t, n : t = steps /\ t = steps' /\ n = Len(t)
  BY <1>1 DEF steps
<1>3. /\ t \in Seq(Stmts) /\ n \in Nat /\ n >= 1 /\ cur_step \in 1 .. n
      /\ \A i \in 1 .. n : DepthOf(t, i) \in Nat
  BY <1>1, <1>2, RunningFacts DEF Depth
<1>4. SUFFICES /\ cur_step' \in 1 .. n /\ cur_line' \in Nat /\ cur_depth' \in Nat
               /\ cur_file' = Info[t[cur_step']].name
               /\ cur_line' = Info[t[cur_step']].line
               /\ cur_depth' = DepthOf(t, cur_step') \/ (cur_step' = n /\ cur_depth' = 1)
  BY <1>2, <1>3 DEF PositionCoherent, Here, At, AtOf, Depth
<1>5. ASSUME NEW i \in 1 .. n, NEW d \in Nat, MoveIn(t, i, d),
             d = DepthOf(t, i) \/ (i = n /\ d = 1)
      PROVE  /\ cur_step' \in 1 .. n /\ cur_line' \in Nat /\ cur_depth' \in Nat
             /\ cur_file' = Info[t[cur_step']].name
             /\ cur_line' = Info[t[cur_step']].line
             /\ cur_depth' = DepthOf(t, cur_step') \/ (cur_step' = n /\ cur_depth' = 1)
  <2>1. Info[t[i]].line \in Nat
    BY <1>2, <1>3, RowOf
  <2>2. cur_step' = i /\ cur_file' = Info[t[i]].name /\ cur_line' = Info[t[i]].line
        /\ cur_depth' = d
    BY <1>5 DEF MoveIn, AtOf
  <2> QED
    BY <1>5, <2>1, <2>2
<1>6. CASE UNCHANGED position
  <2>1. /\ cur_step' = cur_step /\ cur_file' = cur_file /\ cur_line' = cur_line
        /\ cur_depth' = cur_depth
    BY <1>6 DEF position
  <2>2. cur_line \in Nat /\ cur_depth \in Nat
    BY DEF TypeOK
  <2>3. /\ cur_file = Info[t[cur_step]].name
        /\ cur_line = Info[t[cur_step]].line
        /\ cur_depth = DepthOf(t, cur_step) \/ (cur_step = n /\ cur_depth = 1)
    BY <1>1, <1>2 DEF PositionCoherent, Here, At, AtOf, Depth
  <2> QED
    BY <1>3, <2>1, <2>2, <2>3
<1>7. CASE \E i \in 1 .. Len(steps) : MoveTo(i, Depth(i))
  <2>1. PICK i \in 1 .. n : MoveIn(t, i, DepthOf(t, i))
    BY <1>2, <1>7 DEF MoveTo, Depth
  <2> QED
    BY <1>3, <1>5, <2>1
<1>8. CASE SetLastStep
  <2>1. MoveIn(t, n, 1) /\ n \in 1 .. n
    BY <1>2, <1>3, <1>8 DEF SetLastStep, MoveTo
  <2> QED
    BY <1>5, <2>1
<1> QED
  BY <1>1, <1>6, <1>7, <1>8 DEF NewPosition

\* next, stepIn, stepOut, stepBack, continue and reverseContinue.
LEMMA MovedKeeps ==
    ASSUME ExamineInv, Moved
    PROVE  ExamineInv'
<1> USE DEF ExamineInv
<1>1. /\ recording' = recording /\ conn' = conn /\ frame_list' = frame_list
      /\ signum' = signum /\ stop_on_entry' = stop_on_entry
      /\ breakpoint' = breakpoint /\ addbr_failed' = addbr_failed
      /\ Running /\ ReplyTyped
      /\ listed' = {} /\ asked' = NoFrame /\ located' = 0
  BY DEF Moved, Forget, session
<1>2. /\ cur_step' \in Nat /\ cur_line' \in Nat /\ cur_depth' \in Nat
      /\ PositionCoherent'
  BY MovedPosition
<1>3. NoFrame \in [id : Nat, scope : Nat] /\ {} \subseteq Nat /\ 0 \in Nat
  BY DEF NoFrame
<1>4. TypeOK'
  BY <1>1, <1>2, <1>3 DEF TypeOK, ReplyTyped
<1>5. FramesTyped' /\ Opened'
  BY <1>1 DEF FramesTyped, Opened, Running, steps
<1>6. NothingListed' /\ ListedInOrder' /\ ListedFramesExact' /\ AskedIs'
      /\ LocalsOfFrameNoRecursion'
  BY <1>1 DEF NothingListed, ListedInOrder, ListedFramesExact, AskedIs,
              LocalsOfFrameNoRecursion
<1> QED
  BY <1>2, <1>4, <1>5, <1>6

\* ListedFramesExact in terms of the values it depends on.
ExactAt(t, i, list, ids) ==
    \A id \in ids :
        /\ id < Len(CallsOf(t)[i])
        /\ list[id + 1].id = id
        /\ list[id + 1].step =
              Max({j \in 1 .. i : Last(CallsOf(t)[j]) = CallsOf(t)[i][Len(CallsOf(t)[i]) - id]})

\* Frames stay exact while position and list stay.
LEMMA FramesStayExact ==
    ASSUME ListedFramesExact, recording' = recording, conn' = conn, cur_step' = cur_step,
           cur_depth' = cur_depth, frame_list' = frame_list, listed' = listed
    PROVE  ListedFramesExact'
<1>1. Running /\ cur_depth = DepthOf(steps, cur_step)
      => ExactAt(steps, cur_step, frame_list, listed)
  BY DEF ListedFramesExact, Depth, LastStepIn, Call, ExactAt
<1>2. Running' = Running /\ steps' = steps
  BY DEF Running, steps
<1>3. Running' /\ cur_depth' = DepthOf(steps', cur_step')
      => ExactAt(steps', cur_step', frame_list', listed')
  BY <1>1, <1>2
<1> QED
  BY <1>3 DEF ListedFramesExact, Depth, LastStepIn, Call, ExactAt

\* A request that changes nothing but breakpoints and the answer.
LEMMA SettledKeeps ==
    ASSUME ExamineInv, UNCHANGED <<recording, conn, position, signum, frame_list, ide>>,
           stop_on_entry' \in BOOLEAN, ReplyTyped,
           breakpoint' \subseteq Nat \X Nat, addbr_failed' \in BOOLEAN
    PROVE  ExamineInv'
<1> USE DEF ExamineInv
<1>1. /\ recording' = recording /\ conn' = conn /\ frame_list' = frame_list
      /\ signum' = signum
      /\ cur_step' = cur_step /\ cur_file' = cur_file /\ cur_line' = cur_line
      /\ cur_depth' = cur_depth
      /\ listed' = listed /\ asked' = asked /\ located' = located
  BY DEF position, ide
<1>2. TypeOK'
  BY <1>1 DEF TypeOK, ReplyTyped
<1>3. FramesTyped' /\ Opened' /\ PositionCoherent'
  BY <1>1 DEF FramesTyped, Opened, PositionCoherent, Running, steps, Here, At, Depth
<1>4. NothingListed' /\ ListedInOrder' /\ AskedIs' /\ LocalsOfFrameNoRecursion'
  BY <1>1 DEF NothingListed, ListedInOrder, AskedIs, LocalsOfFrameNoRecursion, Running
<1>5. ListedFramesExact'
  BY <1>1, FramesStayExact
<1> QED
  BY <1>2, <1>3, <1>4, <1>5

\* initialize, launch, disconnect.
LEMMA ConnectionKeeps ==
    ASSUME ExamineInv, Connection
    PROVE  ExamineInv'
<1> USE DEF ExamineInv, Events
<1>1. ASSUME ~Running, ~(conn' = "launched"), frame_list' = frame_list,
             listed' = {}, asked' = asked \/ asked' = NoFrame, located' = located \/ located' = 0,
             recording'.steps \in Seq(Stmts), recording'.signal \in Nat,
             conn' \in {"accept", "connected"},
             UNCHANGED position \/ (cur_step' = 0 /\ cur_line' = 0 /\ cur_depth' = 0),
             signum' \in Nat, stop_on_entry' \in BOOLEAN,
             breakpoint' = breakpoint \/ breakpoint' = {}, addbr_failed' \in BOOLEAN,
             ReplyTyped
      PROVE  ExamineInv'
  <2>1. cur_step' \in Nat /\ cur_line' \in Nat /\ cur_depth' \in Nat
    BY <1>1 DEF TypeOK, position
  <2>2. asked' \in [id : Nat, scope : Nat] /\ located' \in Nat /\ listed' \subseteq Nat
        /\ breakpoint' \subseteq Nat \X Nat
    BY <1>1 DEF TypeOK, NoFrame
  <2>3. \A k \in DOMAIN frame_list' : frame_list'[k] \in [id : Nat, step : Nat, scope : Nat]
    BY <1>1 DEF TypeOK
  <2>4. TypeOK'
    BY <1>1, <2>1, <2>2, <2>3 DEF TypeOK, ReplyTyped
  <2>5. FramesTyped' /\ Opened' /\ PositionCoherent' /\ NothingListed' /\ ListedInOrder'
        /\ ListedFramesExact' /\ AskedIs' /\ LocalsOfFrameNoRecursion'
    BY <1>1 DEF FramesTyped, Opened, PositionCoherent, NothingListed, ListedInOrder,
                ListedFramesExact, AskedIs, LocalsOfFrameNoRecursion, Running
  <2> QED
    BY <2>4, <2>5
<1>2. CASE Initialize
  <2>1. ReplyTyped
    BY <1>2, AnswerTyped DEF Initialize
  <2>2. ~Running /\ conn' = "connected"
    BY <1>2 DEF Initialize, Running
  <2>3. /\ recording' = recording /\ breakpoint' = breakpoint /\ addbr_failed' = addbr_failed
        /\ frame_list' = frame_list
        /\ listed' = listed /\ asked' = asked /\ located' = located
        /\ cur_step' = 0 /\ cur_line' = 0 /\ cur_depth' = 0 /\ signum' = 0
    BY <1>2 DEF Initialize, ide
  <2>4. stop_on_entry' \in BOOLEAN
    BY <1>2, Zenon DEF Initialize
  <2>5. listed' = {} /\ addbr_failed' \in BOOLEAN
    BY <2>2, <2>3 DEF NothingListed, TypeOK
  <2>6. recording'.steps \in Seq(Stmts) /\ recording'.signal \in Nat
    BY <2>3 DEF TypeOK
  <2>7. ~(conn' = "launched") /\ conn' \in {"accept", "connected"} /\ signum' \in Nat
    BY <2>2, <2>3
  <2> QED
    BY <1>1, <2>1, <2>2, <2>3, <2>4, <2>5, <2>6, <2>7
<1>3. ASSUME NEW r \in Recordings, Launch(r)
      PROVE  ExamineInv'
  <2>1. /\ ~Running /\ recording' = r /\ stop_on_entry' \in BOOLEAN /\ signum' = r.signal
        /\ breakpoint' = breakpoint /\ addbr_failed' = addbr_failed
        /\ frame_list' = frame_list
        /\ listed' = listed /\ asked' = asked /\ located' = located
    BY <1>3 DEF Launch, Running, ide
  <2>2. r.steps \in Seq(Stmts) /\ Execution(r.steps) /\ r.signal \in Nat
    BY RecordingAssumption
  <2>3. listed' = {}
    BY <2>1 DEF NothingListed
  <2>4. CASE r.steps = <<>>
    <3>1. conn' = "connected" /\ UNCHANGED position /\ Answer("launch", FALSE, "none")
      BY <1>3, <2>4 DEF Launch
    <3>2. ReplyTyped
      BY <3>1, AnswerTyped
    <3>3. /\ recording'.steps \in Seq(Stmts) /\ recording'.signal \in Nat
          /\ ~(conn' = "launched") /\ conn' \in {"accept", "connected"} /\ signum' \in Nat
      BY <2>1, <2>2, <3>1
    <3>4. addbr_failed' \in BOOLEAN
      BY <2>1 DEF TypeOK
    <3> QED
      BY <1>1, <2>1, <2>3, <3>1, <3>2, <3>3, <3>4
  <2>5. CASE r.steps # <<>>
    <3>1. /\ conn' = "launched" /\ MoveIn(r.steps, 1, 1)
          /\ Answer("launch", TRUE, IF stop_on_entry' THEN "entry" ELSE "none")
      BY <1>3, <2>5 DEF Launch, SetFirstStep
    <3>2. ReplyTyped
      <4>1. (IF stop_on_entry' THEN "entry" ELSE "none") \in Events
        OBVIOUS
      <4> QED
        BY <3>1, <4>1, AnswerTyped
    <3>3. PICK t : t = r.steps /\ t = steps' /\ t \in Seq(Stmts) /\ Execution(t) /\ t # <<>>
      BY <2>1, <2>2, <2>5 DEF steps
    <3>4. Len(t) \in Nat /\ Len(t) >= 1 /\ 1 \in 1 .. Len(t) /\ 1 \in 0 .. Len(t)
          /\ 0 \in 0 .. Len(t) - 1 /\ 0 + 1 = 1
      BY <3>3
    <3>5. cur_step' = 1 /\ cur_depth' = 1 /\ cur_file' = Info[t[1]].name
          /\ cur_line' = Info[t[1]].line
      BY <3>1, <3>3 DEF MoveIn, AtOf
    <3>6. cur_line' \in Nat
      BY <3>3, <3>4, <3>5, RowOf
    <3>7. DepthOf(t, 1) = 1
      <4>1. PICK a, b : a = CallsOf(t)[0] /\ b = CallsOf(t)[1]
        OBVIOUS
      <4>2. Stepped(t, 0, a, b)
        BY <3>3, <3>4, <4>1, StackStep
      <4>3. Info[t[1]].flag = "START"
        BY <3>3, <3>4 DEF Execution
      <4>4. Len(a) = 0
        BY <3>3, <4>1, StacksOf
      <4>5. Len(b) = 0 + 1 - 0
        BY <3>4, <4>2, <4>3, <4>4 DEF Stepped
      <4>6. DepthOf(t, 1) = Len(b)
        BY <3>3, <3>4, <4>1, DepthIsCalls
      <4> QED
        BY <4>5, <4>6
    <3>8. PositionCoherent'
      BY <3>3, <3>4, <3>5, <3>7 DEF PositionCoherent, Here, At, AtOf, Depth
    <3>9. TypeOK'
      <4>1. /\ recording'.steps \in Seq(Stmts) /\ recording'.signal \in Nat /\ signum' \in Nat
            /\ conn' \in {"accept", "connected", "launched"}
            /\ cur_step' \in Nat /\ cur_depth' \in Nat
        BY <2>1, <2>2, <3>1, <3>5
      <4> QED
        BY <2>1, <2>2, <3>2, <3>6, <4>1 DEF TypeOK, ReplyTyped
    <3>10. Opened'
      BY <2>1, <2>5 DEF Opened, steps
    <3>11. FramesTyped' /\ NothingListed' /\ ListedInOrder' /\ ListedFramesExact'
           /\ AskedIs' /\ LocalsOfFrameNoRecursion'
      BY <2>1, <2>3 DEF FramesTyped, NothingListed, ListedInOrder, ListedFramesExact,
                        AskedIs, LocalsOfFrameNoRecursion
    <3> QED
      BY <3>8, <3>9, <3>10, <3>11
  <2> QED
    BY <2>4, <2>5
<1>4. CASE LaunchFails
  <2>1. ReplyTyped
    BY <1>4, AnswerTyped DEF LaunchFails
  <2>2. /\ UNCHANGED <<recording, conn, position, signum, frame_list, ide>>
        /\ stop_on_entry' \in BOOLEAN
        /\ breakpoint' = breakpoint /\ addbr_failed' = addbr_failed
    BY <1>4 DEF LaunchFails
  <2>3. breakpoint' \subseteq Nat \X Nat /\ addbr_failed' \in BOOLEAN
    BY <2>2 DEF TypeOK
  <2> QED
    BY <2>1, <2>2, <2>3, SettledKeeps
<1>5. CASE Disconnect
  <2>1. ReplyTyped
    BY <1>5, AnswerTyped DEF Disconnect
  <2>2. /\ conn' = "accept" /\ recording' = Closed /\ breakpoint' = {}
        /\ listed' = {} /\ asked' = NoFrame /\ located' = 0
        /\ frame_list' = frame_list /\ signum' = signum /\ stop_on_entry' = stop_on_entry
        /\ UNCHANGED position
    BY <1>5 DEF Disconnect, Forget
  <2>3. addbr_failed' \in BOOLEAN
    BY <1>5, Zenon DEF Disconnect
  <2>4. recording'.steps = <<>> /\ recording'.signal = 0
    BY <2>2 DEF Closed
  <2>5. cur_step' \in Nat /\ cur_line' \in Nat /\ cur_depth' \in Nat
    BY <2>2 DEF TypeOK, position
  <2>6. TypeOK'
    <3>1. recording'.steps \in Seq(Stmts) /\ recording'.signal \in Nat
      BY <2>4
    <3>2. asked' \in [id : Nat, scope : Nat] /\ located' \in Nat /\ listed' \subseteq Nat
          /\ breakpoint' \subseteq Nat \X Nat
      BY <2>2 DEF NoFrame
    <3> QED
      BY <2>1, <2>2, <2>3, <2>5, <3>1, <3>2 DEF TypeOK, ReplyTyped
  <2>7. FramesTyped' /\ Opened' /\ PositionCoherent' /\ NothingListed' /\ ListedInOrder'
        /\ ListedFramesExact' /\ AskedIs' /\ LocalsOfFrameNoRecursion'
    BY <2>2 DEF FramesTyped, Opened, PositionCoherent, NothingListed, ListedInOrder,
                ListedFramesExact, AskedIs, LocalsOfFrameNoRecursion, Running
  <2> QED
    BY <2>6, <2>7
<1> QED
  BY <1>2, <1>3, <1>4, <1>5 DEF Connection

\* setBreakpoints replaces the rows of a file by rows of that file.
LEMMA SetBreakpointsKeeps ==
    ASSUME ExamineInv, NEW r \in BreakRequests, SetBreakpoints(r)
    PROVE  ExamineInv'
<1> USE DEF ExamineInv, Events
<1> DEFINE files == {Info[s].file : s \in {x \in Stmts : Info[x].name = r.name}}
<1>1. Running /\ UNCHANGED <<recording, conn, position, signum, stop_on_entry, frame_list, ide>>
  BY DEF SetBreakpoints
<1>2. ReplyTyped
  <2>1. CASE files = {}
    <3>1. Answer("setBreakpoints", FALSE, "none")
      BY <2>1 DEF SetBreakpoints
    <3> QED
      BY <3>1, AnswerTyped
  <2>2. CASE files # {}
    <3>1. PICK b \in BOOLEAN : Answer("setBreakpoints", b, "none")
      BY <2>2 DEF SetBreakpoints
    <3> QED
      BY <3>1, AnswerTyped
  <2> QED
    BY <2>1, <2>2
<1>3. breakpoint' \subseteq Nat \X Nat
  <2>1. breakpoint \subseteq Nat \X Nat
    BY DEF TypeOK
  <2>2. CASE files = {}
    <3>1. breakpoint' = breakpoint
      BY <2>2 DEF SetBreakpoints
    <3> QED
      BY <2>1, <3>1
  <2>3. CASE files # {}
    <3>1. files \in SUBSET Nat
      <4>1. \A s \in Stmts : Info[s].file \in Nat
        BY InfoAssumption DEF Row
      <4> QED
        BY <4>1
    <3>2. PICK f \in Nat : f = Min(files)
      BY <2>3, <3>1, MinOf
    <3>3. PICK added : /\ added \subseteq Stoppable(f)
                       /\ breakpoint' = OfOtherFiles(f) \cup {<<f, l>> : l \in added}
      <4> DEFINE bad == Repeated(Min(files), r.lines)
                 until == IF addbr_failed THEN 0
                          ELSE IF bad # {} THEN Min(bad) - 1 ELSE Len(r.lines)
                 added == {r.lines[i] : i \in 1 .. until} \cap Stoppable(Min(files))
      <4>1. breakpoint' = OfOtherFiles(Min(files)) \cup {<<Min(files), l>> : l \in added}
        BY <2>3 DEF SetBreakpoints
      <4>2. added \subseteq Stoppable(Min(files))
        OBVIOUS
      <4> HIDE DEF added
      <4> QED
        BY <3>2, <4>1, <4>2
    <3>4. Stoppable(f) \subseteq Nat
      <4>1. \A i \in 1 .. Len(steps) : StmtOf(i).line \in Nat
        <5>1. steps \in Seq(Stmts)
          BY DEF TypeOK, steps
        <5> QED
          BY <5>1, RowOf DEF StmtOf
      <4> QED
        BY <4>1 DEF Stoppable
    <3>5. {<<f, l>> : l \in added} \subseteq Nat \X Nat
      BY <3>3, <3>4
    <3>6. OfOtherFiles(f) \subseteq breakpoint
      BY DEF OfOtherFiles
    <3> QED
      BY <2>1, <3>3, <3>5, <3>6
  <2> QED
    BY <2>2, <2>3
<1>4. addbr_failed' \in BOOLEAN /\ stop_on_entry' \in BOOLEAN
  <2>1. stop_on_entry' \in BOOLEAN
    BY <1>1 DEF TypeOK
  <2>2. CASE files = {}
    BY <2>1, <2>2 DEF SetBreakpoints, TypeOK
  <2>3. CASE files # {}
    <3>1. PICK a, b : addbr_failed' = IF addbr_failed THEN r.lines = <<>> ELSE a # b
      BY <2>3 DEF SetBreakpoints
    <3> QED
      BY <2>1, <3>1
  <2> QED
    BY <2>2, <2>3
<1> QED
  BY <1>1, <1>2, <1>3, <1>4, SettledKeeps

\* stackTrace lists new frames, and no frame is asked for yet.
LEMMA StackTraceKeeps ==
    ASSUME ExamineInv, NEW r \in StackRequests, StackTrace(r)
    PROVE  ExamineInv'
<1> USE DEF ExamineInv, Events
<1>1. /\ Running /\ recording' = recording /\ conn' = conn /\ position' = position
      /\ session' = session /\ asked' = NoFrame /\ located' = 0
  BY DEF StackTrace
<1>2. FramesTyped' /\ ListedInOrder' /\ ListedFramesExact' /\ listed' \subseteq Nat
  BY StackTraceFrames
<1>3. /\ cur_step' = cur_step /\ cur_file' = cur_file /\ cur_line' = cur_line
      /\ cur_depth' = cur_depth /\ signum' = signum /\ stop_on_entry' = stop_on_entry
      /\ breakpoint' = breakpoint /\ addbr_failed' = addbr_failed
  BY <1>1 DEF position, session
<1>4. ReplyTyped
  <2>1. Answer("stackTrace", Len(Frames) <= r.start + r.levels, "none")
    BY DEF StackTrace
  <2>2. (Len(Frames) <= r.start + r.levels) \in BOOLEAN
    OBVIOUS
  <2> QED
    BY <2>1, <2>2, AnswerTyped
<1>5. TypeOK'
  <2>1. \A k \in DOMAIN frame_list' : frame_list'[k] \in [id : Nat, step : Nat, scope : Nat]
    <3>1. PICK f : f = frame_list' /\ f \in Seq(Frame)
      BY <1>2 DEF FramesTyped
    <3>2. \A k \in DOMAIN f : f[k] \in Frame
      BY <3>1
    <3> QED
      BY <3>1, <3>2 DEF Frame
  <2>2. asked' \in [id : Nat, scope : Nat] /\ located' \in Nat
    BY <1>1 DEF NoFrame
  <2> QED
    BY <1>1, <1>2, <1>3, <1>4, <2>1, <2>2 DEF TypeOK, ReplyTyped
<1>6. Opened' /\ PositionCoherent'
  BY <1>1, <1>3 DEF Opened, PositionCoherent, Running, steps, Here, At, Depth
<1>7. NothingListed' /\ AskedIs' /\ LocalsOfFrameNoRecursion'
  BY <1>1 DEF NothingListed, AskedIs, LocalsOfFrameNoRecursion, Running
<1> QED
  BY <1>2, <1>5, <1>6, <1>7

\* A frame that is listed is the first one with its id.
LEMMA ListedById ==
    ASSUME TypeOK, FramesTyped, ListedInOrder, NEW id \in listed
    PROVE  WithId(id) # {} /\ FirstFrame(WithId(id)) = frame_list[id + 1]
<1>1. /\ id \in Nat /\ id + 1 <= Len(frame_list)
      /\ \A k \in 1 .. id + 1 : frame_list[k].id = k - 1
  BY DEF ListedInOrder
<1>2. DOMAIN frame_list = 1 .. Len(frame_list) /\ Len(frame_list) \in Nat
  BY DEF FramesTyped
<1>3. id + 1 \in WithId(id)
  <2>1. id + 1 \in 1 .. id + 1 /\ (id + 1) - 1 = id /\ id + 1 \in 1 .. Len(frame_list)
    BY <1>1, <1>2
  <2> QED
    BY <1>1, <1>2, <2>1 DEF WithId
<1>4. WithId(id) \in SUBSET DOMAIN frame_list
  BY DEF WithId
<1>5. PICK m \in Nat : /\ m = Min(WithId(id)) /\ m \in WithId(id) /\ m <= id + 1
                       /\ m \in 1 .. Len(frame_list)
                       /\ FirstFrame(WithId(id)) = frame_list[m]
  BY <1>3, <1>4, FirstFrameOf
<1>6. m \in 1 .. id + 1 /\ frame_list[m].id = id
  BY <1>1, <1>2, <1>5 DEF WithId
<1>7. m - 1 = id
  BY <1>1, <1>6
<1>8. m = id + 1
  BY <1>1, <1>7
<1> QED
  BY <1>3, <1>5, <1>8

\* scopes, variables and evaluate choose a frame, and change nothing else.
LEMMA InspectKeeps ==
    ASSUME ExamineInv, ReplyTyped,
           UNCHANGED <<recording, conn, position, session, frame_list, listed>>,
           asked' \in [id : Nat, scope : Nat], located' \in Nat,
           AskedIs', LocalsOfFrameNoRecursion'
    PROVE  ExamineInv'
<1> USE DEF ExamineInv
<1>1. /\ recording' = recording /\ conn' = conn /\ frame_list' = frame_list
      /\ cur_step' = cur_step /\ cur_file' = cur_file /\ cur_line' = cur_line
      /\ cur_depth' = cur_depth /\ listed' = listed
      /\ signum' = signum /\ stop_on_entry' = stop_on_entry
      /\ breakpoint' = breakpoint /\ addbr_failed' = addbr_failed
  BY DEF position, session
<1>2. TypeOK'
  BY <1>1 DEF TypeOK, ReplyTyped
<1>3. FramesTyped' /\ Opened' /\ PositionCoherent'
  BY <1>1 DEF FramesTyped, Opened, PositionCoherent, Running, steps, Here, At, Depth
<1>4. NothingListed' /\ ListedInOrder'
  BY <1>1 DEF NothingListed, ListedInOrder, Running
<1>5. ListedFramesExact'
  BY <1>1, FramesStayExact
<1> QED
  BY <1>2, <1>3, <1>4, <1>5

\* A lookup by id finds the frame of the IDE.
LEMMA ScopesKeeps ==
    ASSUME ExamineInv, NEW id \in FrameIds, Scopes(id)
    PROVE  ExamineInv'
<1> USE DEF ExamineInv, Events
<1>1. /\ UNCHANGED <<recording, conn, position, session, frame_list, listed>>
      /\ located' = 0 /\ frame_list' = frame_list /\ listed' = listed
  BY DEF Scopes
<1>2. ReplyTyped
  BY AnswerTyped DEF Scopes
<1>3. asked' \in [id : Nat, scope : Nat] /\ AskedIs'
  <2>1. CASE WithId(id) = {}
    <3>1. asked' = asked
      BY <2>1 DEF Scopes
    <3> QED
      BY <1>1, <3>1 DEF TypeOK, AskedIs
  <2>2. CASE WithId(id) # {}
    <3>1. asked' = [id |-> id, scope |-> FirstFrame(WithId(id)).scope]
      BY <2>2 DEF Scopes
    <3>2. FirstFrame(WithId(id)).scope \in Nat
      <4>1. WithId(id) \in SUBSET DOMAIN frame_list
        BY DEF WithId
      <4> QED
        BY <2>2, <4>1, FirstFrameOf
    <3>3. asked' \in [id : Nat, scope : Nat]
      BY <3>1, <3>2, RequestAssumption
    <3>4. asked'.id = id /\ asked'.scope = FirstFrame(WithId(id)).scope
      BY <3>1
    <3>5. id \in listed => FirstFrame(WithId(id)) = frame_list[id + 1]
      BY ListedById
    <3> QED
      BY <1>1, <3>3, <3>4, <3>5 DEF AskedIs
  <2> QED
    BY <2>1, <2>2
<1>4. LocalsOfFrameNoRecursion'
  BY <1>1 DEF LocalsOfFrameNoRecursion
<1>5. located' \in Nat
  BY <1>1
<1> QED
  BY <1>1, <1>2, <1>3, <1>4, <1>5, InspectKeeps

\* An expression is evaluated in the frame of the IDE.
LEMMA EvaluateKeeps ==
    ASSUME ExamineInv, NEW id \in FrameIds, Evaluate(id)
    PROVE  ExamineInv'
<1> USE DEF ExamineInv, Events
<1>1. /\ UNCHANGED <<recording, conn, position, session, frame_list, listed>>
      /\ frame_list' = frame_list /\ listed' = listed
  BY DEF Evaluate
<1>2. ReplyTyped
  BY AnswerTyped DEF Evaluate
<1>3. CASE WithId(id) = {}
  <2>1. asked' = asked /\ located' = located
    BY <1>3 DEF Evaluate
  <2>2. asked' \in [id : Nat, scope : Nat] /\ located' \in Nat
    BY <2>1 DEF TypeOK
  <2>3. AskedIs' /\ LocalsOfFrameNoRecursion'
    BY <1>1, <2>1 DEF AskedIs, LocalsOfFrameNoRecursion
  <2> QED
    BY <1>1, <1>2, <2>2, <2>3, InspectKeeps
<1>4. CASE WithId(id) # {}
  <2>1. /\ asked' = [id |-> id, scope |-> FirstFrame(WithId(id)).scope]
        /\ located' = FirstFrame(WithId(id)).step
    BY <1>4 DEF Evaluate
  <2>2. FirstFrame(WithId(id)).scope \in Nat /\ FirstFrame(WithId(id)).step \in Nat
    <3>1. WithId(id) \in SUBSET DOMAIN frame_list
      BY DEF WithId
    <3> QED
      BY <1>4, <3>1, FirstFrameOf
  <2>3. asked' \in [id : Nat, scope : Nat] /\ located' \in Nat
    BY <2>1, <2>2, RequestAssumption
  <2>4. asked'.id = id /\ asked'.scope = FirstFrame(WithId(id)).scope
    BY <2>1
  <2>5. id \in listed => FirstFrame(WithId(id)) = frame_list[id + 1]
    BY ListedById
  <2>6. AskedIs' /\ LocalsOfFrameNoRecursion'
    BY <1>1, <2>1, <2>4, <2>5 DEF AskedIs, LocalsOfFrameNoRecursion
  <2> QED
    BY <1>1, <1>2, <2>3, <2>6, InspectKeeps
<1> QED
  BY <1>3, <1>4

\* A lookup by scope finds the frame of the IDE when the active calls have
\* scopes of their own.
LEMMA VariablesKeeps ==
    ASSUME ExamineInv, Variables
    PROVE  ExamineInv'
<1> USE DEF ExamineInv, Events
<1>1. /\ UNCHANGED <<recording, conn, position, session, frame_list, listed>>
      /\ frame_list' = frame_list /\ listed' = listed /\ asked' = asked /\ asked # NoFrame
  BY DEF Variables
<1>2. ReplyTyped
  BY AnswerTyped DEF Variables
<1>3. asked' \in [id : Nat, scope : Nat] /\ AskedIs'
  BY <1>1 DEF TypeOK, AskedIs
<1>4. CASE WithScope(asked.scope) = {}
  <2>1. located' = located
    BY <1>4 DEF Variables
  <2>2. located' \in Nat /\ LocalsOfFrameNoRecursion'
    BY <1>1, <2>1 DEF TypeOK, LocalsOfFrameNoRecursion
  <2> QED
    BY <1>1, <1>2, <1>3, <2>2, InspectKeeps
<1>5. CASE WithScope(asked.scope) # {}
  <2>1. located' = FirstFrame(WithScope(asked.scope)).step
    BY <1>5 DEF Variables
  <2>2. WithScope(asked.scope) \in SUBSET DOMAIN frame_list
    BY DEF WithScope
  <2>3. PICK m \in Nat :
           /\ m \in WithScope(asked.scope) /\ m \in 1 .. Len(frame_list)
           /\ \A k \in WithScope(asked.scope) : m <= k
           /\ FirstFrame(WithScope(asked.scope)) = frame_list[m]
    BY <1>5, <2>2, FirstFrameOf
  <2>4. located' \in Nat
    BY <1>5, <2>1, <2>2, FirstFrameOf
  <2>5. LocalsOfFrameNoRecursion'
    <3>1. SUFFICES ASSUME asked.id \in listed, 0 \in listed,
                          \A a, b \in listed :
                             a # b => frame_list[a + 1].scope # frame_list[b + 1].scope
                   PROVE  located' = frame_list[asked.id + 1].step
      BY <1>1 DEF LocalsOfFrameNoRecursion
    <3>2. PICK id : id = asked.id
      OBVIOUS
    <3>3. /\ id \in Nat /\ id + 1 <= Len(frame_list)
          /\ \A k \in 1 .. id + 1 : k - 1 \in listed
      BY <3>1, <3>2 DEF ListedInOrder
    <3>4. DOMAIN frame_list = 1 .. Len(frame_list) /\ Len(frame_list) \in Nat
      BY DEF FramesTyped
    <3>5. id + 1 \in WithScope(asked.scope)
      <4>1. id + 1 \in 1 .. Len(frame_list)
        BY <3>3, <3>4
      <4>2. asked.scope = frame_list[id + 1].scope
        BY <1>1, <3>1, <3>2 DEF AskedIs
      <4> QED
        BY <3>4, <4>1, <4>2 DEF WithScope
    <3>6. m <= id + 1 /\ m \in 1 .. id + 1
      BY <2>3, <3>3, <3>4, <3>5
    <3>7. m - 1 \in listed /\ id \in listed /\ (m - 1) + 1 = m
      BY <3>1, <3>2, <3>3, <3>6
    <3>8. frame_list[m].scope = frame_list[id + 1].scope
      BY <2>3, <3>5 DEF WithScope
    <3>9. m - 1 = id
      BY <3>1, <3>7, <3>8
    <3>10. m = id + 1
      BY <3>3, <3>9
    <3> QED
      BY <2>1, <2>3, <3>2, <3>10
  <2> QED
    BY <1>1, <1>2, <1>3, <2>4, <2>5, InspectKeeps
<1> QED
  BY <1>4, <1>5

\* The invariant is kept by every request.
LEMMA ExamineStep == ExamineInv /\ [Next]_vars => ExamineInv'
<1> SUFFICES ASSUME ExamineInv, [Next]_vars PROVE ExamineInv'
  OBVIOUS
<1>1. CASE Connection
  BY <1>1, ConnectionKeeps
<1>2. CASE Movement
  <2>1. Moved \/ Quiet
    BY <1>2, MovementKinds DEF ExamineInv
  <2>2. CASE Moved
    BY <2>2, MovedKeeps
  <2>3. CASE Quiet
    <3>1. /\ UNCHANGED <<recording, conn, position, signum, frame_list, ide>>
          /\ stop_on_entry' = stop_on_entry /\ ReplyTyped
          /\ breakpoint' = breakpoint /\ addbr_failed' = addbr_failed
      BY <2>3 DEF Quiet, session
    <3>2. /\ stop_on_entry' \in BOOLEAN /\ breakpoint' \subseteq Nat \X Nat
          /\ addbr_failed' \in BOOLEAN
      BY <3>1 DEF ExamineInv, TypeOK
    <3> QED
      BY <3>1, <3>2, SettledKeeps
  <2> QED
    BY <2>1, <2>2, <2>3
<1>3. ASSUME NEW r \in BreakRequests, SetBreakpoints(r)
      PROVE  ExamineInv'
  BY <1>3, SetBreakpointsKeeps
<1>4. CASE Inspection
  BY <1>4, StackTraceKeeps, ScopesKeeps, EvaluateKeeps, VariablesKeeps DEF Inspection
<1>5. CASE UNCHANGED vars
  <2>1. UNCHANGED <<recording, conn, position, signum, frame_list, ide>>
    BY <1>5 DEF vars, session
  <2>2. stop_on_entry' = stop_on_entry /\ breakpoint' = breakpoint
        /\ addbr_failed' = addbr_failed /\ reply' = reply
    BY <1>5 DEF vars, session
  <2>3. /\ stop_on_entry' \in BOOLEAN /\ breakpoint' \subseteq Nat \X Nat
        /\ addbr_failed' \in BOOLEAN /\ ReplyTyped
    BY <2>2 DEF ExamineInv, TypeOK, ReplyTyped
  <2> QED
    BY <2>1, <2>3, SettledKeeps
<1> QED
  BY <1>1, <1>2, <1>3, <1>4, <1>5 DEF Next

\* The invariant holds in every session.
LEMMA ExamineHolds == Spec => []ExamineInv
<1>1. Init => ExamineInv
  BY InitExamine
<1>2. ExamineInv /\ [Next]_vars => ExamineInv'
  BY ExamineStep
<1> QED
  BY <1>1, <1>2, PTL DEF Spec

-----------------------------------------------------------------------------
(***************************************************************************)
(* The movements in terms of the program.                                  *)
(***************************************************************************)

\* The answer tells which request has moved.
LEMMA CommandOf ==
    ASSUME Next, Moves
    PROVE  /\ reply'.command = "stepOut" => StepOut
           /\ reply'.command \in {"continue", "configurationDone"} =>
                 \E c : ContinueTo(c)
           /\ reply'.command = "reverseContinue" => ReverseContinue
<1>1. Running /\ conn = "launched" /\ conn' = "launched" /\ cur_step' # cur_step
  BY DEF Moves, Running
<1>2. CASE Connection
  BY <1>1, <1>2 DEF Connection, Initialize, Launch, LaunchFails, Disconnect
<1>3. ASSUME NEW r \in BreakRequests, SetBreakpoints(r)
      PROVE  FALSE
  BY <1>1, <1>3 DEF SetBreakpoints, position
<1>4. CASE Inspection
  <2>1. UNCHANGED position
    BY <1>4 DEF Inspection, StackTrace, Scopes, Variables, Evaluate
  <2> QED
    BY <1>1, <2>1 DEF position
<1>5. CASE Next_ \/ StepIn \/ StepBack
  <2>1. reply'.command \in {"next", "stepIn", "stepBack"}
    BY <1>5 DEF Next_, StepIn, StepBack, Stop, Answer
  <2> QED
    BY <2>1
<1>6. CASE StepOut
  <2>1. reply'.command = "stepOut"
    BY <1>6 DEF StepOut, Stop, Answer
  <2> QED
    BY <1>6, <2>1
<1>7. CASE StepOutOfMain
  BY <1>1, <1>7 DEF StepOutOfMain, position
<1>8. CASE Continue
  <2>1. reply'.command = "continue"
    BY <1>8 DEF Continue, ContinueTo, Answer
  <2> QED
    BY <1>8, <2>1 DEF Continue
<1>9. CASE ConfigurationDone
  <2>1. reply'.command = "configurationDone"
    BY <1>9 DEF ConfigurationDone, ContinueTo, Answer
  <2> QED
    BY <1>1, <1>9, <2>1 DEF ConfigurationDone, position
<1>10. CASE ReverseContinue
  <2>1. reply'.command = "reverseContinue"
    BY <1>10 DEF ReverseContinue, Answer
  <2> QED
    BY <1>10, <2>1
<1> QED
  BY <1>2, <1>3, <1>4, <1>5, <1>6, <1>7, <1>8, <1>9, <1>10 DEF Next, Movement

\* stepOut stops at the first step outside the function: the calls around it
\* are the ones it was called from.
LEMMA StepOutStep ==
    ASSUME ExamineInv, StepOut, cur_step' # cur_step
    PROVE  Calls(cur_step') = Front(Calls(cur_step))
<1>1. /\ TypeOK /\ Opened /\ PositionCoherent /\ Running /\ cur_depth > 1
  BY DEF ExamineInv, StepOut
<1>2. PICK t, i, n : t = steps /\ i = cur_step /\ n = Len(t)
  OBVIOUS
<1>3. /\ t \in Seq(Stmts) /\ Execution(t) /\ n \in Nat /\ i \in 1 .. n
      /\ \A m \in 1 .. n : /\ DepthOf(t, m) = Len(CallsOf(t)[m])
                           /\ DepthOf(t, m) \in Nat
  BY <1>1, <1>2, RunningFacts DEF Depth
<1> DEFINE rows == {m \in i + 1 .. n : DepthOf(t, m) < cur_depth}
<1>4. Stop("stepOut", rows # {}, Min(rows))
  BY <1>2 DEF StepOut, Depth
<1>5. rows # {} /\ cur_step' = Min(rows)
  BY <1>4 DEF Stop, position, MoveTo, MoveIn
<1>6. rows \in SUBSET Nat
  BY <1>3
<1>7. PICK b \in Nat : /\ b = cur_step' /\ b \in i + 1 .. n /\ DepthOf(t, b) < cur_depth
                       /\ \A m \in rows : b <= m
  <2>1. Min(rows) \in rows /\ \A m \in rows : Min(rows) <= m
    BY <1>5, <1>6, MinOf
  <2> QED
    BY <1>5, <1>6, <2>1
<1>8. i # n
  BY <1>3, <1>7
<1>9. PICK D \in Nat : D = cur_depth /\ D = DepthOf(t, i) /\ D > 1
  <2>1. cur_depth = DepthOf(t, i)
    BY <1>1, <1>2, <1>8 DEF PositionCoherent, Depth
  <2> QED
    BY <1>1, <1>3, <2>1
<1>10. PICK d \in Nat : d = D - 1 /\ d < D
  BY <1>9
<1>11. ASSUME NEW m \in i .. b - 1
       PROVE  Len(CallsOf(t)[m]) > d
  <2> HIDE DEF rows
  <2>0. i \in Nat /\ i >= 1 /\ n \in Nat /\ i + 1 <= b /\ b <= n
    BY <1>3, <1>7
  <2>1. m \in 1 .. n /\ m \in Nat /\ m >= i /\ ~(b <= m)
    BY <2>0
  <2>2. CASE m = i
    BY <1>3, <1>9, <1>10, <2>2
  <2>3. CASE m # i
    <3>1. m \in i + 1 .. n /\ ~(b <= m)
      BY <2>0, <2>1, <2>3
    <3>2. m \notin rows
      BY <1>7, <3>1
    <3>3. ~(DepthOf(t, m) < D)
      BY <1>9, <3>1, <3>2 DEF rows
    <3>4. PICK l \in Nat : l = DepthOf(t, m) /\ l = Len(CallsOf(t)[m])
      BY <1>3, <2>1
    <3> QED
      BY <1>9, <1>10, <3>3, <3>4
  <2> QED
    BY <2>2, <2>3
<1>12. /\ Len(CallsOf(t)[b]) >= d
       /\ \A k \in 1 .. d : CallsOf(t)[b][k] = CallsOf(t)[i][k]
  <2>1. i \in 0 .. Len(t) /\ b \in i .. Len(t)
    BY <1>2, <1>3, <1>7
  <2>2. d <= Len(CallsOf(t)[i])
    BY <1>3, <1>9, <1>10
  <2> QED
    BY <1>3, <1>11, <2>1, <2>2, KeptOver
<1>13. PICK x, y : x = CallsOf(t)[i] /\ y = CallsOf(t)[b]
  OBVIOUS
<1>14. x \in Seq(Nat) /\ y \in Seq(Nat) /\ Len(x) = D /\ Len(y) = d
  <2>1. i \in 0 .. Len(t) /\ b \in 0 .. Len(t) /\ b \in 1 .. n
    BY <1>2, <1>3, <1>7
  <2>2. Len(y) \in Nat /\ Len(y) < D
    BY <1>3, <1>7, <1>9, <1>13, <2>1
  <2>3. Len(y) = d
    BY <1>9, <1>10, <1>12, <1>13, <2>2
  <2> QED
    BY <1>3, <1>9, <1>13, <2>1, <2>3, StacksOf
<1>15. Front(x) \in Seq(Nat) /\ Len(Front(x)) = d /\ \A k \in 1 .. d : Front(x)[k] = x[k]
  <2>1. x # <<>>
    BY <1>9, <1>14
  <2>2. /\ Front(x) \in Seq(Nat) /\ Len(Front(x)) = Len(x) - 1
        /\ \A k \in 1 .. Len(x) - 1 : Front(x)[k] = x[k]
    BY <1>14, <2>1, FrontOf
  <2> QED
    BY <1>9, <1>10, <1>14, <2>2
<1>16. y = Front(x)
  <2>1. PICK f \in Seq(Nat) : f = Front(x) /\ Len(f) = d /\ \A k \in 1 .. d : f[k] = x[k]
    BY <1>15
  <2>2. Len(y) = Len(f) /\ \A k \in 1 .. Len(y) : y[k] = f[k]
    BY <1>12, <1>13, <1>14, <2>1
  <2>3. y = f
    BY <1>14, <2>1, <2>2
  <2> QED
    BY <2>1, <2>3
<1> QED
  BY <1>2, <1>7, <1>13, <1>16 DEF Calls

\* A breakpoint that continue passes over is on the line it started from.
LEMMA PassedOnward ==
    ASSUME NEW from \in Nat, NEW j \in Breaks, j > from, j \in Nat, j \notin Onward(from)
    PROVE  At(j) = At(from)
<1>1. Skipped(from, j)
  BY DEF Onward
<1>2. j \in from + 1 .. j
  OBVIOUS
<1> QED
  BY <1>1, <1>2 DEF Skipped

\* The same backwards.
LEMMA PassedBack ==
    ASSUME NEW from \in Nat, NEW j \in Breaks, j < from, j \in Nat, j \notin Back(from)
    PROVE  At(j) = At(from)
<1>1. Skipped(from, j)
  BY DEF Back
<1>2. j \in j .. from - 1
  OBVIOUS
<1> QED
  BY <1>1, <1>2 DEF Skipped

\* What NoBreakpointMissed says of one step.
NothingMissed ==
    /\ \A i \in Between(cur_step, cur_step') : i \in Breaks => At(i) = Here
    /\ reply'.event = "breakpoint" => cur_step' \in Breaks
    /\ reply'.event # "breakpoint" => cur_step' \in {1, Len(steps)}

\* Both directions: the rows between the start and the row found are no rows
\* of the query, so they are on the line of the start.
LEMMA ContinueMissesNothing ==
    ASSUME TypeOK, Opened, PositionCoherent, Running,
           \/ \E c : ContinueTo(c)
           \/ ReverseContinue
    PROVE  NothingMissed
<1>1. PICK s, n : s = cur_step /\ n = Len(steps)
  OBVIOUS
<1>2. n \in Nat /\ n >= 1 /\ s \in Nat /\ 1 <= s /\ s <= n /\ Here = At(s)
  BY <1>1, RunningFacts DEF PositionCoherent
<1>3. Breaks \subseteq 1 .. n /\ \A i \in Breaks : i \in Nat /\ i >= 1 /\ i <= n
  BY <1>1, <1>2 DEF Breaks
<1>4. CASE \E c : ContinueTo(c)
  <2>1. PICK c : ContinueTo(c)
    BY <1>4
  <2>2. CASE Onward(s) # {}
    <3>1. PICK i : i = Min(Onward(s))
      OBVIOUS
    <3>2. cur_step' = i /\ reply'.event = "breakpoint"
      BY <1>1, <2>1, <2>2, <3>1 DEF ContinueTo, MoveTo, MoveIn, Answer
    <3>3. Onward(s) \in SUBSET Nat
      BY <1>3 DEF Onward
    <3>4. i \in Onward(s) /\ \A k \in Onward(s) : i <= k
      BY <2>2, <3>1, <3>3, MinOf
    <3>5. i \in Breaks /\ i \in Nat /\ i > s
      BY <1>3, <3>4 DEF Onward
    <3>6. ASSUME NEW j \in Between(s, i), j \in Breaks
          PROVE  At(j) = Here
      <4>1. j \in Nat /\ j > s /\ j < i
        BY <1>2, <3>5 DEF Between
      <4>2. j \notin Onward(s)
        BY <3>4, <3>5, <4>1
      <4> QED
        BY <1>2, <3>6, <4>1, <4>2, PassedOnward
    <3> QED
      BY <1>1, <3>2, <3>5, <3>6 DEF NothingMissed
  <2>3. CASE Onward(s) = {}
    <3>1. cur_step' = n /\ reply'.event # "breakpoint"
      BY <1>1, <2>1, <2>3 DEF ContinueTo, SetLastStep, MoveTo, MoveIn, Answer
    <3>2. ASSUME NEW j \in Between(s, n), j \in Breaks
          PROVE  At(j) = Here
      <4>1. j \in Nat /\ j > s
        BY <1>2 DEF Between
      <4> QED
        BY <1>2, <2>3, <3>2, <4>1, PassedOnward
    <3> QED
      BY <1>1, <3>1, <3>2 DEF NothingMissed
  <2> QED
    BY <2>2, <2>3
<1>5. CASE ReverseContinue
  <2>1. CASE Back(s) # {}
    <3>1. PICK i : i = Max(Back(s))
      OBVIOUS
    <3>2. cur_step' = i /\ reply'.event = "breakpoint"
      BY <1>1, <1>5, <2>1, <3>1 DEF ReverseContinue, MoveTo, MoveIn, Answer
    <3>3. Back(s) \subseteq 0 .. n
      <4>1. Breaks \subseteq 0 .. n
        BY <1>2, <1>3
      <4> QED
        BY <4>1 DEF Back
    <3>4. i \in Back(s) /\ \A k \in Back(s) : k <= i
      BY <1>2, <2>1, <3>1, <3>3, MaxOf
    <3>5. i \in Breaks /\ i \in Nat /\ i < s
      BY <1>3, <3>4 DEF Back
    <3>6. ASSUME NEW j \in Between(s, i), j \in Breaks
          PROVE  At(j) = Here
      <4>1. j \in Nat /\ j < s /\ j > i
        BY <1>2, <3>5 DEF Between
      <4>2. j \notin Back(s)
        BY <3>4, <3>5, <4>1
      <4> QED
        BY <1>2, <3>6, <4>1, <4>2, PassedBack
    <3> QED
      BY <1>1, <3>2, <3>5, <3>6 DEF NothingMissed
  <2>2. CASE Back(s) = {}
    <3>1. cur_step' = 1 /\ reply'.event # "breakpoint"
      BY <1>1, <1>5, <2>2 DEF ReverseContinue, SetFirstStep, MoveIn, Answer
    <3>2. ASSUME NEW j \in Between(s, 1), j \in Breaks
          PROVE  At(j) = Here
      <4>1. j \in Nat /\ j < s
        BY <1>2 DEF Between
      <4> QED
        BY <1>2, <2>2, <3>2, <4>1, PassedBack
    <3> QED
      BY <1>1, <3>1, <3>2 DEF NothingMissed
  <2> QED
    BY <2>1, <2>2
<1> QED
  BY <1>4, <1>5

\* What ReverseContinueUndone says: from where reverseContinue has stopped,
\* the breakpoint it came from is the first that `continue' does not skip.
LEMMA ReverseIsUndone ==
    ASSUME TypeOK, Opened, PositionCoherent, Running, ReverseContinue,
           reply'.event = "breakpoint", cur_step \in Breaks, At(cur_step - 1) # Here
    PROVE  Min(Onward(cur_step')) = cur_step
<1>1. PICK s, n : s = cur_step /\ n = Len(steps)
  OBVIOUS
<1>2. n \in Nat /\ n >= 1 /\ s \in Nat /\ 1 <= s /\ s <= n /\ Here = At(s)
  BY <1>1, RunningFacts DEF PositionCoherent
<1>3. Breaks \subseteq 1 .. n /\ \A i \in Breaks : i \in Nat /\ i >= 1 /\ i <= n
  BY <1>1, <1>2 DEF Breaks
<1>4. Back(s) # {}
  BY <1>1 DEF ReverseContinue, Answer
<1>5. PICK i : i = Max(Back(s)) /\ cur_step' = i
  BY <1>1, <1>4 DEF ReverseContinue, MoveTo, MoveIn
<1>6. i \in Back(s) /\ \A k \in Back(s) : k <= i
  <2>1. Back(s) \subseteq 0 .. n
    <3>1. Breaks \subseteq 0 .. n
      BY <1>2, <1>3
    <3> QED
      BY <3>1 DEF Back
  <2> QED
    BY <1>2, <1>4, <1>5, <2>1, MaxOf
<1>7. i \in Nat /\ i >= 1 /\ i < s
  BY <1>3, <1>6 DEF Back
<1>8. s - 1 \in Nat /\ s - 1 >= i /\ s - 1 < s
  BY <1>2, <1>7
<1>9. s \in Onward(i)
  <2>1. SUFFICES ASSUME Skipped(i, s) PROVE FALSE
    BY <1>1, <1>2, <1>7 DEF Onward
  <2>2. s \in i + 1 .. s
    BY <1>2, <1>7
  <2>3. At(s) = At(i)
    BY <2>1, <2>2 DEF Skipped
  <2>4. CASE s - 1 = i
    BY <1>1, <1>2, <2>3, <2>4
  <2>5. CASE s - 1 # i
    <3>1. s - 1 \in i + 1 .. s
      BY <1>2, <1>7, <1>8, <2>5
    <3>2. At(s - 1) = At(i)
      BY <2>1, <3>1 DEF Skipped
    <3> QED
      BY <1>1, <1>2, <2>3, <3>2
  <2> QED
    BY <2>4, <2>5
<1>10. ASSUME NEW k \in Onward(i)
       PROVE  s <= k
  <2>1. k \in Breaks /\ k \in Nat /\ k > i
    BY <1>3 DEF Onward
  <2>2. SUFFICES ASSUME k < s PROVE FALSE
    BY <1>2, <2>1
  <2>3. k \notin Back(s)
    BY <1>6, <1>7, <2>1
  <2>4. Skipped(s, k)
    BY <2>1, <2>2, <2>3 DEF Back
  <2>5. s - 1 \in k .. s - 1
    BY <1>2, <1>8, <2>1, <2>2
  <2>6. At(s - 1) = At(s)
    BY <2>4, <2>5 DEF Skipped
  <2> QED
    BY <1>1, <1>2, <2>6
<1>11. Onward(i) \in SUBSET Nat
  BY <1>3 DEF Onward
<1>12. Min(Onward(i)) = s
  BY <1>9, <1>10, <1>11, MinIs
<1> QED
  BY <1>1, <1>5, <1>12

-----------------------------------------------------------------------------
(***************************************************************************)
(* The properties of the specification.                                    *)
(***************************************************************************)

\* Every request, answer and frame is of its type; in particular the frames
\* of stackTrace (requests.c:355) always have a step.
THEOREM ExamineTypes == Spec => []TypeOK
<1>1. ExamineInv => TypeOK
  BY DEF ExamineInv
<1> QED
  BY <1>1, ExamineHolds, PTL

\* File, line and depth always belong to the current step.
THEOREM PositionsAreCoherent == Spec => []PositionCoherent
<1>1. ExamineInv => PositionCoherent
  BY DEF ExamineInv
<1> QED
  BY <1>1, ExamineHolds, PTL

\* The frames the IDE was told of are those of the active calls, each with
\* the last step of its call: grouping the steps by depth, as the query of
\* stackTrace does, finds exactly the call stack.
THEOREM FramesAreTheCallStack == Spec => []ListedFramesExact
<1>1. ExamineInv => ListedFramesExact
  BY DEF ExamineInv
<1> QED
  BY <1>1, ExamineHolds, PTL

\* Without recursion the frame whose step gives the addresses of the variables is
\* the frame asked for, in answers to variables and to evaluate.
THEOREM LocalsAreOfTheFrame == Spec => []LocalsOfFrameNoRecursion
<1>1. ExamineInv => LocalsOfFrameNoRecursion
  BY DEF ExamineInv
<1> QED
  BY <1>1, ExamineHolds, PTL

\* stepOut (requests.c) ends in the caller, in the same call of it.
THEOREM StepOutEndsInTheCaller == Spec => StepOutReturns
<1> DEFINE A == Moves /\ reply'.command = "stepOut" =>
                   Calls(cur_step') = Front(Calls(cur_step))
<1>1. ExamineInv /\ [Next]_vars => [A]_vars
  <2> SUFFICES ASSUME ExamineInv, Next, Moves, reply'.command = "stepOut"
               PROVE  Calls(cur_step') = Front(Calls(cur_step))
    OBVIOUS
  <2>1. StepOut /\ cur_step' # cur_step
    BY CommandOf DEF Moves
  <2> QED
    BY <2>1, StepOutStep
<1> QED
  BY <1>1, ExamineHolds, PTL DEF Spec, StepOutReturns

\* continue, configurationDone and reverseContinue pass over no breakpoint.
THEOREM ContinueStopsAtBreakpoints == Spec => NoBreakpointMissed
<1> DEFINE A == Moves /\ reply'.command \in {"continue", "configurationDone", "reverseContinue"}
                => /\ \A i \in Between(cur_step, cur_step') : i \in Breaks => At(i) = Here
                   /\ reply'.event = "breakpoint" => cur_step' \in Breaks
                   /\ reply'.event # "breakpoint" => cur_step' \in {1, Len(steps)}
<1>1. ExamineInv /\ [Next]_vars => [A]_vars
  <2> SUFFICES ASSUME ExamineInv, Next, Moves,
                      reply'.command \in {"continue", "configurationDone", "reverseContinue"}
               PROVE  NothingMissed
    BY DEF NothingMissed
  <2>1. (\E c : ContinueTo(c)) \/ ReverseContinue
    BY CommandOf
  <2> QED
    BY <2>1, ContinueMissesNothing DEF ExamineInv, Moves
<1> QED
  BY <1>1, ExamineHolds, PTL DEF Spec, NoBreakpointMissed

\* continue undoes reverseContinue.
THEOREM ReverseContinueIsUndone == Spec => ReverseContinueUndone
<1> DEFINE A == /\ Moves /\ reply'.command = "reverseContinue" /\ reply'.event = "breakpoint"
                /\ cur_step \in Breaks /\ At(cur_step - 1) # Here
                => Min(Onward(cur_step')) = cur_step
<1>1. ExamineInv /\ [Next]_vars => [A]_vars
  <2> SUFFICES ASSUME ExamineInv, Next, Moves, reply'.command = "reverseContinue",
                      reply'.event = "breakpoint",
                      cur_step \in Breaks, At(cur_step - 1) # Here
               PROVE  Min(Onward(cur_step')) = cur_step
    OBVIOUS
  <2>1. ReverseContinue
    BY CommandOf
  <2> QED
    BY <2>1, ReverseIsUndone DEF ExamineInv, Moves
<1> QED
  BY <1>1, ExamineHolds, PTL DEF Spec, ReverseContinueUndone
=============================================================================
