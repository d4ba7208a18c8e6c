----------------------------- MODULE HeapProofs -----------------------------
(***************************************************************************)
(* Proofs about module Heap, and about the recording of module Vars that   *)
(* composes it.                                                            *)
(*                                                                         *)
(* The rows of table heap lag behind the program by the events that are    *)
(* still in the FIFO, and a release event closes every open row of its     *)
(* block.  The inductive invariant says, of each block whose events all    *)
(* got through, what rows and pending events together tell (Told); the     *)
(* verdicts of earlier steps are kept because a step adds rows with its    *)
(* own number only, and closes rows with its own number only (Evolves).    *)
(***************************************************************************)
EXTENDS Vars, InductionFacts, SequenceTheorems, FiniteSetTheorems

Event == [type : {"alloc", "free"}, address : Nat, size : Nat]
Row == [address : Nat, size : Nat, allocated_at : Nat, freed_at : Nat]
BlockState == Nat \cup {Never, Freed}

HeapTypeOK ==
    /\ live \in [Blocks -> BlockState]
    /\ fifo \in Seq(Event)
    /\ step_id \in Nat
    /\ heap \subseteq Row
    /\ blurred \subseteq Blocks
    /\ lives \in Seq([Blocks -> BlockState]) /\ Len(lives) = step_id
    /\ blurs \in Seq(SUBSET Blocks) /\ Len(blurs) = step_id

\* The rows H are of steps up to n.
UpTo(H, n) == \A r \in H : r.allocated_at >= 1 /\ r.allocated_at <= n /\ r.freed_at <= n

\* The allocations of block a in the events f after event k; a is released in f
\* after event k.
AllocsOf(f, k, a) == {i \in DOMAIN f : i > k /\ f[i].address = a /\ f[i].type = "alloc"}
FreedAfter(f, k, a) == \E j \in DOMAIN f : j > k /\ f[j].address = a /\ f[j].type = "free"

\* Row r is the only latest one of block a.
IsTop(H, a, r) ==
    /\ r \in H /\ r.address = a
    /\ \A q \in H : q.address = a => q = r \/ q.allocated_at < r.allocated_at

\* Block a is new: it is in no row and no event.
ToldNever(f, k, H, a) ==
    /\ \A r \in H : r.address # a
    /\ \A i \in DOMAIN f : i > k => f[i].address # a
\* Its allocation is event i of the FIFO, which will be of step n ...
ToldByEvent(s, f, k, H, a, n, i) ==
    /\ AllocsOf(f, k, a) = {i} /\ f[i].size # 0
    /\ \A q \in H : q.address = a => q.allocated_at < n
    /\ s = Freed => FreedAfter(f, i, a)
    /\ s # Freed => ~FreedAfter(f, i, a) /\ f[i].size = s
\* ... or row r.
ToldByRow(s, f, k, H, a, r) ==
    /\ AllocsOf(f, k, a) = {} /\ IsTop(H, a, r)
    /\ s = Freed => r.freed_at # 0 \/ FreedAfter(f, k, a)
    /\ s # Freed => r.freed_at = 0 /\ ~FreedAfter(f, k, a) /\ r.size = s
\* Rows H and the events f after event k, to be read in step n, tell that block a
\* is in state s.
Told(s, f, k, H, a, n) ==
    \/ s = Never /\ ToldNever(f, k, H, a)
    \/ s # Never /\ \E i \in DOMAIN f : ToldByEvent(s, f, k, H, a, n, i)
    \/ s # Never /\ \E r \in H : ToldByRow(s, f, k, H, a, r)

\* The inductive invariant.
HeapInv ==
    /\ HeapTypeOK
    /\ UpTo(heap, step_id)
    /\ \A a \in Blocks \ blurred : Told(live[a], fifo, 0, heap, a, step_id + 1)
    /\ PointerVerdictExact

-----------------------------------------------------------------------------
(* One event.                                                              *)

NewRow(e, n) == [address |-> e.address, size |-> e.size, allocated_at |-> n, freed_at |-> 0]
Close(r, a, n) == IF r.address = a /\ r.freed_at = 0 THEN [r EXCEPT !.freed_at = n] ELSE r
Insert(H, e, n) == InsertHeap(H, HeapMsg(e, n))

\* What wrk_insert_heap() does with the event of an allocation ...
LEMMA InsertAlloc ==
    ASSUME NEW H, NEW e \in Event, NEW n, e.type = "alloc", e.size # 0
    PROVE  Insert(H, e, n) = H \cup {NewRow(e, n)}
BY DEF Insert, InsertHeap, HeapMsg, NewRow

\* ... and with any other event.
LEMMA InsertRelease ==
    ASSUME NEW H, NEW e \in Event, NEW n, e.type = "free" \/ e.size = 0
    PROVE  Insert(H, e, n) = {Close(r, e.address, n) : r \in H}
<1>1. HeapMsg(e, n).size = 0 /\ HeapMsg(e, n).address = e.address /\ HeapMsg(e, n).step_id = n
  BY DEF HeapMsg, Event
<1> QED  BY <1>1 DEF Insert, InsertHeap, Close

\* A row that is closed.
LEMMA CloseFacts ==
    ASSUME NEW r \in Row, NEW a, NEW n \in Nat
    PROVE  /\ Close(r, a, n) \in Row
           /\ Close(r, a, n).address = r.address
           /\ Close(r, a, n).size = r.size
           /\ Close(r, a, n).allocated_at = r.allocated_at
           /\ Close(r, a, n).freed_at = IF r.address = a /\ r.freed_at = 0 THEN n ELSE r.freed_at
BY DEF Close, Row

\* Rows stay rows.
LEMMA InsertTyped ==
    ASSUME NEW H, H \subseteq Row, NEW e \in Event, NEW n \in Nat
    PROVE  Insert(H, e, n) \subseteq Row
<1>1. CASE e.type = "alloc" /\ e.size # 0
  <2>1. NewRow(e, n) \in Row  BY DEF NewRow, Row, Event
  <2> QED  BY <1>1, <2>1, InsertAlloc
<1>2. CASE ~(e.type = "alloc" /\ e.size # 0)
  <2>1. e.type = "free" \/ e.size = 0  BY <1>2 DEF Event
  <2>2. \A r \in H : Close(r, e.address, n) \in Row  BY CloseFacts
  <2> QED  BY <2>1, <2>2, InsertRelease
<1> QED  BY <1>1, <1>2

\* An event of another block leaves the rows of block a alone.
LEMMA InsertOther ==
    ASSUME NEW H, H \subseteq Row, NEW e \in Event, NEW n \in Nat, NEW a, e.address # a,
           NEW r, r.address = a
    PROVE  r \in Insert(H, e, n) <=> r \in H
<1>1. CASE e.type = "alloc" /\ e.size # 0
  <2>1. NewRow(e, n).address = e.address  BY DEF NewRow
  <2> QED  BY <1>1, <2>1, InsertAlloc
<1>2. CASE ~(e.type = "alloc" /\ e.size # 0)
  <2>1. e.type = "free" \/ e.size = 0  BY <1>2 DEF Event
  <2>2. Insert(H, e, n) = {Close(q, e.address, n) : q \in H}  BY <2>1, InsertRelease
  <2>3. \A q \in H : Close(q, e.address, n).address = q.address  BY CloseFacts
  <2>4. ASSUME r \in H  PROVE r \in Insert(H, e, n)
    <3>1. Close(r, e.address, n) = r  BY DEF Close
    <3> QED  BY <2>2, <2>4, <3>1
  <2>5. ASSUME r \in Insert(H, e, n)  PROVE r \in H
    <3>1. PICK q \in H : r = Close(q, e.address, n)  BY <2>2, <2>5
    <3>2. q.address = a  BY <2>3, <3>1
    <3>3. Close(q, e.address, n) = q  BY <3>2 DEF Close
    <3> QED  BY <3>1, <3>3
  <2> QED  BY <2>4, <2>5
<1> QED  BY <1>1, <1>2

\* The rows of block a when an event of another block is read.
LEMMA ToldStepOther ==
    ASSUME NEW H, H \subseteq Row, NEW f \in Seq(Event), NEW n \in Nat \ {0}, NEW a, NEW s,
           NEW k \in 0 .. Len(f) - 1, f[k + 1].address # a, Told(s, f, k, H, a, n)
    PROVE  Told(s, f, k + 1, Insert(H, f[k + 1], n), a, n)
<1> DEFINE e == f[k + 1]
           G == Insert(H, e, n)
<1>1. e \in Event /\ DOMAIN f = 1 .. Len(f) /\ k \in Nat /\ Len(f) \in Nat  OBVIOUS
<1>2. \A r : r.address = a => (r \in G <=> r \in H)  BY <1>1, InsertOther
<1>3. \A i \in DOMAIN f : f[i].address = a => (i > k <=> i > k + 1)  BY <1>1
<1>4. AllocsOf(f, k + 1, a) = AllocsOf(f, k, a)  BY <1>3 DEF AllocsOf
<1>5. FreedAfter(f, k + 1, a) <=> FreedAfter(f, k, a)  BY <1>3 DEF FreedAfter
<1> HIDE DEF e, G
<1>6. CASE s = Never /\ ToldNever(f, k, H, a)
  <2>1. ToldNever(f, k + 1, G, a)  BY <1>1, <1>2, <1>3, <1>6 DEF ToldNever
  <2> QED  BY <1>6, <2>1 DEF Told, G, e
<1>7. ASSUME s # Never, NEW i \in DOMAIN f, ToldByEvent(s, f, k, H, a, n, i)  PROVE Told(s, f, k + 1, G, a, n)
  <2>1. ToldByEvent(s, f, k + 1, G, a, n, i)  BY <1>2, <1>4, <1>7 DEF ToldByEvent
  <2> QED  BY <1>7, <2>1 DEF Told
<1>8. ASSUME s # Never, NEW r \in H, ToldByRow(s, f, k, H, a, r)  PROVE Told(s, f, k + 1, G, a, n)
  <2>1. IsTop(G, a, r)  BY <1>2, <1>8 DEF ToldByRow, IsTop
  <2>2. ToldByRow(s, f, k + 1, G, a, r)  BY <1>4, <1>5, <1>8, <2>1 DEF ToldByRow
  <2>3. r \in G  BY <2>1 DEF IsTop
  <2> QED  BY <1>8, <2>2, <2>3 DEF Told
<1> QED  BY <1>6, <1>7, <1>8 DEF Told, G, e

\* The row of block a when its allocation is read ...
LEMMA ToldStepAlloc ==
    ASSUME NEW H, H \subseteq Row, NEW f \in Seq(Event), NEW n \in Nat \ {0}, NEW a, NEW s,
           NEW k \in 0 .. Len(f) - 1, s # Never, ToldByEvent(s, f, k, H, a, n, k + 1)
    PROVE  Told(s, f, k + 1, Insert(H, f[k + 1], n), a, n)
<1> DEFINE e == f[k + 1]
           G == Insert(H, e, n)
           r == NewRow(e, n)
<1>1. e \in Event /\ DOMAIN f = 1 .. Len(f) /\ k \in Nat /\ Len(f) \in Nat  OBVIOUS
<1>2. k + 1 \in AllocsOf(f, k, a)  BY DEF ToldByEvent
<1>3. e.type = "alloc" /\ e.address = a /\ e.size # 0  BY <1>2 DEF ToldByEvent, AllocsOf
<1>4. G = H \cup {r}  BY <1>1, <1>3, InsertAlloc
<1>5. r.address = a /\ r.size = e.size /\ r.allocated_at = n /\ r.freed_at = 0  BY <1>3 DEF NewRow
<1> HIDE DEF r
<1>6. AllocsOf(f, k + 1, a) = {}
  <2>1. \A i \in DOMAIN f : i > k + 1 => i > k /\ i # k + 1  BY <1>1
  <2>2. AllocsOf(f, k, a) = {k + 1}  BY DEF ToldByEvent
  <2> QED  BY <2>1, <2>2 DEF AllocsOf
<1>7. IsTop(G, a, r)  BY <1>4, <1>5 DEF IsTop, ToldByEvent
<1>8. ToldByRow(s, f, k + 1, G, a, r)  BY <1>5, <1>6, <1>7 DEF ToldByRow, ToldByEvent
<1> QED  BY <1>4, <1>8 DEF Told

\* ... and when a release of it is.
LEMMA ToldStepFree ==
    ASSUME NEW H, H \subseteq Row, NEW f \in Seq(Event), NEW n \in Nat \ {0}, NEW a, NEW s,
           NEW k \in 0 .. Len(f) - 1, f[k + 1].address = a, f[k + 1].type = "free",
           Told(s, f, k, H, a, n)
    PROVE  Told(s, f, k + 1, Insert(H, f[k + 1], n), a, n)
<1> DEFINE e == f[k + 1]
           G == Insert(H, e, n)
<1>1. e \in Event /\ DOMAIN f = 1 .. Len(f) /\ k \in Nat /\ Len(f) \in Nat  OBVIOUS
<1>2. k + 1 \in DOMAIN f /\ k + 1 > k  BY <1>1
<1>3. G = {Close(r, a, n) : r \in H}
  <2>1. e.type = "free" /\ e.address = a  OBVIOUS
  <2> HIDE DEF e
  <2>2. G = {Close(r, e.address, n) : r \in H}  BY <1>1, <2>1, InsertRelease
  <2> QED  BY <2>1, <2>2
<1>4. \A r \in H : /\ Close(r, a, n).address = r.address
                   /\ Close(r, a, n).size = r.size
                   /\ Close(r, a, n).allocated_at = r.allocated_at
                   /\ Close(r, a, n).freed_at = IF r.address = a /\ r.freed_at = 0 THEN n ELSE r.freed_at
  BY CloseFacts
<1> HIDE DEF e, G
<1>5. AllocsOf(f, k + 1, a) = AllocsOf(f, k, a)
  <2>1. \A i \in DOMAIN f : f[i].type = "alloc" => (i > k <=> i > k + 1)  BY <1>1
  <2> QED  BY <2>1 DEF AllocsOf
<1>6. ~(s = Never /\ ToldNever(f, k, H, a))  BY <1>2 DEF ToldNever
<1>7. ASSUME s # Never, NEW i \in DOMAIN f, ToldByEvent(s, f, k, H, a, n, i)  PROVE Told(s, f, k + 1, G, a, n)
  <2>1. \A q \in G : q.address = a => q.allocated_at < n  BY <1>3, <1>4, <1>7 DEF ToldByEvent
  <2>2. ToldByEvent(s, f, k + 1, G, a, n, i)  BY <1>5, <1>7, <2>1 DEF ToldByEvent
  <2> QED  BY <1>7, <2>2 DEF Told
<1>8. ASSUME s # Never, NEW r \in H, ToldByRow(s, f, k, H, a, r)  PROVE Told(s, f, k + 1, G, a, n)
  <2>1. FreedAfter(f, k, a)  BY <1>2 DEF FreedAfter
  <2>2. s = Freed  BY <1>8, <2>1 DEF ToldByRow
  <2> DEFINE q == Close(r, a, n)
  <2>3. q \in G  BY <1>3
  <2>4. q.freed_at # 0  BY <1>4, <1>8 DEF ToldByRow, IsTop
  <2>5. q.address = a /\ q.allocated_at = r.allocated_at  BY <1>4, <1>8 DEF ToldByRow, IsTop
  <2>6. ASSUME NEW p \in G, p.address = a  PROVE p = q \/ p.allocated_at < q.allocated_at
    <3>1. PICK o \in H : p = Close(o, a, n)  BY <1>3
    <3>2. o.address = a /\ p.allocated_at = o.allocated_at  BY <1>4, <2>6, <3>1
    <3>3. o = r \/ o.allocated_at < r.allocated_at  BY <1>8, <3>2 DEF ToldByRow, IsTop
    <3> QED  BY <2>5, <3>1, <3>2, <3>3
  <2> HIDE DEF q
  <2>7. IsTop(G, a, q)  BY <2>3, <2>5, <2>6 DEF IsTop
  <2>8. ToldByRow(s, f, k + 1, G, a, q)
    <3>1. AllocsOf(f, k + 1, a) = {}  BY <1>5, <1>8 DEF ToldByRow
    <3> QED  BY <2>2, <2>4, <2>7, <3>1 DEF ToldByRow
  <2> QED  BY <1>8, <2>3, <2>8 DEF Told
<1> QED  BY <1>6, <1>7, <1>8 DEF Told, G, e

\* Reading one event keeps what rows and events tell.
LEMMA ToldStep ==
    ASSUME NEW H, H \subseteq Row, NEW f \in Seq(Event), NEW n \in Nat \ {0}, NEW a, NEW s,
           NEW k \in 0 .. Len(f) - 1, Told(s, f, k, H, a, n)
    PROVE  Told(s, f, k + 1, Insert(H, f[k + 1], n), a, n)
<1>1. f[k + 1] \in Event /\ k + 1 \in DOMAIN f /\ k + 1 > k  OBVIOUS
<1>2. CASE f[k + 1].address # a  BY <1>2, ToldStepOther
<1>3. CASE f[k + 1].address = a /\ f[k + 1].type = "free"  BY <1>3, ToldStepFree
<1>4. CASE f[k + 1].address = a /\ f[k + 1].type = "alloc"
  <2>1. k + 1 \in AllocsOf(f, k, a)  BY <1>1, <1>4 DEF AllocsOf
  <2>2. ~(s = Never /\ ToldNever(f, k, H, a))  BY <1>1, <1>4 DEF ToldNever
  <2>3. \A r \in H : ~ToldByRow(s, f, k, H, a, r)  BY <2>1 DEF ToldByRow
  <2>4. PICK i \in DOMAIN f : s # Never /\ ToldByEvent(s, f, k, H, a, n, i)  BY <2>2, <2>3 DEF Told
  <2>5. i = k + 1  BY <2>1, <2>4 DEF ToldByEvent
  <2> QED  BY <2>4, <2>5, ToldStepAlloc
<1> QED  BY <1>1, <1>2, <1>3, <1>4 DEF Event

-----------------------------------------------------------------------------
(* All events of a step.                                                   *)

\* The rows after each event: t[0] are the rows H of the steps before.
Reading(t, H, f, n) ==
    /\ t[0] = H
    /\ \A i \in 1 .. Len(f) : t[i] = Insert(t[i - 1], f[i], n)

\* The recursive function of ReadEvents is that sequence of rows.
LEMMA ReadRecursion ==
    ASSUME HeapTypeOK, NEW n \in Nat, ReadEvents(n)
    PROVE  \E t : Reading(t, heap, fifo, n) /\ heap' = t[Len(fifo)] /\ fifo' = << >>
<1>1. PICK f, H, N : f = fifo /\ H = heap /\ N = Len(fifo)  OBVIOUS
<1>2. N \in Nat /\ f \in Seq(Event) /\ DOMAIN f = 1 .. N /\ H \in SUBSET Row
  BY <1>1 DEF HeapTypeOK
<1> DEFINE V == SUBSET Row
           F == [i \in 1 .. N |-> [G \in V |-> Insert(G, f[i], n)]]
           Body(g) == [i \in 0 .. N |-> IF i = 0 THEN H ELSE Insert(g[i - 1], f[i], n)]
<1>3. F \in [1 .. N -> [V -> V]]
  <2>1. \A i \in 1 .. N : f[i] \in Event  BY <1>1, <1>2
  <2>2. \A i \in 1 .. N : \A G \in V : Insert(G, f[i], n) \in V  BY <2>1, InsertTyped
  <2> HIDE DEF V
  <2> QED  BY <2>2
<1>4. PICK g \in [0 .. N -> V] : g[0] = H /\ \A i \in 1 .. N : g[i] = F[i][g[i - 1]]
  <2> HIDE DEF F
  <2>1. DefinedUpTo(N, V, H, F)  BY <1>2, <1>3, RecursionUpTo
  <2> QED  BY <2>1 DEF DefinedUpTo
<1>5. \A i \in 1 .. N : i - 1 \in 0 .. N /\ g[i - 1] \in V  BY <1>2
<1>6. \A i \in 1 .. N : g[i] = Insert(g[i - 1], f[i], n)
  <2> HIDE DEF V
  <2> QED  BY <1>4, <1>5
<1>7. g = Body(g)
  <2>1. \A i \in 0 .. N : g[i] = IF i = 0 THEN H ELSE Insert(g[i - 1], f[i], n)  BY <1>2, <1>4, <1>6
  <2> HIDE DEF V
  <2> QED  BY <2>1
<1>8. heap' = (CHOOSE t : t = Body(t))[N] /\ fifo' = << >>  BY <1>1 DEF ReadEvents, Insert
<1> HIDE DEF Body
<1>9. PICK t : t = Body(t) /\ heap' = t[N]  BY <1>7, <1>8
<1>10. t[0] = H /\ \A i \in 1 .. N : t[i] = Insert(t[i - 1], f[i], n)
  BY <1>2, <1>9 DEF Body
<1> QED  BY <1>1, <1>8, <1>9, <1>10 DEF Reading

\* While the events are read, the rows stay rows and tell the same.
LEMMA ReadingTold ==
    ASSUME NEW H, H \subseteq Row, NEW f \in Seq(Event), NEW n \in Nat \ {0}, NEW t,
           Reading(t, H, f, n)
    PROVE  /\ t[Len(f)] \subseteq Row
           /\ \A a, s : Told(s, f, 0, H, a, n) => Told(s, f, Len(f), t[Len(f)], a, n)
<1>1. PICK N \in Nat : N = Len(f)  OBVIOUS
<1> DEFINE Good(k) == /\ t[k] \subseteq Row
                      /\ \A a, s : Told(s, f, 0, H, a, n) => Told(s, f, k, t[k], a, n)
           S == {k \in 0 .. N : Good(k)}
<1>2. 0 \in S
  <2>1. Good(0)  BY DEF Reading
  <2> QED  BY <1>1, <2>1
<1>3. ASSUME NEW k \in 0 .. N - 1, k \in S  PROVE k + 1 \in S
  <2>1. Good(k)  BY <1>3
  <2>2. k + 1 \in 1 .. N /\ k + 1 \in 0 .. N /\ (k + 1) - 1 = k  BY <1>1
  <2>3. t[k + 1] = Insert(t[k], f[k + 1], n)  BY <1>1, <2>2 DEF Reading
  <2>4. f[k + 1] \in Event  BY <1>1, <2>2
  <2>5. t[k + 1] \subseteq Row  BY <2>1, <2>3, <2>4, InsertTyped
  <2>6. ASSUME NEW a, NEW s, Told(s, f, 0, H, a, n)  PROVE Told(s, f, k + 1, t[k + 1], a, n)
    <3>1. Told(s, f, k, t[k], a, n) /\ t[k] \subseteq Row  BY <2>1, <2>6
    <3> QED  BY <1>1, <2>3, <3>1, ToldStep
  <2>7. Good(k + 1)  BY <2>5, <2>6
  <2> QED  BY <2>2, <2>7
<1> HIDE DEF S
<1>4. 0 .. N \subseteq S  BY <1>2, <1>3, InductionUpTo
<1>5. N \in S  BY <1>1, <1>4
<1> QED  BY <1>1, <1>5 DEF S

\* When all are read, the rows alone tell it, whatever the step.
LEMMA ReadTold ==
    ASSUME NEW H, NEW f \in Seq(Event), NEW n, NEW m, NEW a, NEW s, Told(s, f, Len(f), H, a, n)
    PROVE  Told(s, << >>, 0, H, a, m)
<1>1. \A i \in DOMAIN f : ~(i > Len(f))  OBVIOUS
<1>2. DOMAIN << >> = {}  OBVIOUS
<1>3. AllocsOf(<< >>, 0, a) = {} /\ AllocsOf(f, Len(f), a) = {}  BY <1>1, <1>2 DEF AllocsOf
<1>4. ~FreedAfter(<< >>, 0, a) /\ ~FreedAfter(f, Len(f), a)  BY <1>1, <1>2 DEF FreedAfter
<1>5. CASE s = Never /\ ToldNever(f, Len(f), H, a)
  BY <1>2, <1>5 DEF ToldNever, Told
<1>6. \A i \in DOMAIN f : ~ToldByEvent(s, f, Len(f), H, a, n, i)  BY <1>3 DEF ToldByEvent
<1>7. ASSUME s # Never, NEW r \in H, ToldByRow(s, f, Len(f), H, a, r)  PROVE Told(s, << >>, 0, H, a, m)
  BY <1>3, <1>4, <1>7 DEF ToldByRow, Told
<1> QED  BY <1>5, <1>6, <1>7 DEF Told

-----------------------------------------------------------------------------
(* The steps before.                                                       *)

\* Row q is row r, or r closed in step n.
Later(r, q, n) ==
    /\ q.address = r.address /\ q.size = r.size /\ q.allocated_at = r.allocated_at
    /\ q.freed_at = r.freed_at \/ (r.freed_at = 0 /\ q.freed_at = n)

\* Step n makes G of the rows H: it adds rows of its own, and closes rows.
Evolves(H, G, n) ==
    /\ \A r \in H : \E q \in G : Later(r, q, n)
    /\ \A q \in G : (q.allocated_at = n /\ q.freed_at \in {0, n}) \/ \E r \in H : Later(r, q, n)

\* Reading one more event is still such a step.
LEMMA EvolvesStep ==
    ASSUME NEW H, NEW G, G \subseteq Row, NEW e \in Event, NEW n \in Nat, Evolves(H, G, n)
    PROVE  Evolves(H, Insert(G, e, n), n)
<1>1. CASE e.type = "alloc" /\ e.size # 0
  <2>1. Insert(G, e, n) = G \cup {NewRow(e, n)}  BY <1>1, InsertAlloc
  <2>2. NewRow(e, n).allocated_at = n /\ NewRow(e, n).freed_at = 0  BY DEF NewRow
  <2> QED  BY <2>1, <2>2 DEF Evolves
<1>2. CASE ~(e.type = "alloc" /\ e.size # 0)
  <2> DEFINE C(r) == Close(r, e.address, n)
  <2>1. e.type = "free" \/ e.size = 0  BY <1>2 DEF Event
  <2>2. Insert(G, e, n) = {C(r) : r \in G}  BY <2>1, InsertRelease
  <2>3. \A r \in G : Later(r, C(r), n)  BY CloseFacts DEF Later
  <2>4. \A r, q, p : Later(r, q, n) /\ Later(q, p, n) => Later(r, p, n)  BY DEF Later
  <2> HIDE DEF C
  <2>5. ASSUME NEW r \in H  PROVE \E q \in Insert(G, e, n) : Later(r, q, n)
    <3>1. PICK q \in G : Later(r, q, n)  BY DEF Evolves
    <3>2. C(q) \in Insert(G, e, n) /\ Later(r, C(q), n)  BY <2>2, <2>3, <2>4, <3>1
    <3> QED  BY <3>2
  <2>6. ASSUME NEW p \in Insert(G, e, n)
        PROVE  (p.allocated_at = n /\ p.freed_at \in {0, n}) \/ \E r \in H : Later(r, p, n)
    <3>1. PICK q \in G : p = C(q)  BY <2>2
    <3>2. Later(q, p, n)  BY <2>3, <3>1
    <3>3. CASE q.allocated_at = n /\ q.freed_at \in {0, n}  BY <3>2, <3>3 DEF Later
    <3>4. ASSUME NEW r \in H, Later(r, q, n)  PROVE Later(r, p, n)  BY <2>4, <3>2, <3>4
    <3> QED  BY <3>3, <3>4 DEF Evolves
  <2> QED  BY <2>5, <2>6 DEF Evolves
<1> QED  BY <1>1, <1>2

\* Reading the events of a step is such a step.
LEMMA ReadingEvolves ==
    ASSUME NEW H, H \subseteq Row, NEW f \in Seq(Event), NEW n \in Nat, NEW t,
           Reading(t, H, f, n)
    PROVE  Evolves(H, t[Len(f)], n)
<1>1. PICK N \in Nat : N = Len(f)  OBVIOUS
<1> DEFINE Good(k) == t[k] \subseteq Row /\ Evolves(H, t[k], n)
           S == {k \in 0 .. N : Good(k)}
<1>2. 0 \in S
  <2>1. Evolves(H, H, n)  BY DEF Later, Evolves
  <2> QED  BY <1>1, <2>1 DEF Reading
<1>3. ASSUME NEW k \in 0 .. N - 1, k \in S  PROVE k + 1 \in S
  <2>1. k + 1 \in 1 .. N /\ k + 1 \in 0 .. N /\ (k + 1) - 1 = k  BY <1>1
  <2>2. t[k + 1] = Insert(t[k], f[k + 1], n)  BY <1>1, <2>1 DEF Reading
  <2>3. f[k + 1] \in Event  BY <1>1, <2>1
  <2>4. Good(k + 1)  BY <1>3, <2>2, <2>3, InsertTyped, EvolvesStep
  <2> QED  BY <2>1, <2>4
<1> HIDE DEF S
<1>4. 0 .. N \subseteq S  BY <1>2, <1>3, InductionUpTo
<1>5. N \in S  BY <1>1, <1>4
<1> QED  BY <1>1, <1>5 DEF S

\* The rows of a step are of steps up to it.
LEMMA EvolvesUpTo ==
    ASSUME NEW H, H \subseteq Row, NEW G, G \subseteq Row, NEW m \in Nat, UpTo(H, m), Evolves(H, G, m + 1)
    PROVE  UpTo(G, m + 1)
<1> SUFFICES ASSUME NEW q \in G
             PROVE  q.allocated_at >= 1 /\ q.allocated_at <= m + 1 /\ q.freed_at <= m + 1
  BY DEF UpTo
<1>1. CASE q.allocated_at = m + 1 /\ q.freed_at \in {0, m + 1}  BY <1>1
<1>2. ASSUME NEW r \in H, Later(r, q, m + 1)
      PROVE  q.allocated_at >= 1 /\ q.allocated_at <= m + 1 /\ q.freed_at <= m + 1
  <2>1. r.allocated_at \in Nat /\ r.freed_at \in Nat  BY DEF Row
  <2>2. r.allocated_at >= 1 /\ r.allocated_at <= m /\ r.freed_at <= m  BY DEF UpTo
  <2> QED  BY <1>2, <2>1, <2>2 DEF Later
<1> QED  BY <1>1, <1>2 DEF Evolves

-----------------------------------------------------------------------------
(* Verdicts.                                                               *)

KnownIn(H, a, s) == {r \in H : r.address = a /\ r.allocated_at <= s}
LatestIn(H, a, s) == {r \in KnownIn(H, a, s) : \A q \in KnownIn(H, a, s) : q.allocated_at <= r.allocated_at}
VerdictOf(r, s) ==
    IF r.freed_at # 0 /\ r.freed_at <= s THEN Verdict("released", 0) ELSE Verdict("success", r.size)
VerdictsIn(H, a, s) ==
    IF LatestIn(H, a, s) # {} THEN {VerdictOf(r, s) : r \in LatestIn(H, a, s)}
    ELSE {Verdict("notfound", 0)}
Due(was) ==
    IF was = Never THEN Verdict("notfound", 0)
    ELSE IF was = Freed THEN Verdict("released", 0) ELSE Verdict("success", was)

\* The property in terms of the rows.
LEMMA VerdictsOfRows ==
    PointerVerdictExact <=>
        \A s \in 1 .. step_id : \A a \in Blocks \ blurs[s] : VerdictsIn(heap, a, s) = {Due(lives[s][a])}
<1>1. \A a, s : Latest(a, s) = LatestIn(heap, a, s)  BY DEF Latest, LatestIn, KnownIn
<1>2. \A a, s : PointerSizes(a, s, FALSE) = VerdictsIn(heap, a, s)
  BY <1>1 DEF PointerSizes, VerdictsIn, VerdictOf
<1> QED  BY <1>2 DEF PointerVerdictExact, Due

\* A later step does not change the verdicts of an earlier one.
LEMMA EarlierVerdicts ==
    ASSUME NEW H, H \subseteq Row, NEW G, G \subseteq Row, NEW n \in Nat, Evolves(H, G, n),
           NEW s \in Nat, s < n, NEW a
    PROVE  VerdictsIn(G, a, s) = VerdictsIn(H, a, s)
<1> DEFINE KH == KnownIn(H, a, s)
           KG == KnownIn(G, a, s)
           LH == LatestIn(H, a, s)
           LG == LatestIn(G, a, s)
<1>1. \A r \in KH : \E q \in KG : Later(r, q, n)  BY DEF Evolves, KnownIn, Later
<1>2. \A q \in KG : \E r \in KH : Later(r, q, n)
  <2> SUFFICES ASSUME NEW q \in KG  PROVE \E r \in KH : Later(r, q, n)
    OBVIOUS
  <2>1. q \in G /\ q.allocated_at <= s  BY DEF KnownIn
  <2>2. q.allocated_at # n  BY <2>1 DEF Row
  <2>3. PICK r \in H : Later(r, q, n)  BY <2>1, <2>2 DEF Evolves
  <2>4. r \in KH  BY <2>3 DEF KnownIn, Later
  <2> QED  BY <2>3, <2>4
<1> HIDE DEF KH, KG
<1>3. LH = {r \in KH : \A q \in KH : q.allocated_at <= r.allocated_at}  BY DEF LatestIn, KH
<1>4. LG = {r \in KG : \A q \in KG : q.allocated_at <= r.allocated_at}  BY DEF LatestIn, KG
<1> HIDE DEF LH, LG
<1>5. \A r \in LH : \E q \in LG : Later(r, q, n)  BY <1>1, <1>2, <1>3, <1>4 DEF Later
<1>6. \A q \in LG : \E r \in LH : Later(r, q, n)  BY <1>1, <1>2, <1>3, <1>4 DEF Later
<1>7. \A r \in LH : r \in H  BY <1>3 DEF KH, KnownIn
<1>8. ASSUME NEW r \in LH, NEW q, Later(r, q, n)  PROVE VerdictOf(q, s) = VerdictOf(r, s)
  <2>1. r.freed_at \in Nat  BY <1>7 DEF Row
  <2> QED  BY <1>8, <2>1 DEF Later, VerdictOf
<1>9. LH = {} <=> LG = {}  BY <1>5, <1>6
<1>10. {VerdictOf(r, s) : r \in LG} = {VerdictOf(r, s) : r \in LH}  BY <1>5, <1>6, <1>8
<1> QED  BY <1>9, <1>10 DEF VerdictsIn, LH, LG

\* When no event is pending, the verdict on a block is its state.
LEMMA ToldVerdict ==
    ASSUME NEW H, H \subseteq Row, NEW s \in Nat, UpTo(H, s), NEW a, NEW w, NEW m, Told(w, << >>, 0, H, a, m)
    PROVE  VerdictsIn(H, a, s) = {Due(w)}
<1>1. DOMAIN << >> = {}  OBVIOUS
<1>2. ~FreedAfter(<< >>, 0, a)  BY <1>1 DEF FreedAfter
<1>3. CASE w = Never
  <2>1. ToldNever(<< >>, 0, H, a)  BY <1>3 DEF Told
  <2>2. LatestIn(H, a, s) = {}  BY <2>1 DEF ToldNever, LatestIn, KnownIn
  <2> QED  BY <1>3, <2>2 DEF VerdictsIn, Due
<1>4. CASE w # Never
  <2>1. PICK r \in H : ToldByRow(w, << >>, 0, H, a, r)  BY <1>1, <1>4 DEF Told
  <2>2. IsTop(H, a, r)  BY <2>1 DEF ToldByRow
  <2>3. KnownIn(H, a, s) = {q \in H : q.address = a}  BY DEF KnownIn, UpTo
  <2>4. LatestIn(H, a, s) = {r}
    <3>1. \A q \in H : q.allocated_at \in Nat  BY DEF Row
    <3> QED  BY <2>2, <2>3, <3>1 DEF LatestIn, IsTop
  <2>5. VerdictOf(r, s) = Due(w)
    <3>1. r.freed_at \in Nat /\ r.freed_at <= s  BY DEF Row, UpTo
    <3> QED  BY <1>2, <1>4, <2>1, <3>1 DEF ToldByRow, VerdictOf, Due
  <2> QED  BY <2>4, <2>5 DEF VerdictsIn
<1> QED  BY <1>3, <1>4

-----------------------------------------------------------------------------
(* One more event in the FIFO.                                             *)

Sent(type, address, size) == [type |-> type, address |-> address, size |-> size]

\* An event of another block tells nothing of block a.
LEMMA AppendOther ==
    ASSUME NEW f \in Seq(Event), NEW e \in Event, NEW H, NEW a, NEW s, NEW n,
           e.address # a, Told(s, f, 0, H, a, n)
    PROVE  Told(s, Append(f, e), 0, H, a, n)
<1> DEFINE g == Append(f, e)
<1>1. PICK N \in Nat : N = Len(f) /\ DOMAIN f = 1 .. N  OBVIOUS
<1>2. /\ DOMAIN g = 1 .. N + 1 /\ g[N + 1] = e
      /\ \A i \in 1 .. N : g[i] = f[i]
  BY <1>1
<1> HIDE DEF g
<1>3. \A i \in DOMAIN g : g[i].address = a => i \in DOMAIN f /\ g[i] = f[i]  BY <1>1, <1>2
<1>4. \A i \in DOMAIN f : i \in DOMAIN g /\ g[i] = f[i]  BY <1>1, <1>2
<1>5. AllocsOf(g, 0, a) = AllocsOf(f, 0, a)  BY <1>3, <1>4 DEF AllocsOf
<1>6. \A i : FreedAfter(g, i, a) <=> FreedAfter(f, i, a)  BY <1>3, <1>4 DEF FreedAfter
<1>7. CASE s = Never /\ ToldNever(f, 0, H, a)
  <2>1. ToldNever(g, 0, H, a)  BY <1>3, <1>7 DEF ToldNever
  <2> QED  BY <1>7, <2>1 DEF Told, g
<1>8. ASSUME s # Never, NEW i \in DOMAIN f, ToldByEvent(s, f, 0, H, a, n, i)  PROVE Told(s, g, 0, H, a, n)
  <2>1. ToldByEvent(s, g, 0, H, a, n, i)  BY <1>4, <1>5, <1>6, <1>8 DEF ToldByEvent
  <2> QED  BY <1>4, <1>8, <2>1 DEF Told
<1>9. ASSUME s # Never, NEW r \in H, ToldByRow(s, f, 0, H, a, r)  PROVE Told(s, g, 0, H, a, n)
  <2>1. ToldByRow(s, g, 0, H, a, r)  BY <1>5, <1>6, <1>9 DEF ToldByRow
  <2> QED  BY <1>9, <2>1 DEF Told
<1> QED  BY <1>7, <1>8, <1>9 DEF Told, g

\* The only allocation of block a in the FIFO tells its size, whatever the rows
\* and the releases before it said.
LEMMA AppendAlloc ==
    ASSUME NEW f \in Seq(Event), NEW H, H \subseteq Row, NEW m \in Nat, UpTo(H, m),
           NEW a \in Nat, NEW size \in Nat \ {0},
           \A i \in DOMAIN f : f[i].address = a => f[i].type # "alloc"
    PROVE  Told(size, Append(f, Sent("alloc", a, size)), 0, H, a, m + 1)
<1> DEFINE e == Sent("alloc", a, size)
           g == Append(f, e)
<1>1. PICK N \in Nat : N = Len(f) /\ DOMAIN f = 1 .. N  OBVIOUS
<1>2. e.type = "alloc" /\ e.address = a /\ e.size = size  BY DEF Sent
<1>3. /\ DOMAIN g = 1 .. N + 1 /\ g[N + 1] = e
      /\ \A i \in 1 .. N : g[i] = f[i]
  BY <1>1
<1> HIDE DEF g, e
<1>4. AllocsOf(g, 0, a) = {N + 1}
  <2>1. \A i \in DOMAIN g : i > 0 /\ (i \in DOMAIN f \/ i = N + 1)  BY <1>1, <1>3
  <2>2. \A i \in DOMAIN f : g[i] = f[i]  BY <1>1, <1>3
  <2>3. N + 1 \in DOMAIN g  BY <1>3
  <2> QED  BY <1>2, <1>3, <2>1, <2>2, <2>3 DEF AllocsOf
<1>5. ~FreedAfter(g, N + 1, a)  BY <1>1, <1>3 DEF FreedAfter
<1>6. \A q \in H : q.allocated_at < m + 1  BY DEF UpTo, Row
<1>7. size # Never /\ size # Freed  BY DEF Never, Freed
<1>8. ToldByEvent(size, g, 0, H, a, m + 1, N + 1)
  BY <1>2, <1>3, <1>4, <1>5, <1>6, <1>7 DEF ToldByEvent
<1> QED  BY <1>1, <1>3, <1>7, <1>8 DEF Told, g, e

\* A release of a block that is allocated tells that it is not any more.
LEMMA AppendFree ==
    ASSUME NEW f \in Seq(Event), NEW H, NEW a \in Nat, NEW s \in Nat, NEW n, Told(s, f, 0, H, a, n)
    PROVE  Told(Freed, Append(f, Sent("free", a, 0)), 0, H, a, n)
<1> DEFINE e == Sent("free", a, 0)
           g == Append(f, e)
<1>1. PICK N \in Nat : N = Len(f) /\ DOMAIN f = 1 .. N  OBVIOUS
<1>2. e.type = "free" /\ e.address = a  BY DEF Sent
<1>3. /\ DOMAIN g = 1 .. N + 1 /\ g[N + 1] = e
      /\ \A i \in 1 .. N : g[i] = f[i]
  BY <1>1
<1> HIDE DEF g, e
<1>4. AllocsOf(g, 0, a) = AllocsOf(f, 0, a)
  <2>1. \A i \in DOMAIN g : g[i].type = "alloc" => i \in DOMAIN f /\ g[i] = f[i]  BY <1>1, <1>2, <1>3
  <2>2. \A i \in DOMAIN f : i \in DOMAIN g /\ g[i] = f[i]  BY <1>1, <1>3
  <2> QED  BY <2>1, <2>2 DEF AllocsOf
<1>5. \A i \in 0 .. N : FreedAfter(g, i, a)
  <2>1. N + 1 \in DOMAIN g /\ \A i \in 0 .. N : N + 1 > i  BY <1>1, <1>3
  <2> QED  BY <1>2, <1>3, <2>1 DEF FreedAfter
<1>6. s # Never /\ Freed # Never  BY DEF Never, Freed
<1>7. ASSUME NEW i \in DOMAIN f, ToldByEvent(s, f, 0, H, a, n, i)  PROVE Told(Freed, g, 0, H, a, n)
  <2>1. i \in DOMAIN g /\ i \in 0 .. N /\ g[i] = f[i]  BY <1>1, <1>3
  <2>2. ToldByEvent(Freed, g, 0, H, a, n, i)  BY <1>4, <1>5, <1>7, <2>1 DEF ToldByEvent
  <2> QED  BY <1>6, <2>1, <2>2 DEF Told
<1>8. ASSUME NEW r \in H, ToldByRow(s, f, 0, H, a, r)  PROVE Told(Freed, g, 0, H, a, n)
  <2>1. FreedAfter(g, 0, a)  BY <1>1, <1>5
  <2>2. ToldByRow(Freed, g, 0, H, a, r)  BY <1>4, <1>8, <2>1 DEF ToldByRow
  <2> QED  BY <1>6, <1>8, <2>2 DEF Told
<1> QED  BY <1>6, <1>7, <1>8 DEF Told, g, e

-----------------------------------------------------------------------------
(* The calls of the program.                                               *)

\* What all calls leave alone.
QuietVars == <<step_id, heap, lives, blurs>>

\* Between two steps the verdicts stay, and so do the rows.
LEMMA QuietKeeps ==
    ASSUME HeapInv, UNCHANGED QuietVars,
           live' \in [Blocks -> BlockState], fifo' \in Seq(Event), blurred' \subseteq Blocks,
           \A a \in Blocks \ blurred' : Told(live'[a], fifo', 0, heap, a, step_id + 1)
    PROVE  HeapInv'
<1>1. step_id' = step_id /\ heap' = heap /\ lives' = lives /\ blurs' = blurs  BY DEF QuietVars
<1>2. HeapTypeOK'  BY <1>1 DEF HeapInv, HeapTypeOK
<1>3. UpTo(heap, step_id)'  BY <1>1 DEF HeapInv, UpTo
<1>4. PointerVerdictExact'
  BY <1>1 DEF HeapInv, PointerVerdictExact, PointerSizes, Latest, Verdict
<1> QED  BY <1>1, <1>2, <1>3, <1>4 DEF HeapInv

\* What is sent is an event.
LEMMA SendTyped ==
    ASSUME HeapTypeOK, NEW type \in {"alloc", "free"}, NEW a \in Nat, NEW size \in Nat, Send(type, a, size)
    PROVE  /\ fifo' \in Seq(Event)
           /\ Sent(type, a, size) \in Event
           /\ Sends => fifo' = Append(fifo, Sent(type, a, size))
           /\ ~Sends => fifo' = fifo
<1>1. Sent(type, a, size) \in Event  BY DEF Sent, Event
<1>2. fifo' = IF Sends THEN Append(fifo, Sent(type, a, size)) ELSE fifo  BY DEF Send, Sent
<1>3. Append(fifo, Sent(type, a, size)) \in Seq(Event)  BY <1>1 DEF HeapTypeOK
<1> QED  BY <1>1, <1>2, <1>3 DEF HeapTypeOK

\* Blocks that the call is not about.
LEMMA SendOther ==
    ASSUME HeapInv, NEW type \in {"alloc", "free"}, NEW a \in Nat, NEW size \in Nat, Send(type, a, size),
           NEW b \in Blocks \ blurred, b # a
    PROVE  Told(live[b], fifo', 0, heap, b, step_id + 1)
<1>1. Told(live[b], fifo, 0, heap, b, step_id + 1) /\ HeapTypeOK  BY DEF HeapInv
<1>2. Sent(type, a, size).address = a  BY DEF Sent
<1>3. CASE Sends
  <2>1. fifo' = Append(fifo, Sent(type, a, size)) /\ Sent(type, a, size) \in Event  BY <1>1, <1>3, SendTyped
  <2>2. fifo \in Seq(Event)  BY <1>1 DEF HeapTypeOK
  <2> QED  BY <1>1, <1>2, <2>1, <2>2, AppendOther
<1>4. CASE ~Sends
  <2>1. fifo' = fifo  BY <1>1, <1>4, SendTyped
  <2> QED  BY <1>1, <2>1
<1> QED  BY <1>3, <1>4

\* The block that is allocated.
LEMMA SendAlloc ==
    ASSUME HeapInv, NEW a \in Nat, NEW size \in Nat, Send("alloc", a, size), Clear(a, size)
    PROVE  Told(size, fifo', 0, heap, a, step_id + 1)
<1>1. HeapTypeOK /\ UpTo(heap, step_id)  BY DEF HeapInv
<1>2. fifo' = Append(fifo, Sent("alloc", a, size))  BY <1>1, SendTyped DEF Clear
<1>3. PICK f, H, m : f = fifo /\ H = heap /\ m = step_id  OBVIOUS
<1>4. f \in Seq(Event) /\ H \subseteq Row /\ m \in Nat /\ UpTo(H, m)  BY <1>1, <1>3 DEF HeapTypeOK
<1>5. size # 0 /\ \A i \in DOMAIN f : f[i].address = a => f[i].type # "alloc"  BY <1>3 DEF Clear
<1>6. Told(size, Append(f, Sent("alloc", a, size)), 0, H, a, m + 1)  BY <1>4, <1>5, AppendAlloc
<1> QED  BY <1>2, <1>3, <1>6

\* malloc() and the calls like it keep the invariant.
LEMMA MallocKeeps ==
    ASSUME HeapInv, NEW a \in Blocks, NEW size \in Sizes, malloc(a, size), UNCHANGED QuietVars
    PROVE  HeapInv'
<1>1. a \in Nat /\ size \in Nat /\ HeapTypeOK  BY HeapAssumption DEF HeapInv
<1>2. Send("alloc", a, size) /\ live' = [live EXCEPT ![a] = size]  BY DEF malloc
<1>3. fifo' \in Seq(Event)  BY <1>1, <1>2, SendTyped
<1>4. live' \in [Blocks -> BlockState] /\ blurred' \subseteq Blocks
  BY <1>1, <1>2 DEF malloc, HeapTypeOK, BlockState
<1>5. ASSUME NEW b \in Blocks \ blurred'  PROVE Told(live'[b], fifo', 0, heap, b, step_id + 1)
  <2>1. CASE b = a
    <3>1. Clear(a, size)  BY <1>5, <2>1 DEF malloc
    <3>2. live'[a] = size  BY <1>1, <1>2 DEF HeapTypeOK
    <3> QED  BY <1>1, <1>2, <2>1, <3>1, <3>2, SendAlloc
  <2>2. CASE b # a
    <3>1. b \in Blocks \ blurred  BY <1>5, <2>2 DEF malloc
    <3>2. live'[b] = live[b]  BY <1>1, <1>2, <2>2 DEF HeapTypeOK
    <3> QED  BY <1>1, <1>2, <2>2, <3>1, <3>2, SendOther
  <2> QED  BY <2>1, <2>2
<1> QED  BY <1>3, <1>4, <1>5, QuietKeeps

\* So does realloc(), in place or to another block,
LEMMA ReallocKeeps ==
    ASSUME HeapInv, NEW a \in Blocks, NEW b \in Blocks, NEW size \in Sizes, realloc(a, b, size), UNCHANGED QuietVars
    PROVE  HeapInv'
<1>1. a \in Nat /\ b \in Nat /\ size \in Nat /\ HeapTypeOK  BY HeapAssumption DEF HeapInv
<1>2. Send("alloc", b, size) /\ live' = [[live EXCEPT ![a] = Freed] EXCEPT ![b] = size]  BY DEF realloc
<1>3. fifo' \in Seq(Event)  BY <1>1, <1>2, SendTyped
<1>4. live' \in [Blocks -> BlockState] /\ blurred' \subseteq Blocks
  BY <1>1, <1>2 DEF realloc, HeapTypeOK, BlockState
<1>5. ASSUME NEW c \in Blocks \ blurred'  PROVE Told(live'[c], fifo', 0, heap, c, step_id + 1)
  <2>1. CASE c = b
    <3>1. Clear(b, size)  BY <1>5, <2>1 DEF realloc
    <3>2. live'[b] = size  BY <1>1, <1>2 DEF HeapTypeOK
    <3> QED  BY <1>1, <1>2, <2>1, <3>1, <3>2, SendAlloc
  <2>2. CASE c # b
    <3>1. c \in Blocks \ blurred /\ c # a  BY <1>5, <2>2 DEF realloc
    <3>2. live'[c] = live[c]  BY <1>1, <1>2, <2>2, <3>1 DEF HeapTypeOK
    <3> QED  BY <1>1, <1>2, <2>2, <3>1, <3>2, SendOther
  <2> QED  BY <2>1, <2>2
<1> QED  BY <1>3, <1>4, <1>5, QuietKeeps

\* ... realloc() to size 0,
LEMMA ReallocToZeroKeeps ==
    ASSUME HeapInv, NEW a \in Blocks, ReallocToZero(a), UNCHANGED QuietVars
    PROVE  HeapInv'
<1>1. HeapTypeOK  BY DEF HeapInv
<1>2. live' \in [Blocks -> BlockState] /\ blurred' \subseteq Blocks /\ fifo' \in Seq(Event)
  BY <1>1 DEF ReallocToZero, HeapTypeOK, BlockState
<1>3. ASSUME NEW b \in Blocks \ blurred'  PROVE Told(live'[b], fifo', 0, heap, b, step_id + 1)
  <2>1. b \in Blocks \ blurred /\ b # a  BY <1>3 DEF ReallocToZero
  <2>2. live'[b] = live[b] /\ fifo' = fifo  BY <1>1, <2>1 DEF HeapTypeOK, ReallocToZero
  <2> QED  BY <2>1, <2>2 DEF HeapInv
<1> QED  BY <1>2, <1>3, QuietKeeps

\* ... and free().
LEMMA FreeKeeps ==
    ASSUME HeapInv, NEW a \in Blocks \cup {NULL}, free(a), UNCHANGED QuietVars
    PROVE  HeapInv'
<1>1. a \in Nat /\ HeapTypeOK /\ NULL \notin Blocks  BY HeapAssumption DEF HeapInv, NULL
<1>2. Send("free", a, 0)  BY DEF free
<1>3. fifo' \in Seq(Event)  BY <1>1, <1>2, SendTyped
<1>4. live' \in [Blocks -> BlockState] /\ blurred' \subseteq Blocks
  BY <1>1 DEF free, HeapTypeOK, BlockState
<1>5. ASSUME NEW b \in Blocks \ blurred'  PROVE Told(live'[b], fifo', 0, heap, b, step_id + 1)
  <2>1. CASE b = a
    <3>1. a # NULL /\ Sends /\ b \in Blocks \ blurred  BY <1>1, <1>5, <2>1 DEF free
    <3>2. live'[a] = Freed /\ live[a] >= 0  BY <1>1, <2>1, <3>1 DEF free, HeapTypeOK
    <3>3. live[a] \in Nat  BY <1>1, <2>1, <3>2 DEF HeapTypeOK, BlockState, Never, Freed
    <3>4. Told(live[a], fifo, 0, heap, a, step_id + 1)  BY <2>1, <3>1 DEF HeapInv
    <3>5. fifo' = Append(fifo, Sent("free", a, 0)) /\ fifo \in Seq(Event)
      BY <1>1, <1>2, <3>1, SendTyped DEF HeapTypeOK
    <3> QED  BY <1>1, <2>1, <3>2, <3>3, <3>4, <3>5, AppendFree
  <2>2. CASE b # a
    <3>1. b \in Blocks \ blurred  BY <1>5 DEF free
    <3>2. live'[b] = live[b]  BY <1>1, <2>2 DEF free, HeapTypeOK
    <3> QED  BY <1>1, <1>2, <2>2, <3>1, <3>2, SendOther
  <2> QED  BY <2>1, <2>2
<1> QED  BY <1>3, <1>4, <1>5, QuietKeeps

-----------------------------------------------------------------------------
(* A step.                                                                 *)

\* process_breakpoint() and the worker keep the invariant.
LEMMA StepKeeps ==
    ASSUME HeapInv, HeapStep
    PROVE  HeapInv'
<1>1. HeapTypeOK /\ UpTo(heap, step_id) /\ step_id \in Nat  BY DEF HeapInv, HeapTypeOK
<1>2. PICK H, f, m, G : H = heap /\ f = fifo /\ m = step_id /\ G = heap'  OBVIOUS
<1>3. H \subseteq Row /\ f \in Seq(Event) /\ m \in Nat /\ m + 1 \in Nat \ {0} /\ UpTo(H, m)
  BY <1>1, <1>2 DEF HeapTypeOK
<1>4. PICK t : Reading(t, H, f, m + 1) /\ G = t[Len(f)] /\ fifo' = << >>
  <2>1. ReadEvents(m + 1)  BY <1>2 DEF HeapStep
  <2> QED  BY <1>1, <1>2, <1>3, <2>1, ReadRecursion
<1>5. G \subseteq Row /\ \A a, s : Told(s, f, 0, H, a, m + 1) => Told(s, f, Len(f), G, a, m + 1)
  BY <1>3, <1>4, ReadingTold
<1>6. Evolves(H, G, m + 1)  BY <1>3, <1>4, ReadingEvolves
<1>7. UpTo(G, m + 1)  BY <1>3, <1>5, <1>6, EvolvesUpTo
<1>8. PICK L, B, L1, B1 : L = lives /\ B = blurs /\ L1 = live /\ B1 = blurred  OBVIOUS
<1>9. /\ L \in Seq([Blocks -> BlockState]) /\ L1 \in [Blocks -> BlockState] /\ Len(L) = m
      /\ B \in Seq(SUBSET Blocks) /\ B1 \in SUBSET Blocks /\ Len(B) = m
  BY <1>1, <1>2, <1>8 DEF HeapTypeOK
<1>10. /\ step_id' = m + 1 /\ lives' = Append(L, L1) /\ blurs' = Append(B, B1)
       /\ live' = L1 /\ blurred' = B1
  BY <1>2, <1>8 DEF HeapStep
<1>11. /\ Append(L, L1) \in Seq([Blocks -> BlockState]) /\ Len(Append(L, L1)) = m + 1
       /\ Append(B, B1) \in Seq(SUBSET Blocks) /\ Len(Append(B, B1)) = m + 1
       /\ Append(L, L1)[m + 1] = L1 /\ Append(B, B1)[m + 1] = B1
       /\ \A s \in 1 .. m : Append(L, L1)[s] = L[s] /\ Append(B, B1)[s] = B[s]
  BY <1>3, <1>9
<1>12. HeapTypeOK'
  <2>1. << >> \in Seq(Event)  OBVIOUS
  <2> QED  BY <1>2, <1>3, <1>4, <1>5, <1>9, <1>10, <1>11, <2>1 DEF HeapTypeOK
<1>13. ASSUME NEW a \in Blocks \ B1, NEW n  PROVE Told(L1[a], << >>, 0, G, a, n)
  <2>1. Told(L1[a], f, 0, H, a, m + 1)  BY <1>2, <1>8 DEF HeapInv
  <2>2. Told(L1[a], f, Len(f), G, a, m + 1)  BY <1>5, <2>1
  <2> QED  BY <1>3, <2>2, ReadTold
<1>14. PointerVerdictExact'
  <2>1. \A s \in 1 .. m : \A a \in Blocks \ B[s] : VerdictsIn(H, a, s) = {Due(L[s][a])}
    BY <1>2, <1>8, VerdictsOfRows DEF HeapInv
  <2> DEFINE LL == Append(L, L1)
             BB == Append(B, B1)
  <2>2. ASSUME NEW s \in 1 .. m + 1, NEW a \in Blocks \ BB[s]
        PROVE  VerdictsIn(G, a, s) = {Due(LL[s][a])}
    <3>1. CASE s = m + 1
      <4>1. BB[s] = B1 /\ LL[s] = L1  BY <1>11, <3>1
      <4>2. Told(L1[a], << >>, 0, G, a, m)  BY <1>13, <4>1
      <4>3. VerdictsIn(G, a, m + 1) = {Due(L1[a])}  BY <1>3, <1>5, <1>7, <4>2, ToldVerdict
      <4> QED  BY <3>1, <4>1, <4>3
    <3>2. CASE s # m + 1
      <4>1. s \in 1 .. m /\ s \in Nat /\ s < m + 1  BY <1>3, <3>2
      <4>2. BB[s] = B[s] /\ LL[s] = L[s]  BY <1>11, <4>1
      <4>3. VerdictsIn(H, a, s) = {Due(L[s][a])}  BY <2>1, <4>1, <4>2
      <4>4. VerdictsIn(G, a, s) = VerdictsIn(H, a, s)  BY <1>3, <1>5, <1>6, <4>1, EarlierVerdicts
      <4> QED  BY <4>2, <4>3, <4>4
    <3> QED  BY <3>1, <3>2
  <2> HIDE DEF LL, BB
  <2>3. \A s \in 1 .. step_id' : \A a \in Blocks \ blurs'[s] : VerdictsIn(heap', a, s) = {Due(lives'[s][a])}
    BY <1>2, <1>10, <2>2 DEF LL, BB
  <2>4. \A a, s : Latest(a, s)' = LatestIn(heap', a, s)  BY DEF Latest, LatestIn, KnownIn
  <2>5. \A a, s : PointerSizes(a, s, FALSE)' = VerdictsIn(heap', a, s)
    BY <2>4 DEF PointerSizes, VerdictsIn, VerdictOf, Verdict
  <2> QED  BY <2>3, <2>5 DEF PointerVerdictExact, Due
<1>15. \A a \in Blocks \ blurred' : Told(live'[a], fifo', 0, heap', a, step_id' + 1)
  BY <1>2, <1>4, <1>10, <1>13
<1> QED  BY <1>2, <1>7, <1>10, <1>12, <1>14, <1>15 DEF HeapInv

\* Nothing is told at the start.
LEMMA HeapInitInv == HeapInit => HeapInv
<1> SUFFICES ASSUME HeapInit  PROVE HeapInv
  OBVIOUS
<1>1. << >> \in Seq(Event) /\ << >> \in Seq([Blocks -> BlockState]) /\ << >> \in Seq(SUBSET Blocks)
  OBVIOUS
<1>2. Len(<< >>) = 0 /\ DOMAIN << >> = {}  OBVIOUS
<1>3. HeapTypeOK  BY <1>1, <1>2 DEF HeapInit, HeapTypeOK, BlockState
<1>4. UpTo(heap, step_id) /\ PointerVerdictExact  BY DEF HeapInit, UpTo, PointerVerdictExact
<1>5. ASSUME NEW a \in Blocks  PROVE Told(live[a], fifo, 0, heap, a, step_id + 1)
  BY <1>2 DEF HeapInit, Told, ToldNever
<1> QED  BY <1>3, <1>4, <1>5 DEF HeapInv

\* Every step of the heap keeps the invariant.
LEMMA HeapNextInv == HeapInv /\ [HeapNext]_heapVars => HeapInv'
<1> SUFFICES ASSUME HeapInv, [HeapNext]_heapVars  PROVE HeapInv'
  OBVIOUS
<1>1. ASSUME UNCHANGED childHeap, UNCHANGED QuietVars  PROVE HeapInv'
  BY <1>1, QuietKeeps DEF childHeap, HeapInv, HeapTypeOK
<1>2. CASE UNCHANGED heapVars  BY <1>1, <1>2 DEF heapVars, QuietVars
<1>3. CASE OpenFifo  BY <1>1, <1>3 DEF OpenFifo, QuietVars
<1>4. CASE HeapStep  BY <1>4, StepKeeps
<1>5. CASE HeapCall /\ UNCHANGED QuietVars
  <2>1. CASE \E a \in Blocks, size \in Sizes : malloc(a, size)  BY <1>5, <2>1, MallocKeeps
  <2>2. CASE \E a, b \in Blocks, size \in Sizes : realloc(a, b, size)  BY <1>5, <2>2, ReallocKeeps
  <2>3. CASE \E a \in Blocks : ReallocToZero(a)  BY <1>5, <2>3, ReallocToZeroKeeps
  <2>4. CASE \E a \in Blocks \cup {NULL} : free(a)  BY <1>5, <2>4, FreeKeeps
  <2>5. CASE UNCHANGED childHeap  BY <1>1, <1>5, <2>5
  <2> QED  BY <1>5, <2>1, <2>2, <2>3, <2>4, <2>5 DEF HeapCall
<1> QED  BY <1>2, <1>3, <1>4, <1>5 DEF HeapNext, QuietVars

(***************************************************************************)
(* At every step a pointer to a block whose events got through is shown as *)
(* what the block was at that step (get_pointer_size, on the rows written  *)
(* by wrk_insert_heap), for any number of blocks, any sizes, any size of   *)
(* the FIFO and any number of calls and steps.                             *)
(***************************************************************************)
THEOREM PointerVerdictsExact == HeapSpec => []PointerVerdictExact
<1>1. HeapInv => PointerVerdictExact  BY DEF HeapInv
<1> QED  BY <1>1, HeapInitInv, HeapNextInv, PTL DEF HeapSpec

-----------------------------------------------------------------------------
(* The recording and the session of module Vars.                           *)

\* Steps of the program are calls of the heap.
LEMMA RunningCalls ==
    ASSUME Running, HeapCall
    PROVE  HeapNext
BY DEF Running, HeapNext

\* Every step of a recording or of a session is one of the heap, or leaves it alone.
LEMMA VarsNextHeap == [VarsNext]_vars => [HeapNext]_heapVars
<1> SUFFICES ASSUME [VarsNext]_vars  PROVE HeapNext \/ UNCHANGED heapVars
  OBVIOUS
<1>1. CASE UNCHANGED vars  BY <1>1 DEF vars
<1>2. CASE Preload  BY <1>2 DEF Preload, HeapNext
<1>3. CASE Stop  BY <1>3 DEF Stop, HeapNext
<1>4. CASE Launch  BY <1>4 DEF Launch
<1>5. CASE \E a \in Blocks, size \in Sizes : Allocate(a, size)
  BY <1>5, RunningCalls DEF Allocate, Tracing, HeapCall
<1>6. CASE \E a, b \in Blocks, size \in Sizes : Reallocate(a, b, size)
  BY <1>6, RunningCalls DEF Reallocate, Tracing, HeapCall
<1>7. CASE \E a \in Blocks \cup {NULL} : Release(a)
  BY <1>7, RunningCalls DEF Release, Tracing, HeapCall
<1>8. CASE \E a \in Blocks : ReleaseByRealloc(a)
  BY <1>8, RunningCalls DEF ReleaseByRealloc, Tracing, HeapCall
<1>9. CASE Store  BY <1>9, RunningCalls DEF Store, HeapCall
<1>10. CASE Move  BY <1>10 DEF Move, Goto
<1>11. \A a, w, t, p : Reply(a, w, t, p) => UNCHANGED heapVars  BY DEF Reply
<1>12. CASE List
  BY <1>11, <1>12 DEF List, ListGlobals, ListLocals, ExpandItems, ExpandFields
<1> QED  BY <1>1, <1>2, <1>3, <1>4, <1>5, <1>6, <1>7, <1>8, <1>9, <1>10, <1>12
         DEF VarsNext, Record

(***************************************************************************)
(* The recording that the debug server examines, with its stores, its      *)
(* memory rows and the requests of a session, implements the heap on its   *)
(* own: no request and no store changes what the rows of table heap say.   *)
(***************************************************************************)
THEOREM RecordingImplementsHeap == VarsSpec => HeapSpec
<1>1. VarsInit => HeapInit  BY DEF VarsInit
<1> QED  BY <1>1, VarsNextHeap, PTL DEF VarsSpec, HeapSpec

\* So its verdicts are exact as well.
COROLLARY RecordedVerdictsExact == VarsSpec => []PointerVerdictExact
BY RecordingImplementsHeap, PointerVerdictsExact, PTL
=============================================================================
