--------------------------- MODULE ChannelProofs ---------------------------
(***************************************************************************)
(* Proofs about module Channel, for any number of writers and messages:    *)
(* ChannelInv is an inductive invariant, so list nodes are never used      *)
(* after they are freed and ch->head is never NULL when it is              *)
(* dereferenced; and the channel implements the queue of module Fifo.      *)
(***************************************************************************)
EXTENDS Channel, TLAPS, FiniteSetTheorems

\* The writers that have linked and not posted are a finite set.
LEMMA UnpostedFinite ==
    ASSUME TypeOK
    PROVE  IsFiniteSet(Unposted) /\ Cardinality(Unposted) \in Nat
<1>1. Unposted \subseteq Writers
    BY DEF Unposted
<1>2. IsFiniteSet(Unposted)
    BY <1>1, FS_Subset, ThreadAssumption
<1> QED
    BY <1>2, FS_CardinalityType

\* A step that moves no writer across sem_post() or the link keeps the count.
LEMMA UnpostedSame ==
    ASSUME \A w \in Writers :
             wpc'[w] \in {"settail", "unlock", "post"}
               <=> wpc[w] \in {"settail", "unlock", "post"}
    PROVE  Cardinality(Unposted') = Cardinality(Unposted)
<1>1. Unposted' = Unposted
    BY DEF Unposted
<1> QED
    BY <1>1

\* A writer that links its message has not posted it yet.
LEMMA UnpostedGrows ==
    ASSUME TypeOK, NEW w \in Writers, wpc[w] = "link",
           wpc' = [wpc EXCEPT ![w] = "settail"]
    PROVE  Cardinality(Unposted') = Cardinality(Unposted) + 1
<1>1. Unposted' = Unposted \cup {w}
    BY DEF Unposted, TypeOK
<1>2. w \notin Unposted
    BY DEF Unposted
<1> QED
    BY <1>1, <1>2, UnpostedFinite, FS_AddElement

\* ... until its sem_post() (channel.c, ch_write).
LEMMA UnpostedShrinks ==
    ASSUME TypeOK, NEW w \in Writers, wpc[w] = "post",
           wpc' = [wpc EXCEPT ![w] = "idle"]
    PROVE  Cardinality(Unposted') = Cardinality(Unposted) - 1
<1>1. Unposted' = Unposted \ {w}
    BY DEF Unposted, TypeOK
<1>2. w \in Unposted
    BY DEF Unposted
<1> QED
    BY <1>1, <1>2, UnpostedFinite, FS_RemoveElement

-----------------------------------------------------------------------------
\* A new channel: an empty list, and nothing to wait for.
LEMMA InitInv == Init => ChannelInv
<1> SUFFICES ASSUME Init PROVE ChannelInv
    OBVIOUS
<1> USE ThreadAssumption, DataAssumption DEF Init, NULL
<1>1. TypeOK
    <2>1. END \in Message /\ allocated \in 0 .. MaxData + 1
        BY DEF Message
    <2>2. sem \in Nat /\ bufsize \in Nat
        OBVIOUS
    <2>3. freed \in SUBSET Node /\ next \in [Node -> Node \cup {NULL}]
        OBVIOUS
    <2> QED
        BY <2>1, <2>2, <2>3 DEF TypeOK
<1>2. CriticalSection
    BY DEF CriticalSection
<1>3. Room /\ Gone
    BY DEF Room, Gone
<1>4. ListShape
    BY DEF ListShape, HalfLinked, Node
<1>5. SemaphoreExact
    <2>1. Unposted = {}
        BY DEF Unposted
    <2>2. Cardinality(Unposted) = 0
        BY <2>1, FS_EmptySet
    <2> QED
        BY <2>2 DEF SemaphoreExact, LetIn, Linked, Taken
<1> QED
    BY <1>1, <1>2, <1>3, <1>4, <1>5 DEF ChannelInv

-----------------------------------------------------------------------------
\* Taking the mutex to write: only CriticalSection and Room are at stake.
LEMMA WriteLockInv ==
    ASSUME ChannelInv, NEW w \in Writers, NEW m \in Message, WriteLock(w, m),
           finished' \in BOOLEAN, Room'
    PROVE  ChannelInv'
<1> USE ThreadAssumption DEF WriteLock, list, reader
<1>1. TypeOK'
    BY DEF ChannelInv, TypeOK
<1>2. CriticalSection'
    BY DEF ChannelInv, TypeOK, CriticalSection
<1>3. Gone'
    BY DEF ChannelInv, TypeOK, Gone
<1>4. ListShape'
    <2>1. HalfLinked' = HalfLinked
        BY DEF ChannelInv, TypeOK, CriticalSection, HalfLinked
    <2> QED
        BY <2>1 DEF ChannelInv, ListShape, Taken
<1>5. SemaphoreExact'
    <2>1. Cardinality(Unposted') = Cardinality(Unposted)
        BY UnpostedSame DEF ChannelInv, TypeOK
    <2> QED
        BY <2>1 DEF ChannelInv, SemaphoreExact, LetIn, Linked, Taken
<1> QED
    BY <1>1, <1>2, <1>3, <1>4, <1>5 DEF ChannelInv

\* A writer takes the lock with a message to link.
LEMMA WriteDataInv ==
    ASSUME ChannelInv, NEW w \in Writers, NEW m \in Data, WriteData(w, m)
    PROVE  ChannelInv'
<1>1. m \in Message /\ WriteLock(w, m) /\ finished' \in BOOLEAN
    BY DEF WriteData, Message, ChannelInv, TypeOK
<1>2. Room'
    BY DEF ChannelInv, TypeOK, WriteData, WriteLock, list, Room
<1> QED
    BY <1>1, <1>2, WriteLockInv

\* ch_finish() is a write of the last message.
LEMMA FinishInv ==
    ASSUME ChannelInv, Finish
    PROVE  ChannelInv'
<1>1. Owner \in Writers /\ END \in Message /\ WriteLock(Owner, END)
    BY ThreadAssumption DEF Finish, Message
<1>2. finished' \in BOOLEAN /\ Room'
    BY DataAssumption
    DEF ChannelInv, TypeOK, Finish, WriteLock, list, Room
<1> QED
    BY <1>1, <1>2, WriteLockInv

\* Linking the node: the list grows by one and so do the unposted messages.
LEMMA WriteLinkInv ==
    ASSUME ChannelInv, NEW w \in Writers, WriteLink(w)
    PROVE  ChannelInv'
<1> USE ThreadAssumption, DataAssumption DEF WriteLink, reader
<1>1. allocated + 1 \in Node /\ allocated \in Nat
    BY DEF ChannelInv, TypeOK, Room, Node
<1>2. TypeOK'
    <2>1. /\ head' \in Node \cup {NULL}
          /\ next' \in [Node -> Node \cup {NULL}]
        BY <1>1 DEF ChannelInv, TypeOK
    <2>2. /\ msgs' \in [Node -> Message]
          /\ wpc' \in [Writers -> {"idle", "link", "settail", "unlock", "post"}]
        BY <1>1 DEF ChannelInv, TypeOK
    <2>3. allocated' \in 0 .. MaxData + 1
        BY <1>1 DEF Node
    <2> QED
        BY <2>1, <2>2, <2>3 DEF ChannelInv, TypeOK
<1>3. CriticalSection'
    BY DEF ChannelInv, TypeOK, CriticalSection
<1>4. mutex = w /\ ~HalfLinked /\ rpc # "fixtail" /\ rpc # "unlink"
    BY DEF ChannelInv, TypeOK, CriticalSection, HalfLinked
<1>5. Room' /\ Gone'
    BY <1>4 DEF ChannelInv, TypeOK, Room, Gone, CriticalSection
<1>6. HalfLinked' /\ ~destroyed
    BY DEF ChannelInv, TypeOK, HalfLinked, Gone
<1>7. tail = IF head = NULL THEN NULL ELSE allocated
    BY <1>4 DEF ChannelInv, ListShape
<1>8. head \in Nat /\ head <= allocated /\ (tail = NULL <=> head = NULL)
    BY <1>1, <1>7 DEF ChannelInv, TypeOK, ListShape, Node, NULL
<1>9. ListShape'
    <2>1. CASE tail = NULL
        BY <2>1, <1>1, <1>2, <1>4, <1>6, <1>7, <1>8
        DEF ChannelInv, TypeOK, ListShape, Node, NULL
    <2>2. CASE tail # NULL
        <3>1. tail = allocated /\ head # NULL /\ head' = head /\ tail' = allocated
            BY <2>2, <1>7, <1>8
        <3>2. next' = [next EXCEPT ![allocated] = allocated + 1]
            BY <2>2, <3>1
        <3>3. \A n \in Node : n >= head' /\ n < allocated' => next'[n] = n + 1
            BY <3>1, <3>2, <1>1, <1>8 DEF ChannelInv, TypeOK, ListShape, Node, NULL
        <3>4. \A n \in Node : n >= allocated' => next'[n] = NULL
            BY <3>1, <3>2, <1>1, <1>8 DEF ChannelInv, TypeOK, ListShape, Node, NULL
        <3>5. \A n \in freed' : n <= allocated' /\ n < head'
            BY <3>1, <1>1, <1>6, <1>8 DEF ChannelInv, TypeOK, ListShape, Node, NULL
        <3> QED
            BY <3>1, <3>3, <3>4, <3>5, <1>1, <1>4, <1>6, <1>8 DEF ListShape
    <2> QED
        BY <2>1, <2>2
<1>10. SemaphoreExact'
    <2>1. Cardinality(Unposted') = Cardinality(Unposted) + 1
        BY UnpostedGrows DEF ChannelInv
    <2>2. Linked' = Linked + 1
        BY <1>1, <1>8 DEF Linked, Taken, NULL
    <2>3. LetIn' = LetIn
        BY DEF LetIn
    <2>4. Linked \in Int /\ LetIn \in Int /\ sem \in Int /\ Cardinality(Unposted) \in Int
        BY <1>1, UnpostedFinite DEF ChannelInv, TypeOK, Linked, Taken, Node, LetIn, NULL
    <2> QED
        BY <2>1, <2>2, <2>3, <2>4 DEF ChannelInv, SemaphoreExact
<1> QED
    BY <1>2, <1>3, <1>5, <1>9, <1>10 DEF ChannelInv

\* The tail moves to the node that was linked.
LEMMA WriteSetTailInv ==
    ASSUME ChannelInv, NEW w \in Writers, WriteSetTail(w)
    PROVE  ChannelInv'
<1> USE ThreadAssumption, DataAssumption DEF WriteSetTail, reader
<1>1. TypeOK'
    BY DEF ChannelInv, TypeOK, Room, ListShape, HalfLinked, Node, NULL
<1>2. CriticalSection'
    BY DEF ChannelInv, TypeOK, CriticalSection
<1>3. Room' /\ Gone'
    BY DEF ChannelInv, TypeOK, Room, Gone, CriticalSection
<1>4. HalfLinked /\ ~HalfLinked' /\ rpc # "fixtail"
    BY DEF ChannelInv, TypeOK, CriticalSection, HalfLinked
<1>5. head # NULL
    BY <1>4 DEF ChannelInv, ListShape
<1>6. ListShape'
    BY <1>4, <1>5 DEF ChannelInv, ListShape, Taken
<1>7. SemaphoreExact'
    <2>1. Cardinality(Unposted') = Cardinality(Unposted)
        BY UnpostedSame DEF ChannelInv, TypeOK
    <2> QED
        BY <2>1 DEF ChannelInv, SemaphoreExact, LetIn, Linked, Taken
<1> QED
    BY <1>1, <1>2, <1>3, <1>6, <1>7 DEF ChannelInv

\* The writer gives the lock back; the list is whole.
LEMMA WriteUnlockInv ==
    ASSUME ChannelInv, NEW w \in Writers, WriteUnlock(w)
    PROVE  ChannelInv'
<1> USE ThreadAssumption DEF WriteUnlock, list, reader
<1>1. TypeOK'
    BY DEF ChannelInv, TypeOK
<1>2. CriticalSection'
    BY DEF ChannelInv, TypeOK, CriticalSection
<1>3. Room' /\ Gone'
    BY DEF ChannelInv, TypeOK, Room, Gone
<1>4. HalfLinked' = HalfLinked
    BY DEF ChannelInv, TypeOK, HalfLinked
<1>5. ListShape'
    BY <1>4 DEF ChannelInv, ListShape, Taken
<1>6. SemaphoreExact'
    <2>1. Cardinality(Unposted') = Cardinality(Unposted)
        BY UnpostedSame DEF ChannelInv, TypeOK
    <2> QED
        BY <2>1 DEF ChannelInv, SemaphoreExact, LetIn, Linked, Taken
<1> QED
    BY <1>1, <1>2, <1>3, <1>5, <1>6 DEF ChannelInv

\* The message that was linked is counted by the semaphore.
LEMMA WritePostInv ==
    ASSUME ChannelInv, NEW w \in Writers, WritePost(w)
    PROVE  ChannelInv'
<1> USE ThreadAssumption DEF WritePost, list, reader
<1>1. TypeOK'
    BY DEF ChannelInv, TypeOK
<1>2. CriticalSection'
    BY DEF ChannelInv, TypeOK, CriticalSection
<1>3. Room' /\ Gone'
    BY DEF ChannelInv, TypeOK, Room, Gone
<1>4. HalfLinked' = HalfLinked
    BY DEF ChannelInv, TypeOK, HalfLinked
<1>5. ListShape'
    BY <1>4 DEF ChannelInv, ListShape, Taken
<1>6. SemaphoreExact'
    <2>1. Cardinality(Unposted') = Cardinality(Unposted) - 1
        BY UnpostedShrinks DEF ChannelInv
    <2>2. Linked' = Linked /\ LetIn' = LetIn /\ LetIn \in Int /\ sem \in Int
        BY DEF ChannelInv, TypeOK, Linked, Taken, LetIn
    <2>3. Cardinality(Unposted) \in Int
        BY UnpostedFinite DEF ChannelInv
    <2> QED
        BY <2>1, <2>2, <2>3 DEF ChannelInv, SemaphoreExact
<1> QED
    BY <1>1, <1>2, <1>3, <1>5, <1>6 DEF ChannelInv

-----------------------------------------------------------------------------
\* The steps of the reader that leave the list and the semaphore alone.
LEMMA ReaderLocalInv ==
    ASSUME ChannelInv,
           UNCHANGED <<sem, list, destroyed, writer>>,
           TypeOK', CriticalSection', Gone',
           rpc # "fixtail", rpc' # "fixtail", LetIn' = LetIn
    PROVE  ChannelInv'
<1> USE DEF list, writer
<1>1. Room'
    BY DEF ChannelInv, Room
<1>2. HalfLinked' = HalfLinked
    BY DEF HalfLinked
<1>3. ListShape'
    BY <1>2 DEF ChannelInv, ListShape, Taken
<1>4. SemaphoreExact'
    <2>1. Cardinality(Unposted') = Cardinality(Unposted)
        BY UnpostedSame
    <2> QED
        BY <2>1 DEF ChannelInv, SemaphoreExact, Linked, Taken
<1> QED
    BY <1>1, <1>3, <1>4 DEF ChannelInv

\* Everything of the reader but sem_wait() and the list operations.
LEMMA ReadLocalStepInv ==
    ASSUME ChannelInv,
           EnterLoop \/ ReadNoData \/ ReadLock \/ ReadUnlock
             \/ ReturnEnd \/ ReturnMisread \/ ReturnOk
    PROVE  ChannelInv'
<1> USE ThreadAssumption, DataAssumption
    DEF EnterLoop, ReadNoData, ReadLock, ReadUnlock, ReturnEnd,
        ReturnMisread, ReturnOk, LeaveLoop, list, writer
<1>1. TypeOK'
    <2>1. rmsg.size \in Nat
        <3>1. CASE rmsg \in Data
            BY <3>1 DEF Data
        <3>2. CASE rmsg = END
            BY <3>2 DEF END
        <3> QED
            BY <3>1, <3>2 DEF ChannelInv, TypeOK, Message
    <2> QED
        BY <2>1 DEF ChannelInv, TypeOK
<1>2. CriticalSection'
    BY DEF ChannelInv, TypeOK, CriticalSection
<1>3. Gone'
    BY DEF ChannelInv, TypeOK, Gone
<1>4. rpc # "fixtail" /\ rpc' # "fixtail" /\ LetIn' = LetIn
    BY DEF LetIn
<1>5. UNCHANGED <<sem, list, destroyed, writer>>
    OBVIOUS
<1> QED
    BY <1>1, <1>2, <1>3, <1>4, <1>5, ReaderLocalInv

\* The reader is let through for a message that is linked.
LEMMA ReadWaitInv ==
    ASSUME ChannelInv, ReadWait
    PROVE  ChannelInv'
<1> USE ThreadAssumption DEF ReadWait, list, writer
<1>1. TypeOK'
    BY DEF ChannelInv, TypeOK
<1>2. CriticalSection' /\ Room' /\ Gone'
    BY DEF ChannelInv, TypeOK, CriticalSection, Room, Gone
<1>3. ListShape'
    <2>1. HalfLinked' = HalfLinked
        BY DEF HalfLinked
    <2> QED
        BY <2>1 DEF ChannelInv, ListShape, Taken
<1>4. SemaphoreExact'
    <2>1. Cardinality(Unposted') = Cardinality(Unposted)
        BY UnpostedSame
    <2>2. LetIn = 0 /\ LetIn' = 1 /\ Linked' = Linked
        BY DEF LetIn, Linked, Taken
    <2>3. Cardinality(Unposted) \in Int /\ sem \in Int
        BY UnpostedFinite DEF ChannelInv, TypeOK
    <2> QED
        BY <2>1, <2>2, <2>3 DEF ChannelInv, SemaphoreExact
<1> QED
    BY <1>1, <1>2, <1>3, <1>4 DEF ChannelInv

\* ch_read() takes the first node: there is one, because the semaphore was
\* decremented for it.
LEMMA HeadIsThere ==
    ASSUME ChannelInv, rpc = "unlink"
    PROVE  head \in Node /\ head <= allocated /\ head \notin freed
<1>1. LetIn = 1 /\ sem \in Nat /\ Cardinality(Unposted) \in Nat
    BY UnpostedFinite DEF ChannelInv, TypeOK, LetIn
<1>2. Linked >= 1
    BY <1>1 DEF ChannelInv, SemaphoreExact
<1>3. head # NULL
    BY <1>2, DataAssumption DEF ChannelInv, TypeOK, Linked, Taken, NULL
<1>4. ~destroyed
    BY DEF ChannelInv, Gone
<1> QED
    BY <1>3, <1>4, DataAssumption DEF ChannelInv, TypeOK, ListShape, Node, NULL

\* The reader takes the first message off the list.
LEMMA ReadUnlinkInv ==
    ASSUME ChannelInv, ReadUnlink
    PROVE  ChannelInv'
<1> USE ThreadAssumption, DataAssumption DEF ReadUnlink, writer
<1>1. head \in Node /\ head <= allocated /\ head # NULL /\ allocated \in Nat
    BY HeadIsThere DEF ChannelInv, TypeOK, Node
<1>2. TypeOK'
    BY <1>1 DEF ChannelInv, TypeOK
<1>3. CriticalSection' /\ Room' /\ Gone'
    BY DEF ChannelInv, TypeOK, CriticalSection, Room, Gone
<1>4. ~HalfLinked /\ ~HalfLinked' /\ ~destroyed
    BY DEF ChannelInv, TypeOK, CriticalSection, HalfLinked, Gone
<1>5. head' = IF head < allocated THEN head + 1 ELSE NULL
    BY <1>1 DEF ChannelInv, ListShape, Node
<1>6. Taken = head - 1 /\ Taken' = head /\ head \in Nat
    BY <1>1, <1>5 DEF Taken, Node, NULL
<1>7. ListShape'
    <2>1. tail = allocated
        BY <1>1, <1>4 DEF ChannelInv, ListShape
    <2>2. head' <= allocated' /\ head' \in Nat
        BY <1>1, <1>5, <1>6 DEF NULL
    <2>3. \A n \in Node : n >= head' /\ head' # NULL /\ n < allocated' => next'[n] = n + 1
        BY <1>1, <1>5, <1>6 DEF ChannelInv, ListShape, Node, NULL
    <2>4. \A n \in freed' : n <= allocated' /\ (head' # NULL => n < head')
        BY <1>1, <1>4, <1>5, <1>6 DEF ChannelInv, TypeOK, ListShape, Node, NULL
    <2> QED
        BY <1>1, <1>4, <1>6, <2>1, <2>2, <2>3, <2>4 DEF ChannelInv, ListShape
<1>8. SemaphoreExact'
    <2>1. Cardinality(Unposted') = Cardinality(Unposted)
        BY UnpostedSame
    <2>2. LetIn = 1 /\ LetIn' = 0 /\ Linked' = Linked - 1 /\ Linked \in Int
        BY <1>1, <1>6 DEF LetIn, Linked
    <2>3. Cardinality(Unposted) \in Int /\ sem \in Int
        BY UnpostedFinite DEF ChannelInv, TypeOK
    <2> QED
        BY <2>1, <2>2, <2>3 DEF ChannelInv, SemaphoreExact
<1> QED
    BY <1>2, <1>3, <1>7, <1>8 DEF ChannelInv

\* ... clears the tail when the list became empty, and frees the node.
LEMMA ReadFixTailInv ==
    ASSUME ChannelInv, ReadFixTail
    PROVE  ChannelInv'
<1> USE ThreadAssumption, DataAssumption DEF ReadFixTail, writer
<1>1. TypeOK'
    BY DEF ChannelInv, TypeOK, ListShape, NULL
<1>2. CriticalSection' /\ Room' /\ Gone'
    BY DEF ChannelInv, TypeOK, CriticalSection, Room, Gone
<1>3. ~HalfLinked /\ ~HalfLinked'
    BY DEF ChannelInv, TypeOK, CriticalSection, HalfLinked
<1>4. ListShape'
    <2>1. rnode <= allocated /\ (head # NULL => rnode < head)
        BY DEF ChannelInv, TypeOK, ListShape, Taken, Node, NULL
    <2> QED
        BY <1>3, <2>1 DEF ChannelInv, ListShape
<1>5. SemaphoreExact'
    <2>1. Cardinality(Unposted') = Cardinality(Unposted)
        BY UnpostedSame
    <2> QED
        BY <2>1 DEF ChannelInv, SemaphoreExact, LetIn, Linked, Taken
<1> QED
    BY <1>1, <1>2, <1>4, <1>5 DEF ChannelInv

\* ch_destroy() runs when no thread is inside the channel.
LEMMA DestroyInv ==
    ASSUME ChannelInv, Destroy
    PROVE  ChannelInv'
<1> USE ThreadAssumption, DataAssumption DEF Destroy, writer, reader
<1>1. TypeOK'
    BY DEF ChannelInv, TypeOK, Node
<1>2. CriticalSection' /\ Room' /\ Gone'
    BY DEF ChannelInv, TypeOK, CriticalSection, Room, Gone
<1>3. HalfLinked' = HalfLinked
    BY DEF HalfLinked
<1>4. ListShape'
    BY <1>3 DEF ChannelInv, TypeOK, ListShape, Taken
<1>5. SemaphoreExact'
    <2>1. Cardinality(Unposted') = Cardinality(Unposted)
        BY UnpostedSame
    <2> QED
        BY <2>1 DEF ChannelInv, SemaphoreExact, LetIn, Linked, Taken
<1> QED
    BY <1>1, <1>2, <1>4, <1>5 DEF ChannelInv

\* The invariant is about the variables of the channel only.
LEMMA StutterInv ==
    ASSUME ChannelInv, UNCHANGED vars
    PROVE  ChannelInv'
<1> USE DEF vars, list, writer, reader
<1>1. Cardinality(Unposted') = Cardinality(Unposted)
    BY UnpostedSame
<1>2. TypeOK' /\ CriticalSection' /\ Room' /\ Gone'
    BY DEF ChannelInv, TypeOK, CriticalSection, Room, Gone
<1>3. ListShape'
    BY DEF ChannelInv, ListShape, Taken, HalfLinked
<1>4. SemaphoreExact'
    BY <1>1 DEF ChannelInv, SemaphoreExact, LetIn, Linked, Taken
<1> QED
    BY <1>2, <1>3, <1>4 DEF ChannelInv

-----------------------------------------------------------------------------
\* Every step of every thread keeps the invariant.
LEMMA NextInv == ChannelInv /\ [Next]_vars => ChannelInv'
<1> SUFFICES ASSUME ChannelInv, [Next]_vars PROVE ChannelInv'
    OBVIOUS
<1>1. ASSUME NEW w \in Writers, Write(w) PROVE ChannelInv'
    BY <1>1, WriteDataInv, WriteLinkInv, WriteSetTailInv, WriteUnlockInv,
       WritePostInv DEF Write, WriteStep
<1>2. CASE Read
    BY <1>2, ReadLocalStepInv, ReadWaitInv, ReadUnlinkInv, ReadFixTailInv
    DEF Read
<1>3. CASE Finish
    BY <1>3, FinishInv
<1>4. CASE Destroy
    BY <1>4, DestroyInv
<1>5. CASE UNCHANGED vars
    BY <1>5, StutterInv
<1> QED
    BY <1>1, <1>2, <1>3, <1>4, <1>5 DEF Next, Terminated

(***************************************************************************)
(* ChannelInv holds in every reachable state: types, mutual exclusion, the *)
(* shape of the list of ch_write() and ch_read() inside and outside their  *)
(* critical sections, and the exact value of the semaphore.                *)
(***************************************************************************)
THEOREM ChannelInvariant == Spec => []ChannelInv
<1> QED
    BY InitInv, NextInv, PTL DEF Spec

(* Every variable of the channel keeps its type.                            *)
THEOREM ChannelTypes == Spec => []TypeOK
<1>1. ChannelInv => TypeOK
    BY DEF ChannelInv
<1> QED
    BY <1>1, ChannelInvariant, PTL

(* The semaphore counts exactly the messages the reader may still take.     *)
THEOREM SemaphoreIsExact == Spec => []SemaphoreExact
<1>1. ChannelInv => SemaphoreExact
    BY DEF ChannelInv
<1> QED
    BY <1>1, ChannelInvariant, PTL

(* ch_read() never dereferences a NULL or freed ch->head, and ch_write()    *)
(* never dereferences a freed ch->tail.                                     *)
THEOREM DereferencesAreSafe == Spec => []NoBadDereference
<1>1. ASSUME ChannelInv PROVE NoBadDereference
    <2>1. rpc = "unlink" => head # NULL /\ head \notin freed /\ head <= allocated
        BY <1>1, HeadIsThere, DataAssumption DEF Node, NULL
    <2>2. ASSUME NEW w \in Writers, wpc[w] = "link", tail # NULL
          PROVE  tail \notin freed /\ tail <= allocated
        <3>1. ~HalfLinked /\ rpc # "fixtail" /\ ~destroyed
            BY <1>1, <2>2, ThreadAssumption
            DEF ChannelInv, TypeOK, CriticalSection, HalfLinked, Gone
        <3>2. tail = allocated /\ head # NULL /\ head <= allocated
            BY <1>1, <2>2, <3>1 DEF ChannelInv, ListShape
        <3> QED
            BY <1>1, <3>1, <3>2, DataAssumption
            DEF ChannelInv, TypeOK, ListShape, Node, NULL
    <2> QED
        BY <2>1, <2>2 DEF NoBadDereference
<1> QED
    BY <1>1, ChannelInvariant, PTL

-----------------------------------------------------------------------------
(* Refinement: the link of ch_write() is the abstract Put, the unlink of    *)
(* ch_read() is Take, ch_destroy() is Close, and nothing else is visible.   *)

\* Linking a node is where a message enters the queue.
LEMMA LinkIsPut ==
    ASSUME ChannelInv, NEW w \in Writers, WriteLink(w)
    PROVE  \E m \in Message : Abstract!Put(m)
<1> USE ThreadAssumption, DataAssumption DEF WriteLink, reader
<1>1. wmsg[w] \in Message /\ ~destroyed /\ rpc # "fixtail" /\ ~HalfLinked
    BY DEF ChannelInv, TypeOK, Gone, CriticalSection, HalfLinked
<1>2. allocated \in Nat /\ allocated + 1 \in Node /\ head \in Nat
    BY DEF ChannelInv, TypeOK, Room, Node, NULL
<1>3. Log' = Append(Log, wmsg[w])
    <2>1. \A n \in 1 .. allocated : msgs'[n] = msgs[n]
        BY <1>2 DEF ChannelInv, TypeOK, Node
    <2>2. msgs'[allocated + 1] = wmsg[w]
        BY <1>2 DEF ChannelInv, TypeOK
    <2>3. Len(Log) = allocated
        BY <1>2 DEF Log
    <2> QED
        BY <1>2, <2>1, <2>2, <2>3 DEF Log
<1>4. Taken' = Taken
    BY <1>1, <1>2 DEF ChannelInv, TypeOK, ListShape, Taken, NULL
<1> QED
    BY <1>1, <1>3, <1>4 DEF Abstract!Put

\* Unlinking it is where the message leaves.
LEMMA UnlinkIsTake ==
    ASSUME ChannelInv, ReadUnlink
    PROVE  Abstract!Take
<1> USE ThreadAssumption, DataAssumption DEF ReadUnlink, writer
<1>1. head \in Node /\ head <= allocated /\ head # NULL /\ allocated \in Nat
    BY HeadIsThere DEF ChannelInv, TypeOK, Node
<1>2. ~destroyed /\ head' = IF head < allocated THEN head + 1 ELSE NULL
    BY <1>1 DEF ChannelInv, Gone, ListShape, Node
<1>3. Taken = head - 1 /\ Taken' = Taken + 1 /\ head \in Nat
    BY <1>1, <1>2 DEF Taken, Node, NULL
<1>4. Len(Log) = allocated /\ Log' = Log
    BY <1>1 DEF Log
<1>5. rmsg' = Log[Taken + 1]
    BY <1>1, <1>3 DEF Log, Node
<1> QED
    BY <1>1, <1>2, <1>3, <1>4, <1>5 DEF Abstract!Take

\* The steps that change neither are not seen by the abstract queue.
LEMMA OthersAreInvisible ==
    ASSUME UNCHANGED <<head, msgs, allocated, destroyed, rmsg>>
    PROVE  UNCHANGED Abstract!vars
BY DEF Abstract!vars, Log, Taken

\* Every step is a step of the abstract queue, or none.
LEMMA StepRefines ==
    ASSUME ChannelInv, [Next]_vars
    PROVE  [Abstract!Next]_(Abstract!vars)
<1>1. ASSUME NEW w \in Writers, Write(w)
      PROVE  [Abstract!Next]_(Abstract!vars)
    <2>1. CASE WriteLink(w)
        BY <2>1, LinkIsPut DEF Abstract!Next
    <2>2. CASE \/ \E m \in Data : WriteData(w, m)
               \/ WriteSetTail(w) \/ WriteUnlock(w) \/ WritePost(w)
        <3>1. UNCHANGED <<head, msgs, allocated, destroyed, rmsg>>
            BY <2>2 DEF WriteData, WriteLock, WriteSetTail, WriteUnlock,
                        WritePost, list, reader
        <3> QED
            BY <3>1, OthersAreInvisible
    <2> QED
        BY <1>1, <2>1, <2>2 DEF Write, WriteStep
<1>2. CASE Read
    <2>1. CASE ReadUnlink
        BY <2>1, UnlinkIsTake DEF Abstract!Next
    <2>2. CASE \/ EnterLoop \/ ReadWait \/ ReadNoData \/ ReadLock
               \/ ReadFixTail \/ ReadUnlock \/ ReturnEnd \/ ReturnMisread
               \/ ReturnOk
        <3>1. UNCHANGED <<head, msgs, allocated, destroyed, rmsg>>
            BY <2>2 DEF EnterLoop, ReadWait, ReadNoData, ReadLock,
                        ReadFixTail, ReadUnlock, ReturnEnd, ReturnMisread,
                        ReturnOk, list
        <3> QED
            BY <3>1, OthersAreInvisible
    <2> QED
        BY <1>2, <2>1, <2>2 DEF Read
<1>3. CASE Finish \/ UNCHANGED vars
    <2>1. UNCHANGED <<head, msgs, allocated, destroyed, rmsg>>
        BY <1>3 DEF Finish, WriteLock, vars, list, reader
    <2> QED
        BY <2>1, OthersAreInvisible
<1>4. CASE Destroy
    <2>1. UNCHANGED <<Log, Taken, rmsg>>
        BY <1>4 DEF Destroy, reader, Log, Taken
    <2>2. Abstract!Close
        BY <1>4, <2>1 DEF Destroy, Abstract!Close
    <2> QED
        BY <2>2 DEF Abstract!Next
<1> QED
    BY <1>1, <1>2, <1>3, <1>4 DEF Next, Terminated

\* A new channel is an empty queue.
LEMMA InitRefines == Init => Abstract!Init
<1> SUFFICES ASSUME Init PROVE Abstract!Init
    OBVIOUS
<1>1. Log = <<>>
    BY DEF Init, Log
<1> QED
    BY <1>1 DEF Init, Abstract!Init, Taken, NULL

(* The channel of record/channel.c implements a queue that hands every      *)
(* message over once and in the order of the writes.                        *)
THEOREM ChannelImplementsFifo == Spec => ImplementsFifo
<1>1. ChannelInv /\ [Next]_vars => [Abstract!Next]_(Abstract!vars)
    BY StepRefines
<1> QED
    BY <1>1, InitRefines, ChannelInvariant, PTL
    DEF Spec, ImplementsFifo, Abstract!Spec
=============================================================================
