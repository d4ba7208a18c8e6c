------------------------------ MODULE Channel ------------------------------
(***************************************************************************)
(* The inter-thread channel of the recorder (record/channel.c): a singly   *)
(* linked list with head and tail pointers, a mutex around the list and a  *)
(* counting semaphore that tells the reader how many messages it may take. *)
(*                                                                         *)
(* Any number of threads write (insert_mem_ch is written both by the main  *)
(* loop and by the event callback); one thread reads, in one of the two    *)
(* loops the program has: a database worker blocks in ch_read() and leaves *)
(* its loop for good on anything but CHANNEL_OK, proc_dirty_mem() drains   *)
(* the channel without blocking and comes back later.                      *)
(*                                                                         *)
(* List nodes are numbered in the order they are allocated; NULL is 0.     *)
(***************************************************************************)
EXTENDS Integers, Sequences, FiniteSets

CONSTANTS
    Writers,    \* threads that call ch_write()
    Owner,      \* the writer that also calls ch_finish() and ch_destroy()
    Reader,     \* the thread that calls ch_read()
    NoThread,   \* the mutex is free
    Payloads,   \* message buffers, non-NULL pointers
    Sizes,      \* message sizes
    Expected,   \* the size the reader asks for (0: any)
    ReadFlags,  \* how it may be used: "block", "nonblock"
    MaxData     \* bound: how many data messages are written

NULL == 0

ASSUME ThreadAssumption ==
    /\ IsFiniteSet(Writers)
    /\ Owner \in Writers
    /\ Reader \notin Writers
    /\ NoThread \notin Writers \cup {Reader}

ASSUME DataAssumption ==
    /\ Payloads \subseteq Nat \ {NULL}
    /\ Sizes \subseteq Nat \ {0}
    /\ Expected \in Nat
    /\ ReadFlags \subseteq {"block", "nonblock"}
    /\ MaxData \in Nat

\* struct message without its link; ch_finish() writes the END message.
Data == [payload : Payloads, size : Sizes]
END == [payload |-> NULL, size |-> 0]
Message == Data \cup {END}

Node == 1 .. MaxData + 1            \* one more for the END message

VARIABLES
    sem,        \* ch->sem
    mutex,      \* ch->mutex, the thread that holds it
    head,       \* ch->head
    tail,       \* ch->tail
    next,       \* the next field of every node
    msgs,       \* the payload and size of every node
    allocated,  \* nodes allocated so far
    freed,      \* nodes given back to the allocator
    destroyed,  \* ch_destroy() was called
    finished,   \* the owner has called ch_finish()
    wpc,        \* where every writer is in ch_write()
    wmsg,       \* what it is writing
    flag,       \* the flag the reader passes to ch_read()
    rpc,        \* where the reader is in its loop around ch_read()
    rnode,      \* the local variable msg of ch_read()
    rmsg,       \* *buf and size of ch_read()
    bufsize,    \* *bufsize, which the reader's loop keeps between calls
    ret         \* what the last ch_read() returned

list == <<head, tail, next, msgs, allocated, freed>>
writer == <<wpc, wmsg, finished>>
reader == <<flag, rpc, rnode, rmsg, bufsize, ret>>
vars == <<sem, mutex, list, destroyed, writer, reader>>

-----------------------------------------------------------------------------
(* ch_create(), and threads that have not called the channel yet. *)
Init ==
    /\ sem = 0
    /\ mutex = NoThread
    /\ head = NULL
    /\ tail = NULL
    /\ next = [n \in Node |-> NULL]
    /\ msgs = [n \in Node |-> END]
    /\ allocated = 0
    /\ freed = {}
    /\ destroyed = FALSE
    /\ finished = FALSE
    /\ wpc = [w \in Writers |-> "idle"]
    /\ wmsg = [w \in Writers |-> END]
    /\ flag \in ReadFlags
    /\ rpc = "out"
    /\ rnode = NULL
    /\ rmsg = END
    /\ bufsize = 0
    /\ ret = "NONE"

-----------------------------------------------------------------------------
(* ch_write().  The message m is linked while the mutex is held; the        *)
(* semaphore is posted after the mutex has been released.                   *)

WriteLock(w, m) ==
    /\ ~destroyed
    /\ wpc[w] = "idle"
    /\ mutex = NoThread
    /\ mutex' = w
    /\ wmsg' = [wmsg EXCEPT ![w] = m]
    /\ wpc' = [wpc EXCEPT ![w] = "link"]
    /\ UNCHANGED <<sem, list, destroyed, reader>>

\* A data message; the owner writes nothing after ch_finish().
WriteData(w, m) ==
    /\ allocated < MaxData + (IF finished THEN 1 ELSE 0)
    /\ w = Owner => ~finished
    /\ WriteLock(w, m)
    /\ UNCHANGED finished

\* ch_finish(): ch_write(ch, NULL, 0).
\* Channels drained without blocking are never finished (run.c keeps
\* proc_mem_ch until the process exits).
Finish ==
    /\ flag = "block"
    /\ ~finished
    /\ WriteLock(Owner, END)
    /\ finished' = TRUE

\* Mutant: the new node always becomes the head of the list.
MutantLinkAtHead(w) ==
    LET n == allocated + 1 IN
    /\ wpc[w] = "link"
    /\ allocated' = n
    /\ msgs' = [msgs EXCEPT ![n] = wmsg[w]]
    /\ head' = n
    /\ next' = [next EXCEPT ![n] = head]
    /\ wpc' = [wpc EXCEPT ![w] = "settail"]
    /\ UNCHANGED <<sem, mutex, tail, freed, destroyed, wmsg, finished, reader>>

\* malloc() the node, fill it, and hook it to the last node or to ch->head.
WriteLink(w) ==
    LET n == allocated + 1 IN
    /\ wpc[w] = "link"
    /\ allocated' = n
    /\ msgs' = [msgs EXCEPT ![n] = wmsg[w]]
    /\ IF tail # NULL
       THEN next' = [next EXCEPT ![tail] = n] /\ head' = head
       ELSE head' = n /\ next' = next
    /\ wpc' = [wpc EXCEPT ![w] = "settail"]
    /\ UNCHANGED <<sem, mutex, tail, freed, destroyed, wmsg, finished, reader>>

\* Mutant: ch->tail is set only for the first node.
MutantTailSetOnce(w) ==
    /\ wpc[w] = "settail"
    /\ tail' = IF tail = NULL THEN allocated ELSE tail
    /\ wpc' = [wpc EXCEPT ![w] = "unlock"]
    /\ UNCHANGED <<sem, mutex, head, next, msgs, allocated, freed, destroyed,
                   wmsg, finished, reader>>

\* ch->tail = msg: the node this writer has just allocated.
WriteSetTail(w) ==
    /\ wpc[w] = "settail"
    /\ tail' = allocated
    /\ wpc' = [wpc EXCEPT ![w] = "unlock"]
    /\ UNCHANGED <<sem, mutex, head, next, msgs, allocated, freed, destroyed,
                   wmsg, finished, reader>>

WriteUnlock(w) ==
    /\ wpc[w] = "unlock"
    /\ mutex' = NoThread
    /\ wpc' = [wpc EXCEPT ![w] = "post"]
    /\ UNCHANGED <<sem, list, destroyed, wmsg, finished, reader>>

\* Mutant: a binary semaphore.
MutantBinarySemaphore(w) ==
    /\ wpc[w] = "post"
    /\ sem' = 1
    /\ wpc' = [wpc EXCEPT ![w] = "idle"]
    /\ UNCHANGED <<mutex, list, destroyed, wmsg, finished, reader>>

\* sem_post(), and ch_write() returns.
WritePost(w) ==
    /\ wpc[w] = "post"
    /\ sem' = sem + 1
    /\ wpc' = [wpc EXCEPT ![w] = "idle"]
    /\ UNCHANGED <<mutex, list, destroyed, wmsg, finished, reader>>

-----------------------------------------------------------------------------
(* ch_read() inside the loop while (CHANNEL_OK == ch_read(...)).            *)

\* The loop is entered with size = sizeof(*msg).
EnterLoop ==
    /\ rpc = "out"
    /\ bufsize' = Expected
    /\ rpc' = "read"
    /\ UNCHANGED <<sem, mutex, list, destroyed, writer, flag, rnode, rmsg, ret>>

\* A worker's loop is over for good, proc_dirty_mem() is called again.
LeaveLoop == rpc' = IF flag = "block" THEN "done" ELSE "out"

\* sem_wait() returns, or sem_trywait() succeeds.
ReadWait ==
    /\ rpc = "read"
    /\ sem > 0
    /\ sem' = sem - 1
    /\ rpc' = "lock"
    /\ UNCHANGED <<mutex, list, destroyed, writer, flag, rnode, rmsg, bufsize, ret>>

\* sem_trywait() fails with EAGAIN.
ReadNoData ==
    /\ rpc = "read"
    /\ sem = 0
    /\ flag = "nonblock"
    /\ ret' = "NODATA"
    /\ LeaveLoop
    /\ UNCHANGED <<sem, mutex, list, destroyed, writer, flag, rnode, rmsg, bufsize>>

ReadLock ==
    /\ rpc = "lock"
    /\ mutex = NoThread
    /\ mutex' = Reader
    /\ rpc' = "unlink"
    /\ UNCHANGED <<sem, list, destroyed, writer, flag, rnode, rmsg, bufsize, ret>>

\* msg = ch->head, read its fields, ch->head = msg->next.
ReadUnlink ==
    /\ rpc = "unlink"
    /\ head # NULL
    /\ rnode' = head
    /\ rmsg' = msgs[head]
    /\ head' = next[head]
    /\ rpc' = "fixtail"
    /\ UNCHANGED <<sem, mutex, tail, next, msgs, allocated, freed, destroyed,
                   writer, flag, bufsize, ret>>

\* Mutant: ch->tail keeps pointing to the node that is freed.
MutantDanglingTail ==
    /\ rpc = "fixtail"
    /\ tail' = tail
    /\ freed' = freed \cup {rnode}
    /\ rpc' = "unlock"
    /\ UNCHANGED <<sem, mutex, head, next, msgs, allocated, destroyed,
                   writer, flag, rnode, rmsg, bufsize, ret>>

\* if (!ch->head) ch->tail = NULL; free(msg).
ReadFixTail ==
    /\ rpc = "fixtail"
    /\ tail' = IF head = NULL THEN NULL ELSE tail
    /\ freed' = freed \cup {rnode}
    /\ rpc' = "unlock"
    /\ UNCHANGED <<sem, mutex, head, next, msgs, allocated, destroyed,
                   writer, flag, rnode, rmsg, bufsize, ret>>

ReadUnlock ==
    /\ rpc = "unlock"
    /\ mutex' = NoThread
    /\ rpc' = "return"
    /\ UNCHANGED <<sem, list, destroyed, writer, flag, rnode, rmsg, bufsize, ret>>

\* CHANNEL_END on a NULL payload.
ReturnEnd ==
    /\ rpc = "return"
    /\ rmsg.payload = NULL
    /\ ret' = "END"
    /\ bufsize' = 0
    /\ LeaveLoop
    /\ UNCHANGED <<sem, mutex, list, destroyed, writer, flag, rnode, rmsg>>

\* CHANNEL_MISREAD when a size was asked for and it is not this one.
ReturnMisread ==
    /\ rpc = "return"
    /\ rmsg.payload # NULL
    /\ bufsize # 0 /\ bufsize # rmsg.size
    /\ ret' = "MISREAD"
    /\ bufsize' = 0
    /\ LeaveLoop
    /\ UNCHANGED <<sem, mutex, list, destroyed, writer, flag, rnode, rmsg>>

\* CHANNEL_OK: the caller uses the message and loops.
ReturnOk ==
    /\ rpc = "return"
    /\ rmsg.payload # NULL
    /\ bufsize = 0 \/ bufsize = rmsg.size
    /\ ret' = "OK"
    /\ bufsize' = rmsg.size
    /\ rpc' = "read"
    /\ UNCHANGED <<sem, mutex, list, destroyed, writer, flag, rnode, rmsg>>

-----------------------------------------------------------------------------
(* ch_destroy(): the owner has joined the reader; the caller must know that *)
(* no other thread is inside the channel.                                   *)
Destroy ==
    /\ ~destroyed
    /\ finished
    /\ rpc = "done"
    /\ \A w \in Writers : wpc[w] = "idle"
    /\ destroyed' = TRUE
    /\ freed' = 1 .. allocated
    /\ UNCHANGED <<sem, mutex, head, tail, next, msgs, allocated, writer,
                   reader>>

-----------------------------------------------------------------------------
\* ch_write() once it holds the mutex: never waits for anything.
WriteStep(w) ==
    \/ WriteLink(w) \/ WriteSetTail(w) \/ WriteUnlock(w) \/ WritePost(w)

Write(w) == (\E m \in Data : WriteData(w, m)) \/ WriteStep(w)

Read ==
    \/ EnterLoop \/ ReadWait \/ ReadNoData \/ ReadLock \/ ReadUnlink
    \/ ReadFixTail \/ ReadUnlock \/ ReturnEnd \/ ReturnMisread \/ ReturnOk

\* The program is over: the channel is gone and nobody uses it.
Terminated == destroyed /\ UNCHANGED vars

Next ==
    \/ \E w \in Writers : Write(w)
    \/ Finish
    \/ Read
    \/ Destroy
    \/ Terminated

Spec == Init /\ [][Next]_vars

(***************************************************************************)
(* Fairness: the threads are scheduled by the kernel, so a thread that can *)
(* take a step does.  Taking the mutex needs strong fairness: other        *)
(* threads may hold it whenever this one looks.  No thread has to write    *)
(* data, but the owner always comes to ch_finish() and ch_destroy().       *)
(***************************************************************************)
Fairness ==
    /\ \A w \in Writers : WF_vars(WriteStep(w))
    /\ WF_vars(Read)
    /\ SF_vars(ReadLock)
    /\ SF_vars(Finish)
    /\ WF_vars(Destroy)

FairSpec == Spec /\ Fairness

-----------------------------------------------------------------------------
TypeOK ==
    /\ sem \in Nat
    /\ mutex \in Writers \cup {Reader, NoThread}
    /\ head \in Node \cup {NULL}
    /\ tail \in Node \cup {NULL}
    /\ next \in [Node -> Node \cup {NULL}]
    /\ msgs \in [Node -> Message]
    /\ allocated \in 0 .. MaxData + 1
    /\ freed \in SUBSET Node
    /\ destroyed \in BOOLEAN
    /\ finished \in BOOLEAN
    /\ wpc \in [Writers -> {"idle", "link", "settail", "unlock", "post"}]
    /\ wmsg \in [Writers -> Message]
    /\ flag \in ReadFlags
    /\ rpc \in {"out", "read", "lock", "unlink", "fixtail", "unlock",
                "return", "done"}
    /\ rnode \in Node \cup {NULL}
    /\ rmsg \in Message
    /\ bufsize \in Nat
    /\ ret \in {"NONE", "OK", "END", "MISREAD", "NODATA"}

\* How many messages the reader has unlinked, and how many are linked.
Taken == IF head = NULL THEN allocated ELSE head - 1
Linked == allocated - Taken

(***************************************************************************)
(* ch_read() dereferences ch->head without a test, and ch_write()          *)
(* dereferences ch->tail: whenever a thread is about to do so the pointer  *)
(* is a node that was allocated and not freed (ch_read also needs it not   *)
(* to be NULL).                                                            *)
(***************************************************************************)
NoBadDereference ==
    /\ rpc = "unlink" => head # NULL /\ head \notin freed /\ head <= allocated
    /\ \A w \in Writers :
          wpc[w] = "link" /\ tail # NULL => tail \notin freed /\ tail <= allocated

(***************************************************************************)
(* The semaphore lags behind the list by exactly the writers that have     *)
(* linked their message and not posted yet, and by the reader that has     *)
(* been let in and has not unlinked its message yet: no wake-up is lost    *)
(* and none is spurious.                                                   *)
(***************************************************************************)
Unposted == {w \in Writers : wpc[w] \in {"settail", "unlock", "post"}}
LetIn == IF rpc \in {"lock", "unlink"} THEN 1 ELSE 0
SemaphoreExact == sem + LetIn + Cardinality(Unposted) = Linked

(***************************************************************************)
(* The list between two critical sections, and inside each of them.        *)
(***************************************************************************)
HalfLinked == \E w \in Writers : wpc[w] = "settail"
ListShape ==
    /\ head <= allocated
    /\ HalfLinked => head # NULL
    /\ \A n \in Node : n >= head /\ head # NULL /\ n < allocated => next[n] = n + 1
    /\ \A n \in Node : n >= allocated => next[n] = NULL
    /\ tail = IF HalfLinked
              THEN (IF head = allocated THEN NULL ELSE allocated - 1)
              ELSE (IF head = NULL /\ rpc # "fixtail" THEN NULL ELSE allocated)
    /\ \A n \in freed : n <= allocated /\ (~destroyed /\ head # NULL => n < head)
    /\ rpc = "fixtail" => /\ rnode \in Node
                          /\ rnode = Taken

(* Who holds the mutex is inside a critical section, and nobody else is.    *)
CriticalSection ==
    /\ \A w \in Writers : wpc[w] \in {"link", "settail", "unlock"} <=> mutex = w
    /\ rpc \in {"unlink", "fixtail", "unlock"} <=> mutex = Reader

(* Room for the message of a writer that is inside ch_write(). *)
Room ==
    /\ allocated <= MaxData + (IF finished THEN 1 ELSE 0)
    /\ (\E w \in Writers : wpc[w] = "link") =>
          allocated < MaxData + (IF finished THEN 1 ELSE 0)

Gone == destroyed => rpc = "done" /\ \A w \in Writers : wpc[w] = "idle"

(* The inductive invariant behind the safety properties. *)
ChannelInv ==
    /\ TypeOK
    /\ CriticalSection
    /\ Room
    /\ Gone
    /\ ListShape
    /\ SemaphoreExact

-----------------------------------------------------------------------------
(* The channel is a first-in first-out queue that delivers every message    *)
(* once: its list of nodes implements the log of module Fifo.               *)
Log == [n \in 1 .. allocated |-> msgs[n]]

Abstract == INSTANCE Fifo WITH
    NoMessage <- END, log <- Log, taken <- Taken, out <- rmsg,
    closed <- destroyed

ImplementsFifo == Abstract!Spec

(***************************************************************************)
(* Every message that was linked is read in the end, unless the reader has *)
(* left its loop for good before its turn (an END or a misread message).   *)
(***************************************************************************)
EveryMessageIsRead ==
    \A n \in Node : (allocated >= n) ~> (Taken >= n \/ rpc = "done")
=============================================================================
