-------------------------------- MODULE Heap --------------------------------
(***************************************************************************)
(* The heap of the recorded program: the allocation functions that the     *)
(* preloaded library wraps (record/preload.c), the FIFO that carries one   *)
(* event per call to the recorder, the loop of process_breakpoint() that   *)
(* stamps the events with the step (record/run.c), the rows of table heap  *)
(* (record/db_workers.c, wrk_insert_heap), and what the debug server makes *)
(* of a pointer (examine/vars.c, get_pointer_size).                        *)
(*                                                                         *)
(* The worker handles the messages in the order they were written (module  *)
(* Channel), so its rows are written here as the step reads the events.    *)
(* Addresses and sizes count memory cells.                                 *)
(***************************************************************************)
EXTENDS Integers, Sequences, FiniteSets

CONSTANTS
    Blocks,         \* addresses the allocator may return
    Sizes,          \* sizes the program asks for, all of them fit between blocks
    FIFO_SIZE,      \* events the FIFO holds
    MaxSteps,       \* bound: steps of the recording
    MaxCalls        \* bound: what the program does between two steps

Never == -2         \* a block that was never allocated ...
Freed == -1         \* ... that is not allocated any more
NULL == 0

ASSUME HeapAssumption ==
    /\ Blocks \subseteq Nat \ {NULL}
    /\ Sizes \subseteq Nat

VARIABLES
    live,           \* per block, the size it has for the program
    fifo_fd,        \* of the preloaded library: "unset" (0), "open", "failed" (-1)
    fifo,           \* events not read yet
    calls,          \* what the program has done since the last step
    step_id,
    heap,           \* rows of table heap
    \* history, read by no action
    blurred,        \* blocks the events do not tell the truth about
    lives, blurs    \* live and blurred at each step

childHeap == <<live, fifo, blurred>>
heapVars == <<childHeap, fifo_fd, calls, step_id, heap, lives, blurs>>

HeapInit ==
    /\ live = [a \in Blocks |-> Never]
    /\ fifo_fd = "unset"
    /\ fifo = << >>
    /\ calls = 0
    /\ step_id = 0
    /\ heap = {}
    /\ blurred = {}
    /\ lives = << >> /\ blurs = << >>

-----------------------------------------------------------------------------
(* The preloaded library in the program.                                   *)

\* init(): the FIFO is opened, or cannot be created, or cannot be opened.
\* It runs before the program stops for the first time.
OpenFifo ==
    /\ step_id = 0 /\ calls = 0 /\ fifo_fd = "unset"
    /\ calls' = 1
    /\ fifo_fd' \in {"unset", "open", "failed"}
    /\ UNCHANGED <<childHeap, step_id, heap, lives, blurs>>

\* send_alloc_event() and send_free_event(): the FIFO does not block, so a
\* write that fails, because it is full or not open, loses the event.
Sends == fifo_fd = "open" /\ Len(fifo) < FIFO_SIZE
Send(type, address, size) ==
    fifo' = IF Sends THEN Append(fifo, [type |-> type, address |-> address, size |-> size])
            ELSE fifo

\* History: the rows for block a will tell the truth after this allocation if
\* it is sent, is not taken for a release, and is the only one of a step.
Clear(a, size) ==
    /\ Sends /\ size # 0
    /\ \A i \in DOMAIN fifo : fifo[i].address = a => fifo[i].type # "alloc"

Calling == calls' = calls + 1 /\ calls < MaxCalls /\ fifo_fd' = fifo_fd

\* malloc(), calloc(), memalign(), aligned_alloc(), valloc(), pvalloc() and
\* posix_memalign() when they succeed; a call that fails sends nothing.
malloc(a, size) ==
    /\ live[a] < 0
    /\ live' = [live EXCEPT ![a] = size]
    /\ Send("alloc", a, size)
    /\ blurred' = IF Clear(a, size) THEN blurred \ {a} ELSE blurred \cup {a}

\* realloc() of block a that returns block b: only the new block is reported.
realloc(a, b, size) ==
    /\ live[a] >= 0 /\ size # 0
    /\ b = a \/ live[b] < 0
    /\ live' = [[live EXCEPT ![a] = Freed] EXCEPT ![b] = size]
    /\ Send("alloc", b, size)
    /\ blurred' = IF Clear(b, size) THEN (blurred \cup {a}) \ {b} ELSE blurred \cup {a, b}

\* realloc() to size 0 releases the block and returns NULL: nothing is sent.
ReallocToZero(a) ==
    /\ live[a] >= 0
    /\ live' = [live EXCEPT ![a] = Freed]
    /\ blurred' = blurred \cup {a}
    /\ UNCHANGED fifo

free(a) ==
    /\ a # NULL => live[a] >= 0
    /\ live' = IF a = NULL THEN live ELSE [live EXCEPT ![a] = Freed]
    /\ Send("free", a, 0)
    /\ blurred' = IF Sends \/ a = NULL THEN blurred ELSE blurred \cup {a}

-----------------------------------------------------------------------------
(* The recorder.                                                           *)

\* The body of wrk_insert_heap()'s loop: size 0 means a release.
InsertHeap(rows, msg) ==
    IF msg.size # 0
    THEN rows \cup {[address |-> msg.address, size |-> msg.size,
                     allocated_at |-> msg.step_id, freed_at |-> 0]}
    ELSE {IF r.address = msg.address /\ r.freed_at = 0
          THEN [r EXCEPT !.freed_at = msg.step_id] ELSE r : r \in rows}

\* What process_breakpoint() makes of an event: a release has size 0.
HeapMsg(e, step) ==
    [step_id |-> step, address |-> e.address, size |-> IF e.type = "alloc" THEN e.size ELSE 0]

\* process_breakpoint() reads all events and stamps them with its step.
ReadEvents(step) ==
    LET table[i \in 0 .. Len(fifo)] ==
            IF i = 0 THEN heap ELSE InsertHeap(table[i - 1], HeapMsg(fifo[i], step))
    IN  /\ heap' = table[Len(fifo)]
        /\ fifo' = << >>

HeapStep ==
    /\ step_id < MaxSteps
    /\ step_id' = step_id + 1
    /\ ReadEvents(step_id + 1)
    /\ calls' = 0
    /\ lives' = Append(lives, live)
    /\ blurs' = Append(blurs, blurred)
    /\ UNCHANGED <<live, blurred, fifo_fd>>

\* The program between two steps: a call of the library, or anything else.
HeapCall ==
    \/ \E a \in Blocks, size \in Sizes : malloc(a, size)
    \/ \E a, b \in Blocks, size \in Sizes : realloc(a, b, size)
    \/ \E a \in Blocks : ReallocToZero(a)
    \/ \E a \in Blocks \cup {NULL} : free(a)
    \/ UNCHANGED childHeap

\* The heap on its own, which every module that composes it implements.
HeapNext ==
    \/ OpenFifo
    \/ Calling /\ HeapCall /\ UNCHANGED <<step_id, heap, lives, blurs>>
    \/ HeapStep
HeapSpec == HeapInit /\ [][HeapNext]_heapVars

-----------------------------------------------------------------------------
(* The debug server, at step cur.                                          *)

\* Mutant: the oldest allocation of the address.
MutantOldest(address, cur) ==
    LET known == {r \in heap : r.address = address /\ r.allocated_at <= cur}
    IN  {r \in known : \A q \in known : q.allocated_at >= r.allocated_at}

\* The rows get_pointer_size() may get for an address: the latest allocation,
\* any of them when there are several in one step.
Latest(address, cur) ==
    LET known == {r \in heap : r.address = address /\ r.allocated_at <= cur}
    IN  {r \in known : \A q \in known : q.allocated_at <= r.allocated_at}

Verdict(what, size) == [what |-> what, size |-> size]

\* get_pointer_size(); inMemory is its test for addresses not on the heap.
PointerSizes(address, cur, inMemory) ==
    IF Latest(address, cur) # {}
    THEN {IF r.freed_at # 0 /\ r.freed_at <= cur THEN Verdict("released", 0)
          ELSE Verdict("success", r.size) : r \in Latest(address, cur)}
    ELSE {IF inMemory THEN Verdict("success", 0) ELSE Verdict("notfound", 0)}

-----------------------------------------------------------------------------
(* Properties.                                                             *)

\* At every step of the recording a pointer to a block is shown as what the
\* block was at that step, whatever became of it later: its size while it was
\* allocated, "dangling" once it was released.  It is claimed for blocks whose
\* events all got through; lost events, a realloc() that moves or releases a
\* block, size 0 and two allocations of a block in one step blur it until the
\* next allocation of the block.
PointerVerdictExact ==
    \A step \in 1 .. step_id : \A a \in Blocks \ blurs[step] :
        LET was == lives[step][a] IN
        PointerSizes(a, step, FALSE) =
            {IF was = Never THEN Verdict("notfound", 0)
             ELSE IF was = Freed THEN Verdict("released", 0)
             ELSE Verdict("success", was)}
=============================================================================
