----------------------------- MODULE Recorder -----------------------------
(***************************************************************************)
(* The recording loop of fr_record (record/run.c) and the threads it       *)
(* works with: the reset_dirty thread that write-protects the pages of the *)
(* child through /proc/<pid>/clear_refs, the thread that polls the perf    *)
(* ring buffers and calls bpf_callback(), and the region cache of          *)
(* record/memcache.c.  The child process, ptrace, the page protection of   *)
(* the kernel and the BPF programs are the environment.                    *)
(*                                                                         *)
(* A behaviour starts when the child has stopped at its first breakpoint,  *)
(* which is the first line of a function (run.c:181), and ends when the    *)
(* main loop has left its loop or given up.                                *)
(*                                                                         *)
(* Abstractions: a page is one memory segment; channels are the queues of  *)
(* module Fifo (proc_mem_ch) or the rows their worker inserts (`log' for   *)
(* insert_mem_ch); a step of the child between two breakpoints is any      *)
(* number of writes and at most one mmap() per new page.                   *)
(***************************************************************************)
EXTENDS Integers, Sequences, FiniteSets

CONSTANTS
    Pages,          \* pages of the child
    InitialPages,   \* the ones mapped at the first breakpoint
    Values,         \* contents of a page
    Zero,           \* the contents of a freshly mapped page
    None,           \* no contents
    Cpus,           \* one perf ring buffer per CPU
    KernelWrites,   \* may system calls of the child write to its memory?
    MaxSteps        \* bound: breakpoints the child hits

ASSUME RecorderAssumption ==
    /\ InitialPages \subseteq Pages
    /\ Zero \in Values
    /\ None \notin Values
    /\ Cpus # {} /\ IsFiniteSet(Cpus)
    /\ KernelWrites \in BOOLEAN
    /\ MaxSteps \in Nat \ {0}

Flags == {"START", "END", "NONE"}       \* func_flag of a source line
Steps == 1 .. MaxSteps

\* struct bpf_event: what the BPF programs send.
Event ==
    [type : {"SIGTRAP", "MMAPENTRY"}, page : {None}]
        \cup [type : {"PAGEFAULT", "MMAPEXIT"}, page : Pages]

VARIABLES
    \* the child and the kernel
    child,          \* "running", "mapping" (inside mmap()), "trapped",
                    \* "stepping", "exited", "signalled"
    flag,           \* func_flag of the line the child has stopped at
    cpu,            \* the CPU it runs on
    mem,            \* its memory
    mapped,         \* its mapped pages
    prot,           \* pages whose next write by the child faults
    rings,          \* per CPU, the events not delivered yet
    \* the main thread
    pc,             \* where it is in record() and process_breakpoint()
    step_id, mem_dirty, wait_reset, depth, attached, stop,
    \* the reset_dirty thread
    rpc,            \* where it is in its loop
    start_sem, end_sem,
    buffered,       \* a byte sits in the stdio buffer of clear_refs
    \* the BPF polling thread
    bpc,            \* where it is in bpf_callback()
    bpage,          \* the page its event is about
    bstep,          \* cache_add_region()'s argument step_id, passed by value
    count,          \* bpf_callback's static count
    mapped_size,    \* 0, or the size of one page
    bpf_sem,
    \* shared between the main thread and the polling thread
    proc_mem_ch,    \* addresses of faults
    cache,          \* cached contents of the pages of known regions
    log,            \* rows of the mem table: contents per page and step
    \* history, read by no action
    armed,          \* clear_refs was written at least once
    touched         \* pages the child's code wrote since

environment == <<child, flag, cpu, mem, mapped, prot, rings>>
main == <<pc, step_id, wait_reset, depth, attached, stop>>
resetter == <<rpc, start_sem, end_sem, buffered, armed>>
poller == <<bpc, bpage, bstep, count, mapped_size, bpf_sem>>
shared == <<proc_mem_ch, cache, log>>
vars == <<environment, main, mem_dirty, resetter, poller, shared, touched>>

Init ==
    /\ child = "trapped"
    /\ flag = "START"
    /\ cpu \in Cpus
    /\ mem \in [Pages -> {Zero}]
    /\ mapped = InitialPages
    /\ prot \in SUBSET InitialPages      \* not all pages are present
    /\ rings = [c \in Cpus |-> <<>>]
    /\ pc = "init"
    /\ step_id = 0
    /\ mem_dirty = TRUE
    /\ wait_reset = FALSE
    /\ depth = 0
    /\ attached = FALSE
    /\ stop = FALSE
    /\ rpc = "wait"
    /\ start_sem = 0
    /\ end_sem = 0
    /\ buffered = FALSE
    /\ bpc = "poll"
    /\ bpage = None
    /\ bstep = 0
    /\ count = 0
    /\ mapped_size = 0
    /\ bpf_sem = 0
    /\ proc_mem_ch = <<>>
    /\ cache = [p \in Pages |-> None]
    /\ log = [p \in Pages |-> [s \in Steps |-> None]]
    /\ armed = FALSE
    /\ touched = {}

-----------------------------------------------------------------------------
(* The child and the kernel.                                                *)

Send(es) == rings' = IF attached THEN [rings EXCEPT ![cpu] = @ \o es] ELSE rings

Fault(p) == [type |-> "PAGEFAULT", page |-> p]
Trap == [type |-> "SIGTRAP", page |-> None]
MmapEntry == [type |-> "MMAPENTRY", page |-> None]
MmapExit(p) == [type |-> "MMAPEXIT", page |-> p]

\* An instruction of the child writes to page p: a protected page faults,
\* and is writable afterwards.
UserWrite(p, v, after) ==
    /\ p \in mapped
    /\ mem' = [mem EXCEPT ![p] = v]
    /\ prot' = prot \ {p}
    /\ Send((IF p \in prot THEN <<Fault(p)>> ELSE <<>>) \o after)
    /\ touched' = IF armed THEN touched \cup {p} ELSE touched

ChildWrites ==
    /\ child = "running"
    /\ \E p \in Pages, v \in Values : UserWrite(p, v, <<>>)
    /\ UNCHANGED <<child, flag, cpu, mapped, main, mem_dirty, resetter,
                   poller, shared>>

\* A system call writes to page p: the fault is not a page_fault_user event.
KernelWritesPage ==
    /\ KernelWrites
    /\ child = "running"
    /\ \E p \in mapped, v \in Values :
          /\ mem' = [mem EXCEPT ![p] = v]
          /\ prot' = prot \ {p}
    /\ UNCHANGED <<child, flag, cpu, mapped, rings, main, mem_dirty, resetter,
                   poller, shared, touched>>

\* The child calls mmap(): the tracepoint at its entry.
ChildCallsMmap ==
    /\ child = "running"
    /\ Pages \ mapped # {}
    /\ child' = "mapping"
    /\ Send(<<MmapEntry>>)
    /\ UNCHANGED <<flag, cpu, mem, mapped, prot, main, mem_dirty, resetter,
                   poller, shared, touched>>

\* mmap() has mapped a page, zero-filled and not present: the tracepoint at
\* its exit, on the CPU the child is on by now.
ChildMaps ==
    /\ child = "mapping"
    /\ child' = "running"
    /\ \E p \in Pages \ mapped :
          /\ mapped' = mapped \cup {p}
          /\ prot' = prot \cup {p}
          /\ mem' = [mem EXCEPT ![p] = Zero]
          /\ Send(<<MmapExit(p)>>)
    /\ UNCHANGED <<flag, cpu, main, mem_dirty, resetter, poller, shared,
                   touched>>

\* The scheduler moves the child to another CPU, inside a system call too.
ChildMigrates ==
    /\ child \in {"running", "mapping"}
    /\ \E c \in Cpus \ {cpu} : cpu' = c
    /\ UNCHANGED <<child, flag, mem, mapped, prot, rings, main, mem_dirty,
                   resetter, poller, shared, touched>>

\* The child reaches the breakpoint of another source line.
ChildTraps ==
    /\ child = "running"
    /\ step_id < MaxSteps
    /\ child' = "trapped"
    /\ flag' \in {f \in Flags : depth = 0 => f = "START"}
    /\ Send(<<Trap>>)
    /\ UNCHANGED <<cpu, mem, mapped, prot, main, mem_dirty, resetter, poller,
                   shared, touched>>

\* exit(), or a signal that is not SIGTRAP.
ChildEnds ==
    /\ child = "running"
    /\ child' \in {"exited", "signalled"}
    /\ UNCHANGED <<flag, cpu, mem, mapped, prot, rings, main, mem_dirty,
                   resetter, poller, shared, touched>>

\* The one instruction of PTRACE_SINGLESTEP: it may write a page, then the
\* kernel sends the second SIGTRAP of this stop.
ChildSteps ==
    /\ child = "stepping"
    /\ child' = "trapped"
    /\ \/ \E p \in Pages, v \in Values : UserWrite(p, v, <<Trap>>)
       \/ Send(<<Trap>>) /\ UNCHANGED <<mem, prot, touched>>
    /\ UNCHANGED <<flag, cpu, mapped, main, mem_dirty, resetter, poller,
                   shared>>

\* ... or it is the one that crashes.
ChildCrashesInStep ==
    /\ child = "stepping"
    /\ child' = "signalled"
    /\ UNCHANGED <<flag, cpu, mem, mapped, prot, rings, main, mem_dirty,
                   resetter, poller, shared, touched>>

-----------------------------------------------------------------------------
(* The region cache.                                                        *)

Known == {p \in Pages : cache[p] # None}

\* Mutant: the cached copy is not brought up to date.
MutantProcessPageStale(p) ==
    /\ log' = IF p \in Known /\ mem[p] # cache[p]
              THEN [log EXCEPT ![p][step_id] = mem[p]] ELSE log
    /\ UNCHANGED cache

\* find_page() and process_page(): store the page if it has changed.
ProcessPage(p) ==
    IF p \in Known /\ mem[p] # cache[p]
    THEN /\ cache' = [cache EXCEPT ![p] = mem[p]]
         /\ log' = [log EXCEPT ![p][step_id] = mem[p]]
    ELSE UNCHANGED <<cache, log>>

-----------------------------------------------------------------------------
(* The main thread: record() and process_breakpoint().                      *)

\* init_cache(), while the child is stopped at its first line and no other
\* thread looks at the cache: every region is cached and stored with step 1.
InitCache ==
    /\ pc = "init"
    /\ cache' = [p \in Pages |-> IF p \in mapped THEN mem[p] ELSE cache[p]]
    /\ log' = [p \in Pages |->
                 IF p \in mapped THEN [log[p] EXCEPT ![1] = mem[p]] ELSE log[p]]
    /\ pc' = "bp"
    /\ UNCHANGED <<environment, step_id, mem_dirty, wait_reset, depth,
                   attached, stop, resetter, poller, proc_mem_ch, touched>>

\* Trigger the reset_dirty thread if there was a fault, start a new step.
BeginStep ==
    /\ pc = "bp"
    /\ start_sem' = IF mem_dirty THEN start_sem + 1 ELSE start_sem
    /\ wait_reset' = mem_dirty
    /\ step_id' = step_id + 1
    /\ pc' = "line"
    /\ UNCHANGED <<environment, mem_dirty, depth, attached, stop, rpc,
                   end_sem, buffered, armed, poller, shared, touched>>

\* Mutant: the dirty flag is cleared at the start of a function too.
MutantFindLineClears ==
    /\ pc = "line"
    /\ depth' = IF flag = "START" THEN depth + 1 ELSE depth
    /\ pc' = IF ~mem_dirty THEN "store"
             ELSE IF flag # "START" THEN "drain" ELSE "clean"
    /\ UNCHANGED <<environment, step_id, mem_dirty, wait_reset, attached,
                   stop, resetter, poller, shared, touched>>

\* Look the line up; the dirty pages are left for later at the start of a
\* function.
FindLine ==
    /\ pc = "line"
    /\ depth' = IF flag = "START" THEN depth + 1 ELSE depth
    /\ pc' = IF mem_dirty /\ flag # "START" THEN "drain" ELSE "store"
    /\ UNCHANGED <<environment, step_id, mem_dirty, wait_reset, attached,
                   stop, resetter, poller, shared, touched>>

\* Mutant: the address stays in the channel.
MutantDrainKeeps ==
    /\ pc = "drain"
    /\ proc_mem_ch # <<>>
    /\ ProcessPage(Head(proc_mem_ch))
    /\ UNCHANGED <<environment, main, mem_dirty, resetter, poller, proc_mem_ch,
                   touched>>

\* proc_dirty_mem(): one address of the channel.
DrainPage ==
    /\ pc = "drain"
    /\ proc_mem_ch # <<>>
    /\ ProcessPage(Head(proc_mem_ch))
    /\ proc_mem_ch' = Tail(proc_mem_ch)
    /\ UNCHANGED <<environment, main, mem_dirty, resetter, poller, touched>>

\* ... CHANNEL_NODATA: proc_dirty_mem() returns.
DrainDone ==
    /\ pc = "drain"
    /\ proc_mem_ch = <<>>
    /\ pc' = "clean"
    /\ UNCHANGED <<environment, step_id, mem_dirty, wait_reset, depth,
                   attached, stop, resetter, poller, shared, touched>>

ClearDirty ==
    /\ pc = "clean"
    /\ mem_dirty' = FALSE
    /\ pc' = "store"
    /\ UNCHANGED <<environment, step_id, wait_reset, depth, attached, stop,
                   resetter, poller, shared, touched>>

\* The step and its heap events go to their workers; the function's last
\* line closes its frame.
StoreStep ==
    /\ pc = "store"
    /\ depth' = IF flag = "END" THEN depth - 1 ELSE depth
    /\ pc' = "stored"
    /\ UNCHANGED <<environment, step_id, mem_dirty, wait_reset, attached,
                   stop, resetter, poller, shared, touched>>

\* Mutant: the child is stepped without waiting for the reset.
MutantNoAwaitReset ==
    /\ pc = "stored"
    /\ pc' = "step"
    /\ UNCHANGED <<environment, step_id, mem_dirty, wait_reset, depth,
                   attached, stop, resetter, poller, shared, touched>>

\* wait_reset_dirty(), with the original instruction put back.
AwaitReset ==
    /\ pc = "stored"
    /\ wait_reset => end_sem > 0
    /\ end_sem' = IF wait_reset THEN end_sem - 1 ELSE end_sem
    /\ pc' = "step"
    /\ UNCHANGED <<environment, step_id, mem_dirty, wait_reset, depth,
                   attached, stop, rpc, start_sem, buffered, armed, poller,
                   shared, touched>>

SingleStep ==
    /\ pc = "step"
    /\ child' = "stepping"
    /\ pc' = "stepwait"
    /\ UNCHANGED <<flag, cpu, mem, mapped, prot, rings, step_id, mem_dirty,
                   wait_reset, depth, attached, stop, resetter, poller,
                   shared, touched>>

\* SIGTRAP: the breakpoint is put back and process_breakpoint() succeeds.
StepDone ==
    /\ pc = "stepwait"
    /\ child = "trapped"
    /\ pc' = IF attached THEN "cont" ELSE "attach"
    /\ UNCHANGED <<environment, step_id, mem_dirty, wait_reset, depth,
                   attached, stop, resetter, poller, shared, touched>>

\* Any other signal: process_breakpoint() and record() fail.
StepFails ==
    /\ pc = "stepwait"
    /\ child = "signalled"
    /\ pc' = "failed"
    /\ UNCHANGED <<environment, step_id, mem_dirty, wait_reset, depth,
                   attached, stop, resetter, poller, shared, touched>>

\* After the first step only: bpf_start().
BpfStart ==
    /\ pc = "attach"
    /\ attached' = TRUE
    /\ pc' = "cont"
    /\ UNCHANGED <<environment, step_id, mem_dirty, wait_reset, depth, stop,
                   resetter, poller, shared, touched>>

\* PTRACE_CONT.
Continue ==
    /\ pc = "cont"
    /\ child' = "running"
    /\ pc' = "wait"
    /\ UNCHANGED <<flag, cpu, mem, mapped, prot, rings, step_id, mem_dirty,
                   wait_reset, depth, attached, stop, resetter, poller,
                   shared, touched>>

\* waitpid(): a breakpoint.
WaitTrap ==
    /\ pc = "wait"
    /\ child = "trapped"
    /\ pc' = "semwait"
    /\ UNCHANGED <<environment, step_id, mem_dirty, wait_reset, depth,
                   attached, stop, resetter, poller, shared, touched>>

\* Mutant: the breakpoint is processed without waiting for the callback.
MutantNoAwaitCallback ==
    /\ pc = "semwait"
    /\ pc' = "bp"
    /\ UNCHANGED <<environment, step_id, mem_dirty, wait_reset, depth,
                   attached, stop, resetter, poller, shared, touched>>

\* sem_wait(&bpf_sem): the callback has seen the SIGTRAP event.
AwaitCallback ==
    /\ pc = "semwait"
    /\ bpf_sem > 0
    /\ bpf_sem' = bpf_sem - 1
    /\ pc' = "bp"
    /\ UNCHANGED <<environment, step_id, mem_dirty, wait_reset, depth,
                   attached, stop, resetter, bpc, bpage, bstep, count,
                   mapped_size, shared, touched>>

\* waitpid(): the child has exited, or has got another signal.
WaitEnd ==
    /\ pc = "wait"
    /\ child \in {"exited", "signalled"}
    /\ stop' = TRUE
    /\ pc' = "finish"
    /\ UNCHANGED <<environment, step_id, mem_dirty, wait_reset, depth,
                   attached, resetter, poller, shared, touched>>

-----------------------------------------------------------------------------
(* The reset_dirty thread.  clear_refs is a buffered stream: the byte of     *)
(* fwrite() reaches the kernel when the next rewind() flushes it.            *)

ResetRewind ==
    /\ rpc = "wait"
    /\ start_sem > 0
    /\ start_sem' = start_sem - 1
    /\ prot' = IF buffered THEN mapped ELSE prot
    /\ armed' = (armed \/ buffered)
    /\ buffered' = FALSE
    /\ rpc' = "write"
    /\ UNCHANGED <<child, flag, cpu, mem, mapped, rings, main, mem_dirty,
                   end_sem, poller, shared, touched>>

ResetWrite ==
    /\ rpc = "write"
    /\ buffered' = TRUE
    /\ end_sem' = end_sem + 1
    /\ rpc' = "wait"
    /\ UNCHANGED <<environment, main, mem_dirty, start_sem, armed, poller,
                   shared, touched>>

-----------------------------------------------------------------------------
(* The polling thread: perf_reader_poll() takes the oldest event of some     *)
(* ring and calls bpf_callback().                                            *)

Deliver(c) ==
    /\ bpc = "poll"
    /\ rings[c] # <<>>
    /\ rings' = [rings EXCEPT ![c] = Tail(@)]

\* Events that come after the child has stopped are ignored.
OnStopped(c) ==
    /\ Deliver(c)
    /\ stop
    /\ UNCHANGED <<child, flag, cpu, mem, mapped, prot, main, mem_dirty,
                   resetter, poller, shared, touched>>

\* Mutant: every SIGTRAP is for the main thread.
MutantEveryTrapPosts(c) ==
    /\ Deliver(c)
    /\ ~stop
    /\ Head(rings[c]).type = "SIGTRAP"
    /\ bpf_sem' = bpf_sem + 1
    /\ UNCHANGED <<child, flag, cpu, mem, mapped, prot, main, mem_dirty,
                   resetter, bpc, bpage, bstep, count, mapped_size, shared,
                   touched>>

\* Mutant: the count is never reset.
MutantCountGrows(c) ==
    /\ Deliver(c)
    /\ ~stop
    /\ Head(rings[c]).type = "SIGTRAP"
    /\ count' = count + 1
    /\ bpf_sem' = IF count % 2 = 0 THEN bpf_sem + 1 ELSE bpf_sem
    /\ UNCHANGED <<child, flag, cpu, mem, mapped, prot, main, mem_dirty,
                   resetter, bpc, bpage, bstep, mapped_size, shared, touched>>

\* Only the first SIGTRAP of a stop is for the main thread.
OnTrap(c) ==
    /\ Deliver(c)
    /\ ~stop
    /\ Head(rings[c]).type = "SIGTRAP"
    /\ count' = 1 - count
    /\ bpf_sem' = IF count = 0 THEN bpf_sem + 1 ELSE bpf_sem
    /\ UNCHANGED <<child, flag, cpu, mem, mapped, prot, main, mem_dirty,
                   resetter, bpc, bpage, bstep, mapped_size, shared, touched>>

OnPageFault(c) ==
    /\ Deliver(c)
    /\ ~stop
    /\ Head(rings[c]).type = "PAGEFAULT"
    /\ proc_mem_ch' = Append(proc_mem_ch, Head(rings[c]).page)
    /\ bpc' = "dirty"
    /\ UNCHANGED <<child, flag, cpu, mem, mapped, prot, main, mem_dirty,
                   resetter, bpage, bstep, count, mapped_size, bpf_sem, cache,
                   log, touched>>

SetDirty ==
    /\ bpc = "dirty"
    /\ mem_dirty' = TRUE
    /\ bpc' = "poll"
    /\ UNCHANGED <<environment, main, resetter, bpage, bstep, count,
                   mapped_size, bpf_sem, shared, touched>>

\* Mutant: the size is forgotten with the next event.
MutantMmapEntryLost(c) ==
    /\ Deliver(c)
    /\ ~stop
    /\ Head(rings[c]).type = "MMAPENTRY"
    /\ mapped_size' = 0
    /\ UNCHANGED <<child, flag, cpu, mem, mapped, prot, main, mem_dirty,
                   resetter, bpc, bpage, bstep, count, bpf_sem, shared,
                   touched>>

OnMmapEntry(c) ==
    /\ Deliver(c)
    /\ ~stop
    /\ Head(rings[c]).type = "MMAPENTRY"
    /\ mapped_size' = 1
    /\ UNCHANGED <<child, flag, cpu, mem, mapped, prot, main, mem_dirty,
                   resetter, bpc, bpage, bstep, count, bpf_sem, shared,
                   touched>>

\* cache_add_region(payload, mapped_size, step_id): the step is passed by
\* value, whatever the main thread does before the rows are written.
OnMmapExit(c) ==
    /\ Deliver(c)
    /\ ~stop
    /\ Head(rings[c]).type = "MMAPEXIT"
    /\ bpage' = Head(rings[c]).page
    /\ bstep' = step_id
    /\ bpc' = "region"
    /\ UNCHANGED <<child, flag, cpu, mem, mapped, prot, main, mem_dirty,
                   resetter, count, mapped_size, bpf_sem, shared, touched>>

\* The region gets into the array and the child's memory is copied, while the
\* child may be running.  A region of size 0 holds no page; the memory of a
\* child that is gone cannot be read, and nothing is stored.
RegionCopied ==
    /\ bpc = "region"
    /\ IF mapped_size > 0 /\ child # "exited"
       THEN /\ cache' = [cache EXCEPT ![bpage] = mem[bpage]]
            /\ bpc' = "rows"
       ELSE /\ bpc' = "poll"
            /\ UNCHANGED cache
    /\ UNCHANGED <<environment, main, mem_dirty, resetter, bpage, bstep, count,
                   mapped_size, bpf_sem, proc_mem_ch, log, touched>>

\* The rows of the region, from the cached copy.
RegionStored ==
    /\ bpc = "rows"
    /\ log' = [log EXCEPT ![bpage][bstep] = cache[bpage]]
    /\ bpc' = "poll"
    /\ UNCHANGED <<environment, main, mem_dirty, resetter, bpage, bstep, count,
                   mapped_size, bpf_sem, proc_mem_ch, cache, touched>>

-----------------------------------------------------------------------------
Child ==
    \/ ChildWrites \/ KernelWritesPage \/ ChildCallsMmap \/ ChildMaps
    \/ ChildMigrates
    \/ ChildTraps \/ ChildEnds \/ ChildSteps \/ ChildCrashesInStep

Main ==
    \/ InitCache \/ BeginStep \/ FindLine \/ DrainPage \/ DrainDone
    \/ ClearDirty \/ StoreStep \/ AwaitReset \/ SingleStep \/ StepDone
    \/ StepFails \/ BpfStart \/ Continue \/ WaitTrap \/ AwaitCallback
    \/ WaitEnd

Resetter == ResetRewind \/ ResetWrite

Poller ==
    \/ \E c \in Cpus :
          \/ OnStopped(c) \/ OnTrap(c) \/ OnPageFault(c) \/ OnMmapEntry(c)
          \/ OnMmapExit(c)
    \/ SetDirty \/ RegionCopied \/ RegionStored

\* The recording loop is over and the other threads have nothing to do.
Over ==
    /\ pc \in {"finish", "failed"}
    /\ UNCHANGED vars

Next == Child \/ Main \/ Resetter \/ Poller \/ Over

Spec == Init /\ [][Next]_vars

(***************************************************************************)
(* Fairness: every thread is scheduled, and the child keeps running: it    *)
(* ends its stretch between two breakpoints, and system calls and single   *)
(* steps end.                                                              *)
(***************************************************************************)
Fairness ==
    /\ WF_vars(Main)
    /\ WF_vars(Resetter)
    /\ WF_vars(Poller)
    /\ WF_vars(ChildTraps \/ ChildEnds)
    /\ WF_vars(ChildMaps)
    /\ WF_vars(ChildSteps \/ ChildCrashesInStep)

FairSpec == Spec /\ Fairness

-----------------------------------------------------------------------------
TypeOK ==
    /\ child \in {"running", "mapping", "trapped", "stepping", "exited",
                  "signalled"}
    /\ flag \in Flags
    /\ cpu \in Cpus
    /\ mem \in [Pages -> Values]
    /\ mapped \in SUBSET Pages
    /\ prot \in SUBSET mapped
    /\ rings \in [Cpus -> Seq(Event)]
    /\ pc \in {"init", "bp", "line", "drain", "clean", "store", "stored",
               "step", "stepwait", "attach", "cont", "wait", "semwait",
               "finish", "failed"}
    /\ step_id \in 0 .. MaxSteps
    /\ mem_dirty \in BOOLEAN
    /\ wait_reset \in BOOLEAN
    /\ depth \in Nat
    /\ attached \in BOOLEAN
    /\ stop \in BOOLEAN
    /\ rpc \in {"wait", "write"}
    /\ start_sem \in Nat
    /\ end_sem \in Nat
    /\ buffered \in BOOLEAN
    /\ bpc \in {"poll", "dirty", "region", "rows"}
    /\ bpage \in Pages \cup {None}
    /\ bstep \in 0 .. MaxSteps
    /\ count \in {0, 1}
    /\ mapped_size \in {0, 1}
    /\ bpf_sem \in Nat
    /\ proc_mem_ch \in Seq(Pages)
    /\ cache \in [Pages -> Values \cup {None}]
    /\ log \in [Pages -> [Steps -> Values \cup {None}]]
    /\ armed \in BOOLEAN
    /\ touched \in SUBSET Pages

\* The contents of page p at step s as Examine finds it: the row of the
\* latest step that is not after s.
Rows(p, s) == {t \in Steps : t <= s /\ log[p][t] # None}
Replay(p, s) ==
    IF Rows(p, s) = {} THEN None
    ELSE log[p][CHOOSE t \in Rows(p, s) : \A u \in Rows(p, s) : u <= t]

\* The step has just been stored and the child has not moved since it stopped.
AtStoredStep == pc \in {"stored", "step"}

(***************************************************************************)
(* The point of the recorder: at every step whose dirty pages were         *)
(* processed (not at the first line of a function) the recorded memory of  *)
(* a page equals the child's memory at that stop, for every page the       *)
(* child's code has written since clear_refs was first written.            *)
(***************************************************************************)
RecordedMemoryExact ==
    AtStoredStep /\ flag # "START" =>
        \A p \in touched : Replay(p, step_id) = mem[p]

(***************************************************************************)
(* run.c:588: before the child is stepped "all references for all pages    *)
(* must be cleared".                                                       *)
(***************************************************************************)
PagesClearedBeforeStep == pc = "step" => mapped \subseteq prot

(* The same from the second step on. *)
PagesClearedAfterFirstStep == pc = "step" /\ step_id > 1 => mapped \subseteq prot

(***************************************************************************)
(* run.c:223: sem_wait() waits "until BPF callback finishes processing":   *)
(* past it, while the child is stopped, no event about its memory is       *)
(* undelivered and the callback is not working on one.                     *)
(***************************************************************************)
InsideBreakpoint == pc \in {"bp", "line", "drain", "clean", "store", "stored", "step"}
CallbackIsQuiet ==
    InsideBreakpoint =>
        /\ bpc = "poll"
        /\ \A c \in Cpus : \A i \in DOMAIN rings[c] : rings[c][i].type = "SIGTRAP"

(***************************************************************************)
(* No mapping is forgotten while the child lives: a page it has mapped is  *)
(* in the region cache, or the event that will put it there is on its way. *)
(* It rests on the assumption of run.c:657, "MMAPENTRY is always followed  *)
(* by MMAPEXIT", which one ring buffer gives: a child that changes its CPU *)
(* inside mmap() has its EXIT delivered before its ENTRY.                  *)
(***************************************************************************)
NoMappingForgotten ==
    pc # "init" /\ ~stop /\ child # "exited" =>
        \A p \in mapped \ Known :
            \/ bpc = "region" /\ bpage = p
            \/ \E c \in Cpus : \E i \in DOMAIN rings[c] : rings[c][i] = MmapExit(p)

(***************************************************************************)
(* A fault address waiting in proc_mem_ch always has mem_dirty set, or     *)
(* about to be set: the next step resets the pages and drains the channel. *)
(***************************************************************************)
NoFaultForgotten ==
    proc_mem_ch # <<>> => mem_dirty \/ bpc = "dirty"

(***************************************************************************)
(* The semaphores are used as gates: never more than one token, and the    *)
(* token of the single step's SIGTRAP never opens bpf_sem.                 *)
(***************************************************************************)
SemaphoresAreGates ==
    /\ bpf_sem + start_sem + end_sem <= 2
    /\ start_sem + end_sem <= 1
    /\ bpf_sem = 1 => pc \in {"wait", "semwait", "finish"} /\ child # "running"

(***************************************************************************)
(* Recorded history is never rewritten: a row that appears or changes      *)
(* belongs to the current step.  The main thread stores with the step it   *)
(* is in, but the callback stores a new region with the step_id it was     *)
(* called with (run.c:701), some time later (memcache.c:269): only the     *)
(* wait for the callback (run.c:224) keeps the main thread in that step,   *)
(* and with a second ring buffer it does not.                              *)
(***************************************************************************)
PastIsFrozen ==
    [][\A p \in Pages, s \in Steps :
          log'[p][s] # log[p][s] => s = IF step_id = 0 THEN 1 ELSE step_id]_vars

(* A child that stops is always served: the recording comes to its end      *)
(* whatever the threads' interleaving.                                      *)
RecordingEnds == <>(pc \in {"finish", "failed"})
=============================================================================
