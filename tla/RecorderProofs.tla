--------------------------- MODULE RecorderProofs ---------------------------
(***************************************************************************)
(* Proofs about the recording loop, for any pages, contents, CPUs and      *)
(* number of steps.                                                        *)
(*                                                                         *)
(* The invariant is layered.  Control, Resets and Signals need nothing but *)
(* the code: they say where the threads are, that one token goes round     *)
(* between the main thread and reset_dirty, and that every stop of the     *)
(* child has two SIGTRAP events of which the callback answers one.  The    *)
(* others need the child to stay on one CPU, because perf_reader_poll()    *)
(* keeps the order of the events of one ring only: Order and Announced are *)
(* about the faults before a breakpoint, Mappings says that the size of an *)
(* mmap() is known when its address comes, InTime that the main thread is  *)
(* still in the step the callback stores a region with, and Stored that    *)
(* the rows of a page replay to its cached copy.  Protected and Recorded   *)
(* also need that only the child's instructions write its memory, because  *)
(* the faults that the kernel takes in a system call are not               *)
(* page_fault_user events.                                                 *)
(***************************************************************************)
EXTENDS Recorder, TLAPS

(***************************************************************************)
(* The invariant, in parts.                                                *)
(***************************************************************************)

\* The main thread is in process_breakpoint() and the child has not moved since
\* its breakpoint: from the first instruction on, and after the step is counted.
InStep == {"line", "drain", "clean", "store", "stored"}
Stopped == {"init", "bp", "step"} \cup InStep

\* The child has hit a breakpoint and the callback may not know yet ...
Hit == pc = "semwait" \/ (pc = "wait" /\ child = "trapped")
\* ... or the main thread does not count it yet.
AtBreak == pc \in {"init", "bp"} \/ Hit
\* The child is about to make its single step, or has made it.
Stepping == pc \in Stopped \/ (pc = "stepwait" /\ child # "trapped")
Stepped ==
    \/ pc = "stepwait" /\ child = "trapped"
    \/ pc \in {"attach", "cont"}
    \/ pc = "wait" /\ child # "trapped"

\* Where the child is for every place of the main thread, and what is decided by
\* how far the recording is.
Control ==
    /\ pc \in Stopped \cup {"attach", "cont", "semwait"} => child = "trapped"
    /\ pc = "stepwait" => child \in {"stepping", "trapped", "signalled"}
    /\ pc = "wait" => child \in {"running", "mapping", "trapped", "exited", "signalled"}
    /\ pc = "finish" => child \in {"exited", "signalled"}
    /\ pc = "failed" => child = "signalled"
    /\ stop => pc = "finish"
    /\ pc = "finish" => stop
    /\ pc \in {"cont", "wait", "semwait", "finish"} => attached
    /\ attached => step_id >= 1
    /\ step_id >= 2 => attached
    /\ pc = "bp" /\ step_id >= 1 => attached
    /\ pc = "init" => step_id = 0
    /\ step_id = 0 => pc \in {"init", "bp"} /\ flag = "START"
    /\ AtBreak => step_id < MaxSteps
    /\ AtBreak \/ pc = "line" => flag = "START" \/ depth > 0
    /\ pc \in {"drain", "clean", "store"} => depth > 0
    /\ pc \in {"drain", "clean"} => step_id >= 2 /\ flag # "START"
    /\ step_id = 1 /\ pc = "line" => flag = "START"
    /\ step_id <= 1 => mem_dirty
    /\ ~attached => bpc = "poll" /\ \A c \in Cpus : rings[c] = <<>>
    /\ bpc \in {"region", "rows"} => bpage \in Pages

\* The token that goes round between the main thread and the reset_dirty thread.
Tokens == start_sem + end_sem + (IF rpc = "write" THEN 1 ELSE 0)
Resets ==
    /\ Tokens = IF pc \in InStep /\ wait_reset THEN 1 ELSE 0
    /\ pc \in InStep /\ step_id = 1 => wait_reset

\* The SIGTRAP events in the rings: none, one, or two of them.
TrapAt(c, i) == i \in DOMAIN rings[c] /\ rings[c][i].type = "SIGTRAP"
NoTrap == \A c \in Cpus : \A i \in Nat : ~TrapAt(c, i)
OneTrap ==
    \E c \in Cpus : \E i \in Nat :
        /\ TrapAt(c, i)
        /\ \A d \in Cpus : \A j \in Nat : TrapAt(d, j) => d = c /\ j = i
TwoTraps ==
    \E c, d \in Cpus : \E i, j \in Nat :
        /\ TrapAt(c, i) /\ TrapAt(d, j) /\ (c # d \/ i # j)
        /\ \A e \in Cpus : \A k \in Nat :
              TrapAt(e, k) => (e = c /\ k = i) \/ (e = d /\ k = j)

\* Every stop of the child has two of them: the breakpoint's and the single step's.
Signals ==
    /\ ~attached => count = 0 /\ bpf_sem = 0
    /\ Stepping => NoTrap /\ bpf_sem = 0 /\ (attached => count = 1)
    /\ Stepped => bpf_sem = 0 /\ ((OneTrap /\ count = 1) \/ (NoTrap /\ count = 0))
    /\ Hit => \/ TwoTraps /\ count = 1 /\ bpf_sem = 0
              \/ OneTrap /\ count = 0 /\ bpf_sem = 0
              \/ NoTrap /\ count = 1 /\ bpf_sem = 1
    /\ pc = "failed" => NoTrap /\ bpf_sem = 0
    /\ pc = "finish" => bpf_sem = 0

\* One CPU: the events come in the order in which they were sent.
OneCpu == \A c, d \in Cpus : c = d
Quiet == bpc = "poll" /\ \A c \in Cpus : rings[c] = <<>>
Order ==
    /\ pc \in Stopped => Quiet
    /\ Hit =>
          \A c \in Cpus : IF rings[c] = <<>> THEN bpc = "poll"
                          ELSE rings[c][Len(rings[c])].type = "SIGTRAP"

\* Faults that are waiting are announced.
Announced ==
    /\ NoFaultForgotten
    /\ pc = "clean" => proc_mem_ch = <<>>
    /\ pc \in {"store", "stored", "step"} /\ flag # "START" => proc_mem_ch = <<>>

\* The event e has been sent and not been delivered.
InRing(e) == \E c \in Cpus : \E i \in DOMAIN rings[c] : rings[c][i] = e

\* Mappings that are on their way: the end of an mmap() follows its beginning,
\* which is sent while the child is inside.
EntryFirst ==
    \A c \in Cpus : \A i \in DOMAIN rings[c] :
        rings[c][i].type = "MMAPEXIT" =>
            \E j \in 1 .. i - 1 : rings[c][j].type = "MMAPENTRY"
Mappings ==
    /\ mapped_size = 0 =>
          /\ bpc # "region"
          /\ stop \/ EntryFirst
          /\ child = "mapping" => InRing(MmapEntry)
    /\ NoMappingForgotten

\* The callback stores a region with the step that the main thread is in.
InTime == bpc \in {"region", "rows"} => bstep = step_id

\* Pages the child can write without a fault.
Waiting(p) == (\E i \in DOMAIN proc_mem_ch : proc_mem_ch[i] = p) \/ InRing(Fault(p))
Protected ==
    /\ armed => step_id >= 2
    /\ ~armed => touched = {}
    /\ touched \subseteq mapped
    /\ armed \/ step_id <= 1 \/ (pc \in InStep /\ start_sem > 0)
    /\ buffered => step_id >= 1 /\ (step_id = 1 => start_sem = 0)
    /\ \/ buffered \/ rpc = "write" \/ step_id = 0
       \/ step_id = 1 /\ pc \in InStep /\ start_sem > 0
    /\ pc \in InStep \cup {"step"} /\ step_id >= 2 => start_sem > 0 \/ mapped \subseteq prot
    /\ armed /\ ~stop /\ pc \notin InStep \cup {"step"} =>
          \A p \in mapped \ prot : Waiting(p)

\* The rows of table mem: the latest of a page is its cached copy, but for the
\* page whose row the callback is about to write.
Now == IF step_id = 0 THEN 1 ELSE step_id
AboutToStore(p) == bpc = "rows" /\ bpage = p
Stored ==
    /\ \A p \in Pages, s \in Steps : s > Now => log[p][s] = None
    /\ \A p \in Known : AboutToStore(p) \/ Replay(p, Now) = cache[p]
    /\ bpc = "rows" => bpage \in Known
Recorded ==
    child # "exited" /\ pc # "finish" =>
        \A p \in touched : Waiting(p) \/ p \notin Known \/ cache[p] = mem[p]

-----------------------------------------------------------------------------
(***************************************************************************)
(* What a step does to the rings.                                          *)
(***************************************************************************)

\* The events the child's actions send are events.
LEMMA EventsSent ==
    /\ <<>> \in Seq(Event)
    /\ <<Trap>> \in Seq(Event)
    /\ <<MmapEntry>> \in Seq(Event)
    /\ \A p \in Pages : /\ <<Fault(p)>> \in Seq(Event)
                        /\ <<MmapExit(p)>> \in Seq(Event)
<1>1. Trap \in Event /\ MmapEntry \in Event
  BY DEF Trap, MmapEntry, Event
<1>2. \A p \in Pages : Fault(p) \in Event /\ MmapExit(p) \in Event
  BY DEF Fault, MmapExit, Event
<1>3. <<>> \in Seq(Event)
  OBVIOUS
<1> QED
  BY <1>1, <1>2, <1>3

\* What UserWrite sends.
LEMMA WriteSends ==
    ASSUME NEW p \in Pages, NEW after \in Seq(Event)
    PROVE  (IF p \in prot THEN <<Fault(p)>> ELSE <<>>) \o after \in Seq(Event)
BY EventsSent

\* Send() appends to the ring of the child's CPU.
LEMMA SendShape ==
    ASSUME TypeOK, NEW es \in Seq(Event), Send(es)
    PROVE  /\ rings' \in [Cpus -> Seq(Event)]
           /\ \A c \in Cpus : attached /\ c = cpu => rings'[c] = rings[c] \o es
           /\ \A c \in Cpus : ~attached \/ c # cpu => rings'[c] = rings[c]
<1>1. rings \in [Cpus -> Seq(Event)] /\ cpu \in Cpus /\ attached \in BOOLEAN
  BY DEF TypeOK
<1>2. rings[cpu] \in Seq(Event)
  BY <1>1
<1>3. rings[cpu] \o es \in Seq(Event)
  BY <1>2
<1>4. CASE attached
  <2>1. rings' = [rings EXCEPT ![cpu] = rings[cpu] \o es]
    BY <1>4 DEF Send
  <2> QED
    BY <2>1, <1>1, <1>3, <1>4
<1>5. CASE ~attached
  <2>1. rings' = rings
    BY <1>5 DEF Send
  <2> QED
    BY <2>1, <1>1, <1>5
<1> QED
  BY <1>1, <1>4, <1>5

\* The events of a ring after Send(), place by place.
LEMMA SendPlaces ==
    ASSUME TypeOK, NEW es \in Seq(Event), Send(es), attached, NEW c \in Cpus
    PROVE  /\ DOMAIN rings[c] = 1 .. Len(rings[c])
           /\ Len(rings[c]) \in Nat
           /\ DOMAIN rings'[c] = 1 .. Len(rings'[c])
           /\ Len(rings'[c]) = IF c = cpu THEN Len(rings[c]) + Len(es) ELSE Len(rings[c])
           /\ \A i \in DOMAIN rings[c] : i \in DOMAIN rings'[c] /\ rings'[c][i] = rings[c][i]
           /\ c = cpu => \A i \in 1 .. Len(es) : rings'[c][Len(rings[c]) + i] = es[i]
<1>1. rings'[c] = IF c = cpu THEN rings[c] \o es ELSE rings[c]
  BY SendShape
<1>2. rings[c] \in Seq(Event)
  BY DEF TypeOK
<1> QED
  BY <1>1, <1>2

\* perf_reader_poll() takes the oldest event of one ring.
LEMMA DeliverShape ==
    ASSUME TypeOK, NEW c \in Cpus, Deliver(c)
    PROVE  /\ rings' \in [Cpus -> Seq(Event)]
           /\ Head(rings[c]) \in Event
           /\ Head(rings[c]) = rings[c][1]
           /\ 1 \in DOMAIN rings[c]
           /\ Len(rings[c]) \in Nat
           /\ DOMAIN rings[c] = 1 .. Len(rings[c])
           /\ DOMAIN rings'[c] = 1 .. Len(rings[c]) - 1
           /\ Len(rings'[c]) = Len(rings[c]) - 1
           /\ \A i \in DOMAIN rings'[c] : rings'[c][i] = rings[c][i + 1]
           /\ \A d \in Cpus : d # c => rings'[d] = rings[d]
<1>1. rings \in [Cpus -> Seq(Event)] /\ rings[c] \in Seq(Event) /\ rings[c] # <<>>
  BY DEF TypeOK, Deliver
<1>2. Tail(rings[c]) \in Seq(Event)
  BY <1>1
<1>3. rings' = [rings EXCEPT ![c] = Tail(rings[c])]
  BY DEF Deliver
<1>4. rings'[c] = Tail(rings[c]) /\ \A d \in Cpus : d # c => rings'[d] = rings[d]
  BY <1>1, <1>3
<1>5. rings' \in [Cpus -> Seq(Event)]
  BY <1>1, <1>2, <1>3
<1>6. /\ Head(rings[c]) \in Event
      /\ Head(rings[c]) = rings[c][1]
      /\ 1 \in DOMAIN rings[c]
      /\ Len(rings[c]) \in Nat
      /\ DOMAIN rings[c] = 1 .. Len(rings[c])
  BY <1>1
<1>7. /\ DOMAIN Tail(rings[c]) = 1 .. Len(rings[c]) - 1
      /\ Len(Tail(rings[c])) = Len(rings[c]) - 1
      /\ \A i \in DOMAIN Tail(rings[c]) : Tail(rings[c])[i] = rings[c][i + 1]
  BY <1>1
<1> QED
  BY <1>4, <1>5, <1>6, <1>7

-----------------------------------------------------------------------------
(***************************************************************************)
(* Types, and where the threads are.                                       *)
(***************************************************************************)

\* init_cache() and process_page(): the pages ps are cached and stored at step s.
Written(ps, s) ==
    /\ cache' = [p \in Pages |-> IF p \in ps THEN mem[p] ELSE cache[p]]
    /\ log' = [p \in Pages |->
                 IF p \in ps THEN [log[p] EXCEPT ![s] = mem[p]] ELSE log[p]]

\* Rows keep their type, whatever the step they are written with.
LEMMA RowTypes ==
    ASSUME TypeOK, NEW ps \in SUBSET Pages, NEW s, Written(ps, s)
    PROVE  /\ cache' \in [Pages -> Values \cup {None}]
           /\ log' \in [Pages -> [Steps -> Values \cup {None}]]
BY DEF TypeOK, Written

\* init_cache() stores the mapped pages with step 1.
LEMMA InitWrites == InitCache => Written(mapped, 1)
BY DEF InitCache, Written

\* The rows of a region, page by page.
LEMMA RegionRow ==
    ASSUME TypeOK, RegionStored, bpage \in Pages
    PROVE  /\ log' = [log EXCEPT ![bpage] = [log[bpage] EXCEPT ![bstep] = cache[bpage]]]
           /\ log' \in [Pages -> [Steps -> Values \cup {None}]]
<1>1. cache[bpage] \in Values \cup {None} /\ log[bpage] \in [Steps -> Values \cup {None}]
  BY DEF TypeOK
<1>2. [log[bpage] EXCEPT ![bstep] = cache[bpage]] \in [Steps -> Values \cup {None}]
  BY <1>1
<1>3. log' = [log EXCEPT ![bpage] = [log[bpage] EXCEPT ![bstep] = cache[bpage]]]
  BY DEF RegionStored
<1> QED
  BY <1>2, <1>3 DEF TypeOK

\* The same for a page that is found changed.
LEMMA PageTypes ==
    ASSUME TypeOK, NEW p \in Pages, ProcessPage(p)
    PROVE  /\ cache' \in [Pages -> Values \cup {None}]
           /\ log' \in [Pages -> [Steps -> Values \cup {None}]]
<1>1. CASE p \in Known /\ mem[p] # cache[p]
  <2>1. mem[p] \in Values /\ log[p] \in [Steps -> Values \cup {None}]
    BY DEF TypeOK
  <2>2. [log[p] EXCEPT ![step_id] = mem[p]] \in [Steps -> Values \cup {None}]
    BY <2>1
  <2>3. log' = [log EXCEPT ![p] = [log[p] EXCEPT ![step_id] = mem[p]]]
    BY <1>1 DEF ProcessPage, TypeOK
  <2>4. cache' = [cache EXCEPT ![p] = mem[p]]
    BY <1>1 DEF ProcessPage
  <2> QED
    BY <2>1, <2>2, <2>3, <2>4 DEF TypeOK
<1>2. CASE ~(p \in Known /\ mem[p] # cache[p])
  BY <1>2 DEF ProcessPage, TypeOK
<1> QED
  BY <1>1, <1>2

\* UserWrite keeps the types of what it changes.
LEMMA WriteTypes ==
    ASSUME TypeOK, NEW p \in Pages, NEW v \in Values, NEW after \in Seq(Event),
           UserWrite(p, v, after)
    PROVE  /\ mem' \in [Pages -> Values]
           /\ prot' \in SUBSET mapped
           /\ touched' \in SUBSET Pages
           /\ rings' \in [Cpus -> Seq(Event)]
<1>1. rings' \in [Cpus -> Seq(Event)]
  BY WriteSends, SendShape DEF UserWrite
<1> QED
  BY <1>1 DEF UserWrite, TypeOK

\* A step keeps the types: the counters stay naturals because of where the main
\* thread is when it decrements them.
LEMMA TypesStep ==
    ASSUME TypeOK, Control, [Next]_vars
    PROVE  TypeOK'
<1> USE RecorderAssumption DEF environment, main, resetter, poller, shared
<1>1. CASE ChildWrites
  <2>1. PICK p \in Pages, v \in Values : UserWrite(p, v, <<>>)
    BY <1>1 DEF ChildWrites
  <2>2. /\ mem' \in [Pages -> Values] /\ prot' \in SUBSET mapped
        /\ touched' \in SUBSET Pages /\ rings' \in [Cpus -> Seq(Event)]
    BY <2>1, WriteTypes, EventsSent
  <2> QED
    BY <1>1, <2>2 DEF ChildWrites, TypeOK
<1>2. CASE ChildSteps
  <2>1. CASE Send(<<Trap>>) /\ UNCHANGED <<mem, prot, touched>>
    <3>1. rings' \in [Cpus -> Seq(Event)]
      BY <2>1, SendShape, EventsSent
    <3> QED
      BY <1>2, <2>1, <3>1 DEF ChildSteps, TypeOK
  <2>2. CASE \E p \in Pages, v \in Values : UserWrite(p, v, <<Trap>>)
    <3>1. /\ mem' \in [Pages -> Values] /\ prot' \in SUBSET mapped
          /\ touched' \in SUBSET Pages /\ rings' \in [Cpus -> Seq(Event)]
      BY <2>2, WriteTypes, EventsSent
    <3> QED
      BY <1>2, <3>1 DEF ChildSteps, TypeOK
  <2> QED
    BY <1>2, <2>1, <2>2 DEF ChildSteps
<1>3. CASE ChildMaps
  <2>1. rings' \in [Cpus -> Seq(Event)]
    BY <1>3, SendShape, EventsSent DEF ChildMaps
  <2> QED
    BY <1>3, <2>1 DEF ChildMaps, TypeOK
<1>4. CASE ChildTraps
  <2>1. rings' \in [Cpus -> Seq(Event)]
    BY <1>4, SendShape, EventsSent DEF ChildTraps
  <2> QED
    BY <1>4, <2>1 DEF ChildTraps, TypeOK
<1>34. CASE ChildCallsMmap
  <2>1. rings' \in [Cpus -> Seq(Event)]
    BY <1>34, SendShape, EventsSent DEF ChildCallsMmap
  <2> QED
    BY <1>34, <2>1 DEF ChildCallsMmap, TypeOK
<1>5. CASE KernelWritesPage
  BY <1>5 DEF KernelWritesPage, TypeOK
<1>6. CASE ChildMigrates
  BY <1>6 DEF ChildMigrates, TypeOK
<1>35. CASE ChildEnds \/ ChildCrashesInStep
  BY <1>35 DEF ChildEnds, ChildCrashesInStep, TypeOK
<1>7. CASE InitCache
  <2>1. mapped \in SUBSET Pages
    BY DEF TypeOK
  <2>2. /\ cache' \in [Pages -> Values \cup {None}]
        /\ log' \in [Pages -> [Steps -> Values \cup {None}]]
    BY <1>7, <2>1, RowTypes, InitWrites
  <2> QED
    BY <1>7, <2>2 DEF InitCache, TypeOK
<1>8. CASE BeginStep
  <2>1. step_id + 1 \in 0 .. MaxSteps
    BY <1>8 DEF BeginStep, TypeOK, Control, AtBreak
  <2> QED
    BY <1>8, <2>1 DEF BeginStep, TypeOK
<1>9. CASE DrainPage
  <2>1. Head(proc_mem_ch) \in Pages /\ Tail(proc_mem_ch) \in Seq(Pages)
    BY <1>9 DEF DrainPage, TypeOK
  <2>2. /\ cache' \in [Pages -> Values \cup {None}]
        /\ log' \in [Pages -> [Steps -> Values \cup {None}]]
    BY <1>9, <2>1, PageTypes DEF DrainPage
  <2> QED
    BY <1>9, <2>1, <2>2 DEF DrainPage, TypeOK
<1>10. CASE FindLine
  <2>1. depth' \in Nat
    BY <1>10 DEF FindLine, TypeOK
  <2> QED
    BY <1>10, <2>1 DEF FindLine, TypeOK
<1>11. CASE DrainDone
  BY <1>11 DEF DrainDone, TypeOK
<1>12. CASE ClearDirty
  <2>1. mem_dirty' \in BOOLEAN
    BY <1>12, Zenon DEF ClearDirty
  <2> QED
    BY <1>12, <2>1 DEF ClearDirty, TypeOK
<1>13. CASE StoreStep
  <2>1. depth - 1 \in Nat
    BY <1>13 DEF StoreStep, TypeOK, Control
  <2> QED
    BY <1>13, <2>1 DEF StoreStep, TypeOK
<1>14. CASE AwaitReset
  <2>1. end_sem' \in Nat
    BY <1>14 DEF AwaitReset, TypeOK
  <2> QED
    BY <1>14, <2>1 DEF AwaitReset, TypeOK
<1>15. CASE SingleStep
  BY <1>15 DEF SingleStep, TypeOK
<1>16. CASE StepDone
  BY <1>16 DEF StepDone, TypeOK
<1>17. CASE StepFails
  BY <1>17 DEF StepFails, TypeOK
<1>18. CASE BpfStart
  BY <1>18 DEF BpfStart, TypeOK
<1>19. CASE Continue
  BY <1>19 DEF Continue, TypeOK
<1>20. CASE WaitTrap
  BY <1>20 DEF WaitTrap, TypeOK
<1>21. CASE AwaitCallback
  BY <1>21 DEF AwaitCallback, TypeOK
<1>22. CASE WaitEnd
  BY <1>22 DEF WaitEnd, TypeOK
<1>23. CASE ResetRewind
  <2>1. start_sem' \in Nat /\ prot' \in SUBSET mapped
    BY <1>23 DEF ResetRewind, TypeOK
  <2>2. armed' \in BOOLEAN /\ buffered' \in BOOLEAN
    BY <1>23, Zenon DEF ResetRewind
  <2> QED
    BY <1>23, <2>1, <2>2 DEF ResetRewind, TypeOK
<1>24. CASE ResetWrite
  BY <1>24 DEF ResetWrite, TypeOK
<1>25. ASSUME NEW c \in Cpus, OnStopped(c)
       PROVE  TypeOK'
  <2>1. rings' \in [Cpus -> Seq(Event)]
    BY <1>25, DeliverShape DEF OnStopped
  <2> QED
    BY <1>25, <2>1 DEF OnStopped, TypeOK
<1>26. ASSUME NEW c \in Cpus, OnTrap(c)
       PROVE  TypeOK'
  <2>1. rings' \in [Cpus -> Seq(Event)]
    BY <1>26, DeliverShape DEF OnTrap
  <2> QED
    BY <1>26, <2>1 DEF OnTrap, TypeOK
<1>27. ASSUME NEW c \in Cpus, OnMmapEntry(c)
       PROVE  TypeOK'
  <2>1. rings' \in [Cpus -> Seq(Event)]
    BY <1>27, DeliverShape DEF OnMmapEntry
  <2> QED
    BY <1>27, <2>1 DEF OnMmapEntry, TypeOK
<1>28. ASSUME NEW c \in Cpus, OnPageFault(c)
       PROVE  TypeOK'
  <2>1. rings' \in [Cpus -> Seq(Event)] /\ Head(rings[c]) \in Event
    BY <1>28, DeliverShape DEF OnPageFault
  <2>2. Head(rings[c]).page \in Pages
    BY <1>28, <2>1 DEF OnPageFault, Event
  <2> QED
    BY <1>28, <2>1, <2>2 DEF OnPageFault, TypeOK
<1>29. ASSUME NEW c \in Cpus, OnMmapExit(c)
       PROVE  TypeOK'
  <2>1. rings' \in [Cpus -> Seq(Event)] /\ Head(rings[c]) \in Event
    BY <1>29, DeliverShape DEF OnMmapExit
  <2>2. Head(rings[c]).page \in Pages
    BY <1>29, <2>1 DEF OnMmapExit, Event
  <2> QED
    BY <1>29, <2>1, <2>2 DEF OnMmapExit, TypeOK
<1>30. CASE SetDirty
  BY <1>30 DEF SetDirty, TypeOK
<1>31. CASE RegionCopied
  <2>1. bpage \in Pages /\ mem[bpage] \in Values
    BY <1>31 DEF RegionCopied, Control, TypeOK
  <2>2. cache' \in [Pages -> Values \cup {None}]
    BY <1>31, <2>1 DEF RegionCopied, TypeOK
  <2> QED
    BY <1>31, <2>2 DEF RegionCopied, TypeOK
<1>33. CASE RegionStored
  <2>1. bpage \in Pages
    BY <1>33 DEF RegionStored, Control
  <2>2. log' \in [Pages -> [Steps -> Values \cup {None}]]
    BY <1>33, <2>1, RegionRow
  <2> QED
    BY <1>33, <2>2 DEF RegionStored, TypeOK
<1>32. CASE Over \/ UNCHANGED vars
  <2>1. UNCHANGED <<environment, main, mem_dirty>>
    BY <1>32 DEF Over, vars
  <2>2. UNCHANGED <<resetter, poller, shared, touched>>
    BY <1>32 DEF Over, vars
  <2> QED
    BY <2>1, <2>2 DEF TypeOK
<1> QED
  BY <1>1, <1>2, <1>3, <1>4, <1>5, <1>6, <1>7, <1>8, <1>9, <1>10, <1>11,
     <1>12, <1>13, <1>14, <1>15, <1>16, <1>17, <1>18, <1>19, <1>20, <1>21,
     <1>22, <1>23, <1>24, <1>25, <1>26, <1>27, <1>28, <1>29, <1>30, <1>31,
     <1>32, <1>33, <1>34, <1>35
     DEF Next, Child, Main, Resetter, Poller

\* A step keeps the main thread, the child and the polling thread together.
LEMMA ControlStep ==
    ASSUME TypeOK, Control, [Next]_vars
    PROVE  Control'
<1> USE RecorderAssumption DEF environment, main, resetter, poller, shared
<1>1. CASE ChildWrites
  BY <1>1 DEF ChildWrites, UserWrite, TypeOK, Control, AtBreak, Hit, Stopped, InStep
<1>2. CASE KernelWritesPage
  BY <1>2 DEF KernelWritesPage, TypeOK, Control, AtBreak, Hit, Stopped, InStep
<1>3. CASE ChildMaps \/ ChildCallsMmap
  BY <1>3 DEF ChildMaps, ChildCallsMmap, TypeOK, Control, AtBreak, Hit, Stopped,
     InStep
<1>4. CASE ChildMigrates
  BY <1>4 DEF ChildMigrates, TypeOK, Control, AtBreak, Hit, Stopped, InStep
<1>5. CASE ChildTraps
  BY <1>5 DEF ChildTraps, Flags, TypeOK, Control, AtBreak, Hit, Stopped, InStep
<1>6. CASE ChildEnds
  BY <1>6 DEF ChildEnds, TypeOK, Control, AtBreak, Hit, Stopped, InStep
<1>7. CASE ChildSteps
  <2>1. ~attached => rings' = rings
    BY <1>7 DEF ChildSteps, UserWrite, Send
  <2> QED
    BY <1>7, <2>1 DEF ChildSteps, TypeOK, Control, AtBreak, Hit, Stopped, InStep
<1>8. CASE ChildCrashesInStep
  BY <1>8 DEF ChildCrashesInStep, TypeOK, Control, AtBreak, Hit, Stopped,
     InStep
<1>9. CASE InitCache
  BY <1>9 DEF InitCache, TypeOK, Control, AtBreak, Hit, Stopped, InStep
<1>10. CASE BeginStep
  BY <1>10 DEF BeginStep, TypeOK, Control, AtBreak, Hit, Stopped, InStep
<1>11. CASE FindLine
  BY <1>11 DEF FindLine, TypeOK, Control, AtBreak, Hit, Stopped, InStep
<1>12. CASE DrainPage
  BY <1>12 DEF DrainPage, TypeOK, Control, AtBreak, Hit, Stopped, InStep
<1>13. CASE DrainDone
  BY <1>13 DEF DrainDone, TypeOK, Control, AtBreak, Hit, Stopped, InStep
<1>14. CASE ClearDirty
  BY <1>14 DEF ClearDirty, TypeOK, Control, AtBreak, Hit, Stopped, InStep
<1>15. CASE StoreStep
  BY <1>15 DEF StoreStep, TypeOK, Control, AtBreak, Hit, Stopped, InStep
<1>16. CASE AwaitReset
  BY <1>16 DEF AwaitReset, TypeOK, Control, AtBreak, Hit, Stopped, InStep
<1>17. CASE SingleStep
  BY <1>17 DEF SingleStep, TypeOK, Control, AtBreak, Hit, Stopped, InStep
<1>18. CASE StepDone
  BY <1>18 DEF StepDone, TypeOK, Control, AtBreak, Hit, Stopped, InStep
<1>19. CASE StepFails
  BY <1>19 DEF StepFails, TypeOK, Control, AtBreak, Hit, Stopped, InStep
<1>20. CASE BpfStart
  BY <1>20 DEF BpfStart, TypeOK, Control, AtBreak, Hit, Stopped, InStep
<1>21. CASE Continue
  BY <1>21 DEF Continue, TypeOK, Control, AtBreak, Hit, Stopped, InStep
<1>22. CASE WaitTrap
  BY <1>22 DEF WaitTrap, TypeOK, Control, AtBreak, Hit, Stopped, InStep
<1>23. CASE AwaitCallback
  BY <1>23 DEF AwaitCallback, TypeOK, Control, AtBreak, Hit, Stopped, InStep
<1>24. CASE WaitEnd
  BY <1>24 DEF WaitEnd, TypeOK, Control, AtBreak, Hit, Stopped, InStep
<1>25. CASE ResetRewind
  BY <1>25 DEF ResetRewind, TypeOK, Control, AtBreak, Hit, Stopped, InStep
<1>26. CASE ResetWrite
  BY <1>26 DEF ResetWrite, TypeOK, Control, AtBreak, Hit, Stopped, InStep
<1>27. CASE SetDirty
  BY <1>27 DEF SetDirty, TypeOK, Control, AtBreak, Hit, Stopped, InStep
<1>28. CASE RegionCopied \/ RegionStored
  BY <1>28 DEF RegionCopied, RegionStored, TypeOK, Control, AtBreak, Hit, Stopped,
     InStep
<1>29. ASSUME NEW c \in Cpus, OnStopped(c)
       PROVE  Control'
  BY <1>29, DeliverShape DEF OnStopped, TypeOK, Control, AtBreak, Hit,
     Stopped, InStep
<1>30. ASSUME NEW c \in Cpus, OnTrap(c)
       PROVE  Control'
  BY <1>30, DeliverShape DEF OnTrap, TypeOK, Control, AtBreak, Hit, Stopped,
     InStep
<1>31. ASSUME NEW c \in Cpus, OnPageFault(c)
       PROVE  Control'
  BY <1>31, DeliverShape DEF OnPageFault, TypeOK, Control, AtBreak, Hit,
     Stopped, InStep
<1>32. ASSUME NEW c \in Cpus, OnMmapEntry(c)
       PROVE  Control'
  BY <1>32, DeliverShape DEF OnMmapEntry, TypeOK, Control, AtBreak, Hit,
     Stopped, InStep
<1>33. ASSUME NEW c \in Cpus, OnMmapExit(c)
       PROVE  Control'
  <2>1. Head(rings[c]).page \in Pages
    BY <1>33, DeliverShape DEF OnMmapExit, Event
  <2> QED
    BY <1>33, <2>1 DEF OnMmapExit, Deliver, TypeOK, Control, AtBreak, Hit, Stopped, InStep
<1>34. CASE Over \/ UNCHANGED vars
  BY <1>34 DEF Over, vars, TypeOK, Control, AtBreak, Hit, Stopped, InStep
<1> QED
  BY <1>1, <1>2, <1>3, <1>4, <1>5, <1>6, <1>7, <1>8, <1>9, <1>10, <1>11,
     <1>12, <1>13, <1>14, <1>15, <1>16, <1>17, <1>18, <1>19, <1>20, <1>21,
     <1>22, <1>23, <1>24, <1>25, <1>26, <1>27, <1>28, <1>29, <1>30, <1>31,
     <1>32, <1>33, <1>34
     DEF Next, Child, Main, Resetter, Poller

-----------------------------------------------------------------------------
(***************************************************************************)
(* The semaphores.                                                         *)
(***************************************************************************)

\* sem_post(start_sem), sem_wait(start_sem), sem_post(end_sem) and
\* sem_wait(end_sem) pass one token on; there is none outside a breakpoint.
LEMMA ResetsStep ==
    ASSUME TypeOK, Control, Resets, [Next]_vars
    PROVE  Resets'
<1> USE DEF environment, main, resetter, poller, shared
<1>1. CASE ChildWrites \/ KernelWritesPage \/ ChildCallsMmap \/ ChildMaps \/
            ChildMigrates \/ ChildTraps \/ ChildEnds \/ ChildSteps \/
            ChildCrashesInStep
  BY <1>1 DEF ChildWrites, KernelWritesPage, ChildCallsMmap, ChildMaps,
     ChildMigrates, ChildTraps, ChildEnds, ChildSteps, ChildCrashesInStep, TypeOK, Control,
     Resets, Tokens, InStep, Stopped
<1>2. CASE InitCache \/ FindLine \/ DrainPage \/ DrainDone \/ ClearDirty \/
            StoreStep
  BY <1>2 DEF InitCache, FindLine, DrainPage, DrainDone, ClearDirty,
     StoreStep, TypeOK, Control, Resets, Tokens, InStep, Stopped
<1>3. CASE SingleStep \/ StepDone \/ StepFails \/ BpfStart \/ Continue \/
            WaitTrap \/ AwaitCallback \/ WaitEnd
  BY <1>3 DEF SingleStep, StepDone, StepFails, BpfStart, Continue, WaitTrap,
     AwaitCallback, WaitEnd, TypeOK, Control, Resets, Tokens, InStep, Stopped
<1>4. CASE SetDirty \/ RegionCopied \/ RegionStored
  <2>1. UNCHANGED <<pc, step_id, wait_reset, rpc, start_sem, end_sem>>
    BY <1>4 DEF SetDirty, RegionCopied, RegionStored
  <2> QED
    BY <2>1 DEF Resets, Tokens
<1>5. CASE \E c \in Cpus : OnStopped(c) \/ OnTrap(c) \/ OnPageFault(c) \/
            OnMmapEntry(c) \/ OnMmapExit(c)
  BY <1>5 DEF OnStopped, OnTrap, OnPageFault, OnMmapEntry, OnMmapExit, TypeOK,
     Control, Resets, Tokens, InStep, Stopped
<1>6. CASE BeginStep
  BY <1>6 DEF BeginStep, TypeOK, Control, Resets, Tokens, InStep, Stopped
<1>7. CASE AwaitReset
  BY <1>7 DEF AwaitReset, TypeOK, Control, Resets, Tokens, InStep, Stopped
<1>8. CASE ResetRewind
  BY <1>8 DEF ResetRewind, TypeOK, Control, Resets, Tokens, InStep, Stopped
<1>9. CASE ResetWrite
  BY <1>9 DEF ResetWrite, TypeOK, Control, Resets, Tokens, InStep, Stopped
<1>10. CASE Over \/ UNCHANGED vars
  <2>1. UNCHANGED <<pc, step_id, wait_reset, rpc, start_sem, end_sem>>
    BY <1>10 DEF Over, vars
  <2> QED
    BY <2>1 DEF Resets, Tokens
<1> QED
  BY <1>1, <1>2, <1>3, <1>4, <1>5, <1>6, <1>7, <1>8, <1>9, <1>10
     DEF Next, Child, Main, Resetter, Poller

\* Delivery moves the SIGTRAP events of its ring one place on.
LEMMA DeliverTraps ==
    ASSUME TypeOK, NEW c \in Cpus, Deliver(c)
    PROVE  /\ Head(rings[c]).type # "SIGTRAP" =>
                 (NoTrap => NoTrap') /\ (OneTrap => OneTrap') /\ (TwoTraps => TwoTraps')
           /\ Head(rings[c]).type = "SIGTRAP" =>
                 ~NoTrap /\ (OneTrap => NoTrap') /\ (TwoTraps => OneTrap')
<1> DEFINE At(d, i) == TrapAt(d, i)
           Next1(d, i) == TrapAt(d, i)'
<1>1. \A d \in Cpus, i \in Nat :
         Next1(d, i) <=> (d = c /\ i >= 1 /\ At(c, i + 1)) \/ (d # c /\ At(d, i))
  <2> SUFFICES ASSUME NEW d \in Cpus, NEW i \in Nat
               PROVE  Next1(d, i) <=> (d = c /\ i >= 1 /\ At(c, i + 1)) \/ (d # c /\ At(d, i))
    OBVIOUS
  <2>1. CASE d # c
    BY <2>1, DeliverShape DEF TrapAt
  <2>2. CASE d = c
    <3>1. Next1(c, i) <=> i \in DOMAIN rings'[c] /\ rings'[c][i].type = "SIGTRAP"
      BY DEF TrapAt
    <3>2. i \in DOMAIN rings'[c] <=> i >= 1 /\ i + 1 \in DOMAIN rings[c]
      BY DeliverShape
    <3>3. i \in DOMAIN rings'[c] => rings'[c][i] = rings[c][i + 1]
      BY DeliverShape
    <3> QED
      BY <2>2, <3>1, <3>2, <3>3 DEF TrapAt
  <2> QED
    BY <2>1, <2>2
<1>2. \A d \in Cpus, i \in Nat : At(d, i) => i >= 1
  <2> SUFFICES ASSUME NEW d \in Cpus, NEW i \in Nat, i \in DOMAIN rings[d] PROVE i >= 1
    BY DEF TrapAt
  <2>1. rings[d] \in Seq(Event)
    BY DEF TypeOK
  <2> QED
    BY <2>1
<1>3. At(c, 1) <=> Head(rings[c]).type = "SIGTRAP"
  BY DeliverShape DEF TrapAt
<1>4. NoTrap <=> \A d \in Cpus : \A i \in Nat : ~At(d, i)
  BY DEF NoTrap
<1>5. NoTrap' <=> \A d \in Cpus : \A i \in Nat : ~Next1(d, i)
  BY DEF NoTrap
<1>6. OneTrap' <=> \E d \in Cpus : \E i \in Nat :
                     /\ Next1(d, i)
                     /\ \A e \in Cpus : \A j \in Nat : Next1(e, j) => e = d /\ j = i
  BY DEF OneTrap
<1>7. TwoTraps' <=> \E d, e \in Cpus : \E i, j \in Nat :
                     /\ Next1(d, i) /\ Next1(e, j) /\ (d # e \/ i # j)
                     /\ \A x \in Cpus : \A k \in Nat :
                           Next1(x, k) => (x = d /\ k = i) \/ (x = e /\ k = j)
  BY DEF TwoTraps
<1>8. ASSUME OneTrap
      PROVE  IF At(c, 1) THEN NoTrap' ELSE OneTrap'
  <2>1. PICK d \in Cpus, i \in Nat :
            At(d, i) /\ \A e \in Cpus : \A j \in Nat : At(e, j) => e = d /\ j = i
    BY <1>8 DEF OneTrap
  <2> HIDE DEF At, Next1
  <2>2. CASE At(c, 1)
    BY <1>1, <1>2, <1>5, <2>1, <2>2
  <2>3. CASE ~At(c, 1) /\ d = c
    <3>1. i # 1 /\ i - 1 \in Nat /\ i - 1 >= 1 /\ (i - 1) + 1 = i
      BY <2>1, <2>3, <1>2
    <3>2. Next1(c, i - 1)
      BY <1>1, <2>1, <2>3, <3>1
    <3>3. \A e \in Cpus : \A j \in Nat : Next1(e, j) => e = c /\ j = i - 1
      BY <1>1, <2>1, <2>3, <3>1
    <3> QED
      BY <1>6, <2>3, <3>1, <3>2, <3>3
  <2>4. CASE ~At(c, 1) /\ d # c
    <3>1. Next1(d, i)
      BY <1>1, <2>1, <2>4
    <3>2. \A e \in Cpus : \A j \in Nat : Next1(e, j) => e = d /\ j = i
      BY <1>1, <2>1, <2>4
    <3> QED
      BY <1>6, <2>4, <3>1, <3>2
  <2> QED
    BY <2>2, <2>3, <2>4
<1>9. ASSUME TwoTraps
      PROVE  IF At(c, 1) THEN OneTrap' ELSE TwoTraps'
  <2>1. PICK d, e \in Cpus, i, j \in Nat :
            /\ At(d, i) /\ At(e, j) /\ (d # e \/ i # j)
            /\ \A x \in Cpus : \A k \in Nat :
                  At(x, k) => (x = d /\ k = i) \/ (x = e /\ k = j)
    BY <1>9 DEF TwoTraps
  <2> DEFINE m(x, k) == IF x = c THEN k - 1 ELSE k
  <2> HIDE DEF At, Next1
  <2>2. \A x \in Cpus : \A k \in Nat : At(x, k) /\ ~(x = c /\ k = 1) =>
           m(x, k) \in Nat /\ Next1(x, m(x, k))
    BY <1>1, <1>2
  <2>3. \A x \in Cpus : \A k \in Nat : Next1(x, k) =>
           \E l \in Nat : At(x, l) /\ ~(x = c /\ l = 1) /\ k = m(x, l)
    BY <1>1, <1>2
  <2>4. CASE At(c, 1)
    <3>1. PICK f \in Cpus, l \in Nat :
             /\ At(f, l) /\ ~(f = c /\ l = 1)
             /\ \A x \in Cpus : \A k \in Nat :
                   At(x, k) => (x = f /\ k = l) \/ (x = c /\ k = 1)
      BY <2>1, <2>4
    <3>2. m(f, l) \in Nat /\ Next1(f, m(f, l))
      BY <2>2, <3>1
    <3>3. \A x \in Cpus : \A k \in Nat : Next1(x, k) => x = f /\ k = m(f, l)
      BY <2>3, <3>1
    <3> HIDE DEF m
    <3> QED
      BY <1>6, <2>4, <3>2, <3>3
  <2>5. CASE ~At(c, 1)
    <3>1. m(d, i) \in Nat /\ Next1(d, m(d, i)) /\ m(e, j) \in Nat /\ Next1(e, m(e, j))
      BY <2>1, <2>2, <2>5
    <3>2. \A x \in Cpus : \A k \in Nat :
             Next1(x, k) => (x = d /\ k = m(d, i)) \/ (x = e /\ k = m(e, j))
      BY <2>1, <2>3, <2>5
    <3>3. d # e \/ m(d, i) # m(e, j)
      BY <2>1
    <3> HIDE DEF m
    <3> QED
      BY <1>7, <2>5, <3>1, <3>2, <3>3
  <2> QED
    BY <2>4, <2>5
<1>10. NoTrap => ~At(c, 1) /\ NoTrap'
  <2> HIDE DEF At, Next1
  <2> QED
    BY <1>1, <1>4, <1>5
<1> QED
  BY <1>3, <1>8, <1>9, <1>10

\* What the child sends without a SIGTRAP leaves them alone.
LEMMA SendNoTrap ==
    ASSUME TypeOK, NEW es \in Seq(Event), Send(es),
           \A i \in 1 .. Len(es) : es[i].type # "SIGTRAP"
    PROVE  (NoTrap => NoTrap') /\ (OneTrap => OneTrap') /\ (TwoTraps => TwoTraps')
<1>1. \A c \in Cpus, i \in Nat : TrapAt(c, i)' <=> TrapAt(c, i)
  <2> SUFFICES ASSUME NEW c \in Cpus, NEW i \in Nat
               PROVE  TrapAt(c, i)' <=> TrapAt(c, i)
    OBVIOUS
  <2>1. CASE attached
    <3>1. /\ DOMAIN rings[c] = 1 .. Len(rings[c])
          /\ Len(rings[c]) \in Nat
          /\ DOMAIN rings'[c] = 1 .. Len(rings'[c])
          /\ Len(rings'[c]) = IF c = cpu THEN Len(rings[c]) + Len(es) ELSE Len(rings[c])
          /\ \A j \in DOMAIN rings[c] : j \in DOMAIN rings'[c] /\ rings'[c][j] = rings[c][j]
          /\ c = cpu => \A j \in 1 .. Len(es) : rings'[c][Len(rings[c]) + j] = es[j]
      BY <2>1, SendPlaces
    <3>2. CASE i \in DOMAIN rings[c]
      BY <3>1, <3>2 DEF TrapAt
    <3>3. CASE i \notin DOMAIN rings[c] /\ i \in DOMAIN rings'[c]
      <4>1. c = cpu /\ i - Len(rings[c]) \in 1 .. Len(es)
        BY <3>1, <3>3
      <4>2. rings'[c][Len(rings[c]) + (i - Len(rings[c]))] = es[i - Len(rings[c])]
        BY <3>1, <4>1
      <4>3. Len(rings[c]) + (i - Len(rings[c])) = i
        BY <3>1
      <4> QED
        BY <4>1, <4>2, <4>3, <3>3 DEF TrapAt
    <3> QED
      BY <3>2, <3>3 DEF TrapAt
  <2>2. CASE ~attached
    BY <2>2, SendShape DEF TrapAt
  <2> QED
    BY <2>1, <2>2 DEF TypeOK
<1> DEFINE At(d, i) == TrapAt(d, i)
           Next1(d, i) == TrapAt(d, i)'
<1>2. \A c \in Cpus, i \in Nat : Next1(c, i) <=> At(c, i)
  BY <1>1
<1>3. NoTrap => NoTrap'
  BY <1>1 DEF NoTrap
<1>4. ASSUME OneTrap PROVE OneTrap'
  <2>1. PICK d \in Cpus, i \in Nat :
            At(d, i) /\ \A e \in Cpus : \A j \in Nat : At(e, j) => e = d /\ j = i
    BY <1>4 DEF OneTrap
  <2>2. Next1(d, i) /\ \A e \in Cpus : \A j \in Nat : Next1(e, j) => e = d /\ j = i
    BY <1>2, <2>1
  <2> QED
    BY <2>2 DEF OneTrap
<1>5. ASSUME TwoTraps PROVE TwoTraps'
  <2>1. PICK d, e \in Cpus, i, j \in Nat :
            /\ At(d, i) /\ At(e, j) /\ (d # e \/ i # j)
            /\ \A x \in Cpus : \A k \in Nat :
                  At(x, k) => (x = d /\ k = i) \/ (x = e /\ k = j)
    BY <1>5 DEF TwoTraps
  <2>2. /\ Next1(d, i) /\ Next1(e, j)
        /\ \A x \in Cpus : \A k \in Nat :
              Next1(x, k) => (x = d /\ k = i) \/ (x = e /\ k = j)
    BY <1>2, <2>1
  <2> QED
    BY <2>1, <2>2 DEF TwoTraps
<1> QED
  BY <1>3, <1>4, <1>5

\* A SIGTRAP sent last is one more, if the BPF programs are attached.
LEMMA SendTrap ==
    ASSUME TypeOK, attached, NEW es \in Seq(Event), es # <<>>, Send(es),
           \A i \in 1 .. Len(es) : es[i].type = "SIGTRAP" <=> i = Len(es)
    PROVE  (NoTrap => OneTrap') /\ (OneTrap => TwoTraps')
<1> DEFINE At(d, i) == TrapAt(d, i)
           Next1(d, i) == TrapAt(d, i)'
<1>0. PICK k \in Cpus, last \in Nat : k = cpu /\ last = Len(rings[k]) + Len(es)
  BY SendPlaces DEF TypeOK
<1>1. Len(es) \in 1 .. Len(es)
  OBVIOUS
<1>2. \A c \in Cpus, i \in Nat : At(c, i) => i \in 1 .. Len(rings[c])
  BY SendPlaces DEF TrapAt
<1>3. \A c \in Cpus, i \in Nat :
         Next1(c, i) <=> At(c, i) \/ (c = k /\ i = last)
  <2> SUFFICES ASSUME NEW c \in Cpus, NEW i \in Nat
               PROVE  Next1(c, i) <=> At(c, i) \/ (c = k /\ i = last)
    OBVIOUS
  <2>1. /\ DOMAIN rings[c] = 1 .. Len(rings[c])
        /\ Len(rings[c]) \in Nat
        /\ DOMAIN rings'[c] = 1 .. Len(rings'[c])
        /\ Len(rings'[c]) = IF c = cpu THEN Len(rings[c]) + Len(es) ELSE Len(rings[c])
        /\ \A j \in DOMAIN rings[c] : j \in DOMAIN rings'[c] /\ rings'[c][j] = rings[c][j]
        /\ c = cpu => \A j \in 1 .. Len(es) : rings'[c][Len(rings[c]) + j] = es[j]
    BY SendPlaces
  <2>2. CASE i \in DOMAIN rings[c]
    BY <1>1, <1>0, <2>1, <2>2 DEF TrapAt
  <2>3. CASE i \notin DOMAIN rings[c] /\ i \in DOMAIN rings'[c]
    <3>1. c = cpu /\ i - Len(rings[c]) \in 1 .. Len(es)
      BY <2>1, <2>3
    <3>2. rings'[c][Len(rings[c]) + (i - Len(rings[c]))] = es[i - Len(rings[c])]
      BY <2>1, <3>1
    <3>3. Len(rings[c]) + (i - Len(rings[c])) = i
      BY <2>1
    <3>4. TrapAt(c, i)' <=> i - Len(rings[c]) = Len(es)
      BY <3>1, <3>2, <3>3, <2>3 DEF TrapAt
    <3> QED
      BY <1>0, <3>1, <3>4, <2>1, <2>3 DEF TrapAt
  <2>4. CASE i \notin DOMAIN rings[c] /\ i \notin DOMAIN rings'[c]
    BY <1>1, <1>0, <2>1, <2>4 DEF TrapAt
  <2> QED
    BY <2>2, <2>3, <2>4
<1>4. ~At(k, last)
  BY <1>1, <1>0, <1>2, SendPlaces
<1>5. ASSUME NoTrap PROVE OneTrap'
  <2>1. \A c \in Cpus, i \in Nat : ~At(c, i)
    BY <1>5 DEF NoTrap
  <2>2. Next1(k, last) /\ \A e \in Cpus : \A j \in Nat : Next1(e, j) => e = k /\ j = last
    BY <1>1, <1>0, <1>3, <2>1
  <2> QED
    BY <1>1, <1>0, <2>2 DEF OneTrap
<1>6. ASSUME OneTrap PROVE TwoTraps'
  <2>1. PICK d \in Cpus, i \in Nat :
            At(d, i) /\ \A e \in Cpus : \A j \in Nat : At(e, j) => e = d /\ j = i
    BY <1>6 DEF OneTrap
  <2>2. d # k \/ i # last
    BY <1>4, <2>1
  <2>3. /\ Next1(d, i) /\ Next1(k, last)
        /\ \A x \in Cpus : \A y \in Nat :
              Next1(x, y) => (x = d /\ y = i) \/ (x = k /\ y = last)
    BY <1>1, <1>0, <1>3, <2>1
  <2> QED
    <3>1. TwoTraps' <=> \E c, e \in Cpus : \E m, j \in Nat :
                     /\ Next1(c, m) /\ Next1(e, j) /\ (c # e \/ m # j)
                     /\ \A x \in Cpus : \A y \in Nat :
                           Next1(x, y) => (x = c /\ y = m) \/ (x = e /\ y = j)
      BY DEF TwoTraps
    <3> HIDE DEF Next1
    <3> QED
      BY <2>2, <2>3, <3>1
<1> QED
  BY <1>5, <1>6

\* Steps that leave the rings alone.
LEMMA SameTraps ==
    ASSUME rings' = rings
    PROVE  (NoTrap' <=> NoTrap) /\ (OneTrap' <=> OneTrap) /\ (TwoTraps' <=> TwoTraps)
BY DEF NoTrap, OneTrap, TwoTraps, TrapAt

\* A write of the child sends no SIGTRAP; the single step sends one, last.
LEMMA WriteTraps ==
    ASSUME TypeOK, NEW p \in Pages, NEW v \in Values
    PROVE  /\ UserWrite(p, v, <<>>) =>
                 (NoTrap => NoTrap') /\ (OneTrap => OneTrap') /\ (TwoTraps => TwoTraps')
           /\ UserWrite(p, v, <<Trap>>) /\ attached =>
                 (NoTrap => OneTrap') /\ (OneTrap => TwoTraps')
<1> DEFINE first == IF p \in prot THEN <<Fault(p)>> ELSE <<>>
<1>1. /\ first \in Seq(Event)
      /\ \A i \in 1 .. Len(first) : first[i].type # "SIGTRAP"
  <2>1. Fault(p).type # "SIGTRAP"
    BY DEF Fault
  <2> QED
    BY <2>1, EventsSent
<1> HIDE DEF first
<1>2. ASSUME UserWrite(p, v, <<>>)
      PROVE  (NoTrap => NoTrap') /\ (OneTrap => OneTrap') /\ (TwoTraps => TwoTraps')
  <2>1. first \o <<>> = first
    BY <1>1
  <2>2. Send(first)
    BY <1>2, <2>1 DEF UserWrite, first
  <2> QED
    BY <1>1, <2>2, SendNoTrap
<1>3. ASSUME UserWrite(p, v, <<Trap>>), attached
      PROVE  (NoTrap => OneTrap') /\ (OneTrap => TwoTraps')
  <2> DEFINE es == first \o <<Trap>>
  <2>1. Trap.type = "SIGTRAP"
    BY DEF Trap
  <2>2. es \in Seq(Event) /\ es # <<>>
    BY <1>1, EventsSent
  <2>3. \A i \in 1 .. Len(es) : es[i].type = "SIGTRAP" <=> i = Len(es)
    BY <1>1, <2>1, EventsSent
  <2>4. Send(es)
    BY <1>3 DEF UserWrite, first
  <2> HIDE DEF es
  <2> QED
    BY <1>3, <2>2, <2>3, <2>4, SendTrap
<1> QED
  BY <1>2, <1>3

\* The SIGTRAP of a breakpoint or of a plain single step.
LEMMA PlainTrap ==
    ASSUME TypeOK, Send(<<Trap>>), attached
    PROVE  (NoTrap => OneTrap') /\ (OneTrap => TwoTraps')
<1>1. \A i \in 1 .. Len(<<Trap>>) : <<Trap>>[i].type = "SIGTRAP" <=> i = Len(<<Trap>>)
  BY DEF Trap
<1> QED
  BY <1>1, SendTrap, EventsSent

\* mmap() sends none.
LEMMA MapTraps ==
    ASSUME TypeOK, Send(<<MmapEntry>>) \/ \E p \in Pages : Send(<<MmapExit(p)>>)
    PROVE  (NoTrap => NoTrap') /\ (OneTrap => OneTrap') /\ (TwoTraps => TwoTraps')
<1>1. \A i \in 1 .. Len(<<MmapEntry>>) : <<MmapEntry>>[i].type # "SIGTRAP"
  BY DEF MmapEntry
<1>2. \A p \in Pages : \A i \in 1 .. Len(<<MmapExit(p)>>) :
         <<MmapExit(p)>>[i].type # "SIGTRAP"
  BY DEF MmapExit
<1> QED
  BY <1>1, <1>2, SendNoTrap, EventsSent

\* bpf_callback() answers the first of the two SIGTRAP events of a stop and
\* swallows the second, whatever the CPUs they come from.
LEMMA SignalsStep ==
    ASSUME TypeOK, Control, Signals, [Next]_vars
    PROVE  Signals'
<1> USE DEF environment, main, resetter, poller, shared
<1>1. CASE FindLine \/ DrainPage \/ DrainDone \/ ClearDirty \/ StoreStep
  BY <1>1, SameTraps DEF FindLine, DrainPage, DrainDone, ClearDirty,
     StoreStep, TypeOK, Control, Signals, Stepping, Stepped, Hit, Stopped,
     InStep
<1>2. CASE ChildWrites
  <2>1. (NoTrap => NoTrap') /\ (OneTrap => OneTrap') /\ (TwoTraps => TwoTraps')
    BY <1>2, WriteTraps DEF ChildWrites
  <2> QED
    BY <1>2, <2>1 DEF ChildWrites, TypeOK, Control, Signals, Stepping, Stepped, Hit,
       Stopped, InStep
<1>3. CASE KernelWritesPage
  BY <1>3, SameTraps DEF KernelWritesPage, TypeOK, Control, Signals, Stepping,
     Stepped, Hit, Stopped, InStep
<1>4. CASE ChildMaps \/ ChildCallsMmap
  <2>1. (NoTrap => NoTrap') /\ (OneTrap => OneTrap') /\ (TwoTraps => TwoTraps')
    BY <1>4, MapTraps DEF ChildMaps, ChildCallsMmap
  <2> QED
    BY <1>4, <2>1 DEF ChildMaps, ChildCallsMmap, TypeOK, Control, Signals, Stepping, Stepped, Hit,
       Stopped, InStep
<1>5. CASE ChildMigrates
  BY <1>5, SameTraps DEF ChildMigrates, TypeOK, Control, Signals, Stepping,
     Stepped, Hit, Stopped, InStep
<1>6. CASE ChildTraps
  <2>1. attached
    BY <1>6 DEF ChildTraps, TypeOK, Control, Stopped, InStep
  <2>2. (NoTrap => OneTrap') /\ (OneTrap => TwoTraps')
    BY <1>6, <2>1, PlainTrap DEF ChildTraps
  <2> QED
    BY <1>6, <2>1, <2>2 DEF ChildTraps, TypeOK, Control, Signals, Stepping, Stepped, Hit,
       Stopped, InStep
<1>7. CASE ChildEnds
  BY <1>7, SameTraps DEF ChildEnds, TypeOK, Control, Signals, Stepping,
     Stepped, Hit, Stopped, InStep
<1>8. CASE ChildSteps
  <2>1. CASE attached
    <3>1. NoTrap => OneTrap'
      BY <1>8, <2>1, PlainTrap, WriteTraps DEF ChildSteps
    <3> QED
      BY <1>8, <2>1, <3>1 DEF ChildSteps, TypeOK, Control, Signals, Stepping, Stepped,
         Hit, Stopped, InStep
  <2>2. CASE ~attached
    <3>1. rings' = rings
      BY <1>8, <2>2 DEF ChildSteps, UserWrite, Send
    <3> QED
      BY <1>8, <2>2, <3>1, SameTraps DEF ChildSteps, TypeOK, Control, Signals, Stepping,
         Stepped, Hit, Stopped, InStep
  <2> QED
    BY <2>1, <2>2 DEF TypeOK
<1>9. CASE ChildCrashesInStep
  BY <1>9, SameTraps DEF ChildCrashesInStep, TypeOK, Control, Signals,
     Stepping, Stepped, Hit, Stopped, InStep
<1>10. CASE InitCache
  BY <1>10, SameTraps DEF InitCache, TypeOK, Control, Signals, Stepping,
     Stepped, Hit, Stopped, InStep
<1>11. CASE BeginStep
  BY <1>11, SameTraps DEF BeginStep, TypeOK, Control, Signals, Stepping,
     Stepped, Hit, Stopped, InStep
<1>12. CASE AwaitReset
  BY <1>12, SameTraps DEF AwaitReset, TypeOK, Control, Signals, Stepping,
     Stepped, Hit, Stopped, InStep
<1>13. CASE SingleStep
  BY <1>13, SameTraps DEF SingleStep, TypeOK, Control, Signals, Stepping,
     Stepped, Hit, Stopped, InStep
<1>14. CASE StepDone
  BY <1>14, SameTraps DEF StepDone, TypeOK, Control, Signals, Stepping,
     Stepped, Hit, Stopped, InStep
<1>15. CASE StepFails
  BY <1>15, SameTraps DEF StepFails, TypeOK, Control, Signals, Stepping,
     Stepped, Hit, Stopped, InStep
<1>16. CASE BpfStart
  BY <1>16, SameTraps DEF BpfStart, TypeOK, Control, Signals, Stepping,
     Stepped, Hit, Stopped, InStep
<1>17. CASE Continue
  BY <1>17, SameTraps DEF Continue, TypeOK, Control, Signals, Stepping,
     Stepped, Hit, Stopped, InStep
<1>18. CASE WaitTrap
  BY <1>18, SameTraps DEF WaitTrap, TypeOK, Control, Signals, Stepping,
     Stepped, Hit, Stopped, InStep
<1>19. CASE AwaitCallback
  BY <1>19, SameTraps DEF AwaitCallback, TypeOK, Control, Signals, Stepping,
     Stepped, Hit, Stopped, InStep
<1>20. CASE WaitEnd
  BY <1>20, SameTraps DEF WaitEnd, TypeOK, Control, Signals, Stepping,
     Stepped, Hit, Stopped, InStep
<1>21. CASE ResetRewind
  BY <1>21, SameTraps DEF ResetRewind, TypeOK, Control, Signals, Stepping,
     Stepped, Hit, Stopped, InStep
<1>22. CASE ResetWrite
  BY <1>22, SameTraps DEF ResetWrite, TypeOK, Control, Signals, Stepping,
     Stepped, Hit, Stopped, InStep
<1>23. CASE SetDirty
  BY <1>23, SameTraps DEF SetDirty, TypeOK, Control, Signals, Stepping,
     Stepped, Hit, Stopped, InStep
<1>24. CASE RegionCopied \/ RegionStored
  BY <1>24, SameTraps DEF RegionCopied, RegionStored, TypeOK, Control, Signals, Stepping,
     Stepped, Hit, Stopped, InStep
<1>25. ASSUME NEW c \in Cpus, OnStopped(c)
       PROVE  Signals'
  BY <1>25 DEF OnStopped, TypeOK, Control, Signals, Stepping, Stepped, Hit,
     Stopped, InStep
<1>26. ASSUME NEW c \in Cpus, OnTrap(c)
       PROVE  Signals'
  <2>1. ~NoTrap /\ (OneTrap => NoTrap') /\ (TwoTraps => OneTrap')
    BY <1>26, DeliverTraps DEF OnTrap
  <2> QED
    BY <1>26, <2>1 DEF OnTrap, TypeOK, Control, Signals, Stepping, Stepped, Hit,
       Stopped, InStep
<1>27. ASSUME NEW c \in Cpus, OnPageFault(c)
       PROVE  Signals'
  <2>1. (NoTrap => NoTrap') /\ (OneTrap => OneTrap') /\ (TwoTraps => TwoTraps')
    BY <1>27, DeliverTraps DEF OnPageFault
  <2> QED
    BY <1>27, <2>1 DEF OnPageFault, TypeOK, Control, Signals, Stepping, Stepped, Hit,
       Stopped, InStep
<1>28. ASSUME NEW c \in Cpus, OnMmapEntry(c)
       PROVE  Signals'
  <2>1. (NoTrap => NoTrap') /\ (OneTrap => OneTrap') /\ (TwoTraps => TwoTraps')
    BY <1>28, DeliverTraps DEF OnMmapEntry
  <2> QED
    BY <1>28, <2>1 DEF OnMmapEntry, TypeOK, Control, Signals, Stepping, Stepped, Hit,
       Stopped, InStep
<1>29. ASSUME NEW c \in Cpus, OnMmapExit(c)
       PROVE  Signals'
  <2>1. (NoTrap => NoTrap') /\ (OneTrap => OneTrap') /\ (TwoTraps => TwoTraps')
    BY <1>29, DeliverTraps DEF OnMmapExit
  <2> QED
    BY <1>29, <2>1 DEF OnMmapExit, TypeOK, Control, Signals, Stepping, Stepped, Hit,
       Stopped, InStep
<1>30. CASE Over \/ UNCHANGED vars
  BY <1>30, SameTraps DEF Over, vars, TypeOK, Control, Signals, Stepping, Stepped, Hit,
     Stopped, InStep
<1> QED
  BY <1>1, <1>2, <1>3, <1>4, <1>5, <1>6, <1>7, <1>8, <1>9, <1>10, <1>11,
     <1>12, <1>13, <1>14, <1>15, <1>16, <1>17, <1>18, <1>19, <1>20, <1>21,
     <1>22, <1>23, <1>24, <1>25, <1>26, <1>27, <1>28, <1>29, <1>30
     DEF Next, Child, Main, Resetter, Poller

-----------------------------------------------------------------------------
(***************************************************************************)
(* Events on their way, and the mappings.                                  *)
(***************************************************************************)

\* A sent event stays until it is delivered.
LEMMA SentStays ==
    ASSUME TypeOK, NEW es \in Seq(Event), Send(es), NEW e, InRing(e)
    PROVE  InRing(e)'
<1>0. PICK c \in Cpus : \E i \in DOMAIN rings[c] : rings[c][i] = e
  BY DEF InRing
<1>1. PICK i \in DOMAIN rings[c] : rings[c][i] = e
  BY <1>0
<1>2. CASE attached
  <2>1. i \in DOMAIN rings'[c] /\ rings'[c][i] = e
    BY <1>1, <1>2, SendPlaces
  <2> QED
    BY <2>1 DEF InRing
<1>3. CASE ~attached
  <2>1. rings'[c] = rings[c]
    BY <1>3, SendShape
  <2> QED
    BY <1>1, <2>1 DEF InRing
<1> QED
  BY <1>2, <1>3 DEF TypeOK

\* What is sent is in the ring.
LEMMA SentIsThere ==
    ASSUME TypeOK, attached, NEW es \in Seq(Event), Send(es), NEW i \in 1 .. Len(es),
           NEW e, e = es[i]
    PROVE  InRing(e)'
<1>1. PICK c \in Cpus : c = cpu
  BY DEF TypeOK
<1>2. /\ Len(rings[c]) \in Nat
      /\ DOMAIN rings'[c] = 1 .. Len(rings'[c])
      /\ Len(rings'[c]) = Len(rings[c]) + Len(es)
      /\ rings'[c][Len(rings[c]) + i] = e
  BY <1>1, SendPlaces
<1>3. PICK j \in Nat : j = Len(rings[c]) + i
  BY <1>2
<1>4. j \in DOMAIN rings'[c] /\ rings'[c][j] = e
  BY <1>2, <1>3
<1> QED
  BY <1>4 DEF InRing

\* Only the oldest event of a ring leaves it.
LEMMA DeliveredLeaves ==
    ASSUME TypeOK, NEW c \in Cpus, Deliver(c), NEW e, InRing(e), e # Head(rings[c])
    PROVE  InRing(e)'
<1>0. PICK d \in Cpus : \E i \in DOMAIN rings[d] : rings[d][i] = e
  BY DEF InRing
<1>1. PICK i \in DOMAIN rings[d] : rings[d][i] = e
  BY <1>0
<1>2. CASE d # c
  BY <1>1, <1>2, DeliverShape DEF InRing
<1>3. CASE d = c
  <2>1. i # 1 /\ i \in 1 .. Len(rings[c]) /\ Len(rings[c]) \in Nat
    BY <1>1, <1>3, DeliverShape
  <2>2. PICK j \in Nat : j = i - 1
    BY <2>1
  <2>3. j \in DOMAIN rings'[c] /\ j + 1 = i
    BY <2>1, <2>2, DeliverShape
  <2>4. rings'[c][j] = e
    BY <1>1, <1>3, <2>3, DeliverShape
  <2> QED
    BY <2>3, <2>4 DEF InRing
<1> QED
  BY <1>2, <1>3

\* Steps that leave the rings alone.
LEMMA SameRings ==
    ASSUME rings' = rings
    PROVE  (\A e : InRing(e)' <=> InRing(e)) /\ (EntryFirst' <=> EntryFirst)
BY DEF InRing, EntryFirst

\* What is delivered but is not the beginning of an mmap() keeps the order.
LEMMA DeliverOrder ==
    ASSUME TypeOK, NEW c \in Cpus, Deliver(c), EntryFirst,
           Head(rings[c]).type # "MMAPENTRY"
    PROVE  EntryFirst'
<1> SUFFICES ASSUME NEW d \in Cpus, NEW i \in DOMAIN rings'[d],
                    rings'[d][i].type = "MMAPEXIT"
             PROVE  \E j \in 1 .. i - 1 : rings'[d][j].type = "MMAPENTRY"
  BY DEF EntryFirst
<1>1. CASE d # c
  <2>1. rings'[d] = rings[d]
    BY <1>1, DeliverShape
  <2> QED
    BY <2>1 DEF EntryFirst
<1>2. CASE d = c
  <2>1. /\ i \in 1 .. Len(rings[c]) - 1 /\ Len(rings[c]) \in Nat
        /\ i + 1 \in DOMAIN rings[c] /\ rings[c][i + 1].type = "MMAPEXIT"
    BY <1>2, DeliverShape
  <2>2. PICK j \in 1 .. (i + 1) - 1 : rings[c][j].type = "MMAPENTRY"
    BY <2>1 DEF EntryFirst
  <2>3. j # 1
    BY <2>2, DeliverShape
  <2>4. PICK k \in Nat : k = j - 1
    BY <2>1, <2>2
  <2>5. k \in 1 .. i - 1 /\ k \in DOMAIN rings'[c] /\ k + 1 = j
    BY <2>1, <2>2, <2>3, <2>4, DeliverShape
  <2>6. rings'[c][k] = rings[c][j]
    BY <2>5, DeliverShape
  <2> QED
    BY <1>2, <2>2, <2>5, <2>6
<1> QED
  BY <1>1, <1>2

\* What is sent keeps it, if it is no end or, on one CPU, the beginning was sent.
LEMMA SendOrder ==
    ASSUME TypeOK, NEW es \in Seq(Event), Send(es), EntryFirst,
           \/ \A i \in 1 .. Len(es) : es[i].type # "MMAPEXIT"
           \/ OneCpu /\ InRing(MmapEntry)
    PROVE  EntryFirst'
<1> SUFFICES ASSUME NEW d \in Cpus, NEW i \in DOMAIN rings'[d],
                    rings'[d][i].type = "MMAPEXIT"
             PROVE  \E j \in 1 .. i - 1 : rings'[d][j].type = "MMAPENTRY"
  BY DEF EntryFirst
<1>1. CASE ~attached
  BY <1>1, SendShape DEF EntryFirst
<1>2. CASE attached
  <2>1. /\ DOMAIN rings[d] = 1 .. Len(rings[d])
        /\ Len(rings[d]) \in Nat
        /\ DOMAIN rings'[d] = 1 .. Len(rings'[d])
        /\ Len(rings'[d]) = IF d = cpu THEN Len(rings[d]) + Len(es) ELSE Len(rings[d])
        /\ \A j \in DOMAIN rings[d] : j \in DOMAIN rings'[d] /\ rings'[d][j] = rings[d][j]
        /\ d = cpu => \A j \in 1 .. Len(es) : rings'[d][Len(rings[d]) + j] = es[j]
    BY <1>2, SendPlaces
  <2>2. CASE i \in DOMAIN rings[d]
    <3>1. PICK j \in 1 .. i - 1 : rings[d][j].type = "MMAPENTRY"
      BY <2>1, <2>2 DEF EntryFirst
    <3>2. j \in DOMAIN rings[d]
      BY <2>1, <2>2
    <3> QED
      BY <2>1, <3>1, <3>2
  <2>3. CASE i \notin DOMAIN rings[d]
    <3> DEFINE n == Len(rings[d])
    <3>1. d = cpu /\ i - n \in 1 .. Len(es) /\ n \in Nat /\ i \in Nat /\ Len(es) \in Nat
      BY <2>1, <2>3
    <3>2. PICK k \in 1 .. Len(es) : i = n + k
      BY <3>1
    <3>3. rings'[d][n + k] = es[k]
      BY <2>1, <3>1
    <3>9. es[k].type = "MMAPEXIT"
      BY <3>2, <3>3
    <3>4. OneCpu /\ InRing(MmapEntry)
      BY <3>9
    <3>5. PICK c \in Cpus : \E m \in DOMAIN rings[c] : rings[c][m] = MmapEntry
      BY <3>4 DEF InRing
    <3>6. PICK j \in DOMAIN rings[d] : rings[d][j] = MmapEntry
      BY <3>4, <3>5 DEF OneCpu
    <3>7. j \in 1 .. i - 1 /\ rings'[d][j] = MmapEntry
      BY <2>1, <3>1, <3>6
    <3>8. MmapEntry.type = "MMAPENTRY"
      BY DEF MmapEntry
    <3> QED
      BY <3>7, <3>8
  <2> QED
    BY <2>2, <2>3
<1> QED
  BY <1>1, <1>2 DEF TypeOK

\* What a write sends has no mmap() in it.
LEMMA WriteOrder ==
    ASSUME TypeOK, NEW p \in Pages, NEW v \in Values, NEW after,
           after = <<>> \/ after = <<Trap>>, UserWrite(p, v, after)
    PROVE  /\ EntryFirst => EntryFirst'
           /\ \A e : InRing(e) => InRing(e)'
<1> DEFINE es == (IF p \in prot THEN <<Fault(p)>> ELSE <<>>) \o after
<1>1. after \in Seq(Event) /\ es \in Seq(Event)
  BY EventsSent, WriteSends
<1>2. \A i \in 1 .. Len(es) : es[i].type # "MMAPEXIT"
  <2>1. Fault(p).type # "MMAPEXIT" /\ Trap.type # "MMAPEXIT"
    BY DEF Fault, Trap
  <2> DEFINE first == IF p \in prot THEN <<Fault(p)>> ELSE <<>>
  <2>2. first \in Seq(Event) /\ \A i \in 1 .. Len(first) : first[i].type # "MMAPEXIT"
    BY <2>1, EventsSent
  <2>3. \A i \in 1 .. Len(after) : after[i].type # "MMAPEXIT"
    BY <2>1
  <2> HIDE DEF first
  <2>4. \A i \in 1 .. Len(first \o after) : (first \o after)[i].type # "MMAPEXIT"
    BY <1>1, <2>2, <2>3
  <2> QED
    BY <2>4 DEF first
<1>3. Send(es)
  BY DEF UserWrite
<1> HIDE DEF es
<1> QED
  BY <1>1, <1>2, <1>3, SendOrder, SentStays

\* The same for a SIGTRAP alone.
LEMMA TrapOrder ==
    ASSUME TypeOK, Send(<<Trap>>)
    PROVE  (EntryFirst => EntryFirst') /\ \A e : InRing(e) => InRing(e)'
<1>1. \A i \in 1 .. Len(<<Trap>>) : <<Trap>>[i].type # "MMAPEXIT"
  BY DEF Trap
<1> QED
  BY <1>1, EventsSent, SendOrder, SentStays

\* Pages of known regions stay known.
LEMMA KnownStays ==
    ASSUME TypeOK
    PROVE  /\ \A p \in Pages : ProcessPage(p) => Known \subseteq Known'
           /\ \A ps \in SUBSET Pages, s \in Nat :
                 Written(ps, s) => Known' = Known \cup ps
           /\ RegionCopied => Known \subseteq Known'
<1> USE RecorderAssumption
<1>1. ASSUME NEW p \in Pages, ProcessPage(p)
      PROVE  Known \subseteq Known'
  BY <1>1 DEF ProcessPage, TypeOK, Known
<1>2. ASSUME NEW ps \in SUBSET Pages, NEW s \in Nat, Written(ps, s)
      PROVE  Known' = Known \cup ps
  <2>1. \A q \in Pages : cache'[q] # None <=> q \in ps \/ cache[q] # None
    BY <1>2 DEF Written, TypeOK
  <2> QED
    BY <2>1 DEF Known
<1>3. ASSUME RegionCopied
      PROVE  Known \subseteq Known'
  BY <1>3 DEF RegionCopied, TypeOK, Known
<1> QED
  BY <1>1, <1>2, <1>3

\* The mapping of page p will be put in the region cache.
Pending(p) == (bpc = "region" /\ bpage = p) \/ InRing(MmapExit(p))

\* What Mappings says, in these terms.
LEMMA MappingsParts ==
    /\ Mappings <=>
          /\ mapped_size = 0 =>
                /\ bpc # "region"
                /\ stop \/ EntryFirst
                /\ child = "mapping" => InRing(MmapEntry)
          /\ pc # "init" /\ ~stop /\ child # "exited" =>
                \A p \in mapped \ Known : Pending(p)
    /\ Mappings' <=>
          /\ mapped_size' = 0 =>
                /\ bpc' # "region"
                /\ stop' \/ EntryFirst'
                /\ child' = "mapping" => InRing(MmapEntry)'
          /\ pc' # "init" /\ ~stop' /\ child' # "exited" =>
                \A p \in mapped' \ Known' : Pending(p)'
BY DEF Mappings, NoMappingForgotten, Pending, InRing

\* On one CPU every mmap() of the child ends up in the region cache: the size
\* that MMAPENTRY leaves behind is there when its MMAPEXIT is handled.
LEMMA MappingsStep ==
    ASSUME OneCpu, TypeOK, TypeOK', Control, Mappings, [Next]_vars
    PROVE  Mappings'
<1> USE DEF environment, main, resetter, poller, shared
<1>1. CASE ChildWrites
  <2>1. (EntryFirst => EntryFirst') /\ \A e : InRing(e) => InRing(e)'
    BY <1>1, WriteOrder DEF ChildWrites
  <2>2. \A p \in Pages : Pending(p) => Pending(p)'
    BY <1>1, <2>1 DEF ChildWrites, Pending
  <2>3. UNCHANGED <<pc, stop, bpc, mapped, mapped_size, cache>>
    BY <1>1 DEF ChildWrites
  <2>4. child' \notin {"exited", "mapping"} /\ child # "exited"
    BY <1>1 DEF ChildWrites
  <2> QED
    BY <2>1, <2>2, <2>3, <2>4, MappingsParts DEF Known, TypeOK
<1>2. CASE KernelWritesPage
  BY <1>2, SameRings, MappingsParts DEF KernelWritesPage, Known, Pending
<1>3. CASE ChildMaps
  <2>1. PICK p \in Pages \ mapped : mapped' = mapped \cup {p} /\ Send(<<MmapExit(p)>>)
    BY <1>3 DEF ChildMaps
  <2> DEFINE es == <<MmapExit(p)>>
  <2>2. es \in Seq(Event) /\ Len(es) = 1 /\ es[1] = MmapExit(p)
    BY EventsSent
  <2>3. Send(es)
    BY <2>1
  <2> HIDE DEF es
  <2>4. attached
    BY <1>3 DEF ChildMaps, TypeOK, Control, Stopped, InStep
  <2>5. InRing(MmapExit(p))'
    <3>1. PICK e : e = MmapExit(p)
      OBVIOUS
    <3>2. InRing(e)'
      BY <2>2, <2>3, <2>4, <3>1, SentIsThere
    <3> QED
      BY <3>1, <3>2
  <2>6. \A e : InRing(e) => InRing(e)'
    BY <2>2, <2>3, SentStays
  <2>7. mapped_size = 0 => stop \/ EntryFirst'
    <3>1. mapped_size = 0 => InRing(MmapEntry) /\ (stop \/ EntryFirst)
      BY <1>3, MappingsParts DEF ChildMaps
    <3> QED
      BY <2>2, <2>3, <3>1, SendOrder
  <2>8. \A q \in Pages : Pending(q) \/ q = p => Pending(q)'
    BY <1>3, <2>5, <2>6 DEF ChildMaps, Pending
  <2>9. /\ UNCHANGED <<pc, stop, bpc, mapped_size, cache>>
        /\ child = "mapping" /\ child' = "running"
    BY <1>3 DEF ChildMaps
  <2> QED
    BY <2>1, <2>7, <2>8, <2>9, MappingsParts DEF Known, TypeOK
<1>35. CASE ChildCallsMmap
  <2> DEFINE es == <<MmapEntry>>
  <2>1. es \in Seq(Event) /\ Len(es) = 1 /\ es[1] = MmapEntry
    BY EventsSent
  <2>2. Send(es)
    BY <1>35 DEF ChildCallsMmap
  <2> HIDE DEF es
  <2>3. attached
    BY <1>35 DEF ChildCallsMmap, TypeOK, Control, Stopped, InStep
  <2>4. InRing(MmapEntry)'
    <3>1. PICK e : e = MmapEntry
      OBVIOUS
    <3>2. InRing(e)'
      BY <2>1, <2>2, <2>3, <3>1, SentIsThere
    <3> QED
      BY <3>1, <3>2
  <2>5. \A e : InRing(e) => InRing(e)'
    BY <2>1, <2>2, SentStays
  <2>6. EntryFirst => EntryFirst'
    <3>1. MmapEntry.type # "MMAPEXIT"
      BY DEF MmapEntry
    <3>2. \A i \in 1 .. Len(es) : es[i].type # "MMAPEXIT"
      BY <2>1, <3>1
    <3> QED
      BY <2>1, <2>2, <3>2, SendOrder
  <2>7. \A q \in Pages : Pending(q) => Pending(q)'
    BY <1>35, <2>5 DEF ChildCallsMmap, Pending
  <2>8. UNCHANGED <<pc, stop, bpc, mapped, mapped_size, cache>> /\ child = "running"
    BY <1>35 DEF ChildCallsMmap
  <2> QED
    BY <2>4, <2>6, <2>7, <2>8, MappingsParts DEF Known, TypeOK
<1>4. CASE ChildMigrates
  BY <1>4, SameRings, MappingsParts DEF ChildMigrates, Known, Pending
<1>5. CASE ChildTraps
  <2>1. (EntryFirst => EntryFirst') /\ \A e : InRing(e) => InRing(e)'
    BY <1>5, TrapOrder DEF ChildTraps
  <2>2. \A p \in Pages : Pending(p) => Pending(p)'
    BY <1>5, <2>1 DEF ChildTraps, Pending
  <2>3. UNCHANGED <<pc, stop, bpc, mapped, mapped_size, cache>>
    BY <1>5 DEF ChildTraps
  <2>4. child' \notin {"exited", "mapping"} /\ child # "exited"
    BY <1>5 DEF ChildTraps
  <2> QED
    BY <2>1, <2>2, <2>3, <2>4, MappingsParts DEF Known, TypeOK
<1>6. CASE ChildEnds
  BY <1>6, SameRings, MappingsParts DEF ChildEnds, Known, Pending
<1>7. CASE ChildSteps
  <2>1. (EntryFirst => EntryFirst') /\ \A e : InRing(e) => InRing(e)'
    BY <1>7, WriteOrder, TrapOrder DEF ChildSteps
  <2>2. \A p \in Pages : Pending(p) => Pending(p)'
    BY <1>7, <2>1 DEF ChildSteps, Pending
  <2>3. UNCHANGED <<pc, stop, bpc, mapped, mapped_size, cache>>
    BY <1>7 DEF ChildSteps
  <2>4. child' \notin {"exited", "mapping"} /\ child # "exited"
    BY <1>7 DEF ChildSteps
  <2> QED
    BY <2>1, <2>2, <2>3, <2>4, MappingsParts DEF Known, TypeOK
<1>8. CASE ChildCrashesInStep
  BY <1>8, SameRings, MappingsParts DEF ChildCrashesInStep, Known, Pending
<1>9. CASE InitCache
  <2>1. Known' = Known \cup mapped
    BY <1>9, KnownStays, InitWrites DEF TypeOK
  <2>2. UNCHANGED <<child, rings, stop, bpc, mapped, mapped_size>>
    BY <1>9 DEF InitCache
  <2> QED
    BY <2>1, <2>2, SameRings, MappingsParts
<1>10. CASE BeginStep
  BY <1>10, SameRings, MappingsParts DEF BeginStep, Known, Pending
<1>11. CASE FindLine
  BY <1>11, SameRings, MappingsParts DEF FindLine, Known, Pending
<1>12. CASE DrainPage
  <2>1. Known \subseteq Known'
    BY <1>12, KnownStays DEF DrainPage, TypeOK
  <2>2. UNCHANGED <<pc, child, rings, stop, bpc, bpage, mapped, mapped_size>>
    BY <1>12 DEF DrainPage
  <2> QED
    BY <2>1, <2>2, SameRings, MappingsParts DEF Pending
<1>13. CASE DrainDone
  BY <1>13, SameRings, MappingsParts DEF DrainDone, Known, Pending
<1>14. CASE ClearDirty
  BY <1>14, SameRings, MappingsParts DEF ClearDirty, Known, Pending
<1>15. CASE StoreStep
  BY <1>15, SameRings, MappingsParts DEF StoreStep, Known, Pending
<1>16. CASE AwaitReset
  BY <1>16, SameRings, MappingsParts DEF AwaitReset, Known, Pending
<1>17. CASE SingleStep
  BY <1>17, SameRings, MappingsParts DEF SingleStep, Known, Pending,
     Control, Stopped
<1>18. CASE StepDone
  BY <1>18, SameRings, MappingsParts DEF StepDone, Known, Pending
<1>19. CASE StepFails
  BY <1>19, SameRings, MappingsParts DEF StepFails, Known, Pending
<1>20. CASE BpfStart
  BY <1>20, SameRings, MappingsParts DEF BpfStart, Known, Pending
<1>21. CASE Continue
  BY <1>21, SameRings, MappingsParts DEF Continue, Known, Pending,
     Control, Stopped
<1>22. CASE WaitTrap
  BY <1>22, SameRings, MappingsParts DEF WaitTrap, Known, Pending
<1>23. CASE AwaitCallback
  BY <1>23, SameRings, MappingsParts DEF AwaitCallback, Known, Pending
<1>24. CASE WaitEnd
  BY <1>24, SameRings, MappingsParts DEF WaitEnd, Control
<1>25. CASE ResetRewind
  BY <1>25, SameRings, MappingsParts DEF ResetRewind, Known, Pending
<1>26. CASE ResetWrite
  BY <1>26, SameRings, MappingsParts DEF ResetWrite, Known, Pending
<1>27. CASE SetDirty
  BY <1>27, SameRings, MappingsParts DEF SetDirty, Pending, Known
<1>28. CASE RegionCopied
  <2>1. UNCHANGED <<pc, child, rings, stop, mapped, mapped_size, bpage>> /\ bpc' # "region"
    BY <1>28 DEF RegionCopied
  <2>2. mapped_size > 0 /\ bpage \in Pages
    BY <1>28, MappingsParts DEF RegionCopied, TypeOK, Control
  <2>3. Known \subseteq Known'
    BY <1>28, KnownStays
  <2>4. child # "exited" => bpage \in Known'
    <3>1. mem[bpage] # None
      BY <2>2, RecorderAssumption DEF TypeOK
    <3>2. child # "exited" => cache'[bpage] = mem[bpage]
      BY <1>28, <2>2 DEF RegionCopied, TypeOK
    <3> QED
      BY <2>2, <3>1, <3>2 DEF Known
  <2> QED
    BY <2>1, <2>2, <2>3, <2>4, SameRings, MappingsParts DEF Pending
<1>36. CASE RegionStored
  BY <1>36, SameRings, MappingsParts DEF RegionStored, Known, Pending
<1>29. ASSUME NEW c \in Cpus, OnStopped(c)
       PROVE  Mappings'
  <2>1. stop /\ UNCHANGED <<stop, bpc, mapped_size, child>> /\ child # "mapping"
    BY <1>29 DEF OnStopped, Control
  <2> QED
    BY <2>1, MappingsParts
<1>30. ASSUME NEW c \in Cpus, OnTrap(c)
       PROVE  Mappings'
  <2>1. Head(rings[c]).type \notin {"MMAPEXIT", "MMAPENTRY"} /\ Deliver(c) /\ bpc # "region"
    BY <1>30 DEF OnTrap, Deliver
  <2>2. EntryFirst => EntryFirst'
    BY <2>1, DeliverOrder
  <2>3. \A p \in Pages : MmapExit(p) # Head(rings[c])
    BY <2>1 DEF MmapExit
  <2>6. InRing(MmapEntry) => InRing(MmapEntry)'
    <3>1. PICK e : e = MmapEntry
      OBVIOUS
    <3>2. e # Head(rings[c])
      BY <2>1, <3>1 DEF MmapEntry
    <3> QED
      BY <2>1, <3>1, <3>2, DeliveredLeaves
  <2>4. \A p \in Pages : Pending(p) => Pending(p)'
    BY <2>1, <2>3, DeliveredLeaves DEF Pending
  <2>5. bpc' # "region" /\ UNCHANGED <<pc, stop, child, mapped, mapped_size, cache>>
    BY <1>30, <2>1 DEF OnTrap
  <2> QED
    BY <2>2, <2>4, <2>5, <2>6, MappingsParts DEF Known, TypeOK
<1>31. ASSUME NEW c \in Cpus, OnPageFault(c)
       PROVE  Mappings'
  <2>1. Head(rings[c]).type \notin {"MMAPEXIT", "MMAPENTRY"} /\ Deliver(c) /\ bpc # "region"
    BY <1>31 DEF OnPageFault, Deliver
  <2>2. EntryFirst => EntryFirst'
    BY <2>1, DeliverOrder
  <2>3. \A p \in Pages : MmapExit(p) # Head(rings[c])
    BY <2>1 DEF MmapExit
  <2>6. InRing(MmapEntry) => InRing(MmapEntry)'
    <3>1. PICK e : e = MmapEntry
      OBVIOUS
    <3>2. e # Head(rings[c])
      BY <2>1, <3>1 DEF MmapEntry
    <3> QED
      BY <2>1, <3>1, <3>2, DeliveredLeaves
  <2>4. \A p \in Pages : Pending(p) => Pending(p)'
    BY <2>1, <2>3, DeliveredLeaves DEF Pending
  <2>5. bpc' # "region" /\ UNCHANGED <<pc, stop, child, mapped, mapped_size, cache>>
    BY <1>31, <2>1 DEF OnPageFault
  <2> QED
    BY <2>2, <2>4, <2>5, <2>6, MappingsParts DEF Known, TypeOK
<1>32. ASSUME NEW c \in Cpus, OnMmapEntry(c)
       PROVE  Mappings'
  <2>1. Head(rings[c]).type # "MMAPEXIT" /\ Deliver(c)
    BY <1>32 DEF OnMmapEntry
  <2>2. \A p \in Pages : MmapExit(p) # Head(rings[c])
    BY <2>1 DEF MmapExit
  <2>3. mapped_size' = 1 /\ UNCHANGED <<pc, stop, child, mapped, cache, bpc, bpage>>
    BY <1>32 DEF OnMmapEntry
  <2>4. \A p \in Pages : Pending(p) => Pending(p)'
    BY <2>1, <2>2, <2>3, DeliveredLeaves DEF Pending
  <2> QED
    BY <2>3, <2>4, MappingsParts DEF Known, TypeOK
<1>33. ASSUME NEW c \in Cpus, OnMmapExit(c)
       PROVE  Mappings'
  <2>1. Head(rings[c]).type = "MMAPEXIT" /\ Deliver(c) /\ ~stop /\ bpc = "poll"
    BY <1>33 DEF OnMmapExit, Deliver
  <2>2. mapped_size # 0
    <3>1. 1 \in DOMAIN rings[c] /\ rings[c][1].type = "MMAPEXIT"
      BY <2>1, DeliverShape
    <3>2. ~EntryFirst
      BY <3>1 DEF EntryFirst
    <3> QED
      BY <2>1, <3>2, MappingsParts
  <2>3. bpc' = "region" /\ UNCHANGED <<pc, stop, child, mapped, cache, mapped_size>>
    BY <1>33 DEF OnMmapExit
  <2>4. bpage' = Head(rings[c]).page
    BY <1>33 DEF OnMmapExit
  <2>5. ASSUME NEW p \in Pages, Pending(p)
        PROVE  Pending(p)'
    <3>1. InRing(MmapExit(p))
      BY <2>1, <2>5 DEF Pending
    <3>2. CASE MmapExit(p) = Head(rings[c])
      <4>1. bpage' = p
        BY <2>4, <3>2 DEF MmapExit
      <4> QED
        BY <2>3, <4>1 DEF Pending
    <3>3. CASE MmapExit(p) # Head(rings[c])
      BY <2>1, <3>1, <3>3, DeliveredLeaves DEF Pending
    <3> QED
      BY <3>2, <3>3
  <2> QED
    BY <2>2, <2>3, <2>5, MappingsParts DEF Known, TypeOK
<1>34. CASE Over \/ UNCHANGED vars
  BY <1>34, SameRings, MappingsParts DEF Over, vars, Known, Pending
<1> QED
  BY <1>1, <1>2, <1>3, <1>4, <1>5, <1>6, <1>7, <1>8, <1>9, <1>10, <1>11,
     <1>12, <1>13, <1>14, <1>15, <1>16, <1>17, <1>18, <1>19, <1>20, <1>21,
     <1>22, <1>23, <1>24, <1>25, <1>26, <1>27, <1>28, <1>29, <1>30, <1>31,
     <1>32, <1>33, <1>34, <1>35, <1>36
     DEF Next, Child, Main, Resetter, Poller

-----------------------------------------------------------------------------
(***************************************************************************)
(* One CPU: the SIGTRAP of a breakpoint is the last event of its stretch.  *)
(***************************************************************************)

\* Delivery leaves the last event of the ring last, and takes it only when it is
\* the only one.
LEMMA DeliverLast ==
    ASSUME TypeOK, OneCpu, Order, NEW c \in Cpus, Deliver(c), UNCHANGED <<pc, child>>,
           Head(rings[c]).type = "SIGTRAP" => bpc' = "poll"
    PROVE  Order'
<1>1. rings[c] # <<>> /\ rings[c] \in Seq(Event)
  BY DEF Deliver, TypeOK
<1>2. pc \notin Stopped
  BY <1>1 DEF Order, Quiet
<1>3. ASSUME Hit
      PROVE  IF rings'[c] = <<>> THEN bpc' = "poll"
             ELSE rings'[c][Len(rings'[c])].type = "SIGTRAP"
  <2>1. rings[c][Len(rings[c])].type = "SIGTRAP"
    BY <1>1, <1>3 DEF Order
  <2>2. CASE Len(rings[c]) = 1
    <3>1. Head(rings[c]).type = "SIGTRAP"
      BY <2>1, <2>2, DeliverShape
    <3>2. Len(rings'[c]) = 0 /\ rings'[c] \in Seq(Event)
      BY <2>2, DeliverShape
    <3>3. rings'[c] = <<>>
      BY <3>2
    <3> QED
      BY <3>1, <3>3
  <2>3. CASE Len(rings[c]) # 1
    <3> DEFINE n == Len(rings'[c])
    <3>1. n = Len(rings[c]) - 1 /\ n \in 1 .. Len(rings[c]) - 1 /\ Len(rings[c]) \in Nat
      <4>1. Len(rings[c]) \in Nat /\ Len(rings[c]) # 0
        BY <1>1
      <4>2. n = Len(rings[c]) - 1
        BY DeliverShape
      <4>3. \A k \in Nat : k # 0 /\ k # 1 => k - 1 \in 1 .. k - 1
        OBVIOUS
      <4>4. Len(rings[c]) - 1 \in 1 .. Len(rings[c]) - 1
        BY <2>3, <4>1, <4>3
      <4> HIDE DEF n
      <4> QED
        BY <4>1, <4>2, <4>4
    <3>2. n \in DOMAIN rings'[c] /\ n + 1 = Len(rings[c])
      BY <3>1, DeliverShape
    <3>3. rings'[c][n] = rings[c][Len(rings[c])]
      BY <3>2, DeliverShape
    <3>4. rings'[c] # <<>>
      BY <3>1
    <3> QED
      BY <2>1, <3>3, <3>4
  <2> QED
    BY <2>2, <2>3
<1>4. Hit' <=> Hit
  BY DEF Hit
<1> QED
  BY <1>2, <1>3, <1>4 DEF Order, OneCpu

\* With one CPU, bpf_sem opens when everything before the breakpoint is handled.
LEMMA OrderStep ==
    ASSUME OneCpu, TypeOK, Control, Signals, Order, [Next]_vars
    PROVE  Order'
<1> USE DEF environment, main, resetter, poller, shared
<1>1. CASE ChildWrites
  BY <1>1 DEF ChildWrites, Order, Quiet, Control, Hit, Stopped, InStep
<1>2. CASE KernelWritesPage
  BY <1>2 DEF KernelWritesPage, Order, Quiet, Control, Hit, Stopped, InStep
<1>3. CASE ChildMaps \/ ChildCallsMmap
  BY <1>3 DEF ChildMaps, ChildCallsMmap, Order, Quiet, Control, Hit, Stopped, InStep
<1>4. CASE ChildMigrates
  BY <1>4 DEF ChildMigrates, Order, Quiet, Control, Hit, Stopped, InStep
<1>5. CASE ChildTraps
  <2>1. attached /\ Send(<<Trap>>) /\ pc' = "wait"
    BY <1>5 DEF ChildTraps, TypeOK, Control, Stopped, InStep
  <2>2. ASSUME NEW c \in Cpus
        PROVE  rings'[c] # <<>> /\ rings'[c][Len(rings'[c])].type = "SIGTRAP"
    <3>1. c = cpu /\ rings[c] \in Seq(Event)
      BY DEF OneCpu, TypeOK
    <3>2. rings'[c] = rings[c] \o <<Trap>>
      BY <2>1, <3>1, SendShape, EventsSent
    <3>3. Trap.type = "SIGTRAP"
      BY DEF Trap
    <3>4. /\ Len(rings'[c]) = Len(rings[c]) + 1
          /\ rings'[c][Len(rings[c]) + 1] = Trap
          /\ rings'[c] # <<>>
      BY <3>1, <3>2, EventsSent
    <3> QED
      BY <3>3, <3>4
  <2> QED
    BY <2>1, <2>2 DEF Order, Stopped, InStep
<1>6. CASE ChildEnds
  BY <1>6 DEF ChildEnds, Order, Quiet, Control, Hit, Stopped, InStep
<1>7. CASE ChildSteps
  BY <1>7 DEF ChildSteps, Order, Quiet, Control, Hit, Stopped, InStep
<1>8. CASE ChildCrashesInStep
  BY <1>8 DEF ChildCrashesInStep, Order, Quiet, Control, Hit, Stopped, InStep
<1>9. CASE InitCache
  BY <1>9 DEF InitCache, Order, Quiet, Control, Hit, Stopped, InStep
<1>10. CASE BeginStep
  BY <1>10 DEF BeginStep, Order, Quiet, Control, Hit, Stopped, InStep
<1>11. CASE FindLine
  BY <1>11 DEF FindLine, Order, Quiet, Control, Hit, Stopped, InStep
<1>12. CASE DrainPage
  BY <1>12 DEF DrainPage, Order, Quiet, Control, Hit, Stopped, InStep
<1>13. CASE DrainDone
  BY <1>13 DEF DrainDone, Order, Quiet, Control, Hit, Stopped, InStep
<1>14. CASE ClearDirty
  BY <1>14 DEF ClearDirty, Order, Quiet, Control, Hit, Stopped, InStep
<1>15. CASE StoreStep
  BY <1>15 DEF StoreStep, Order, Quiet, Control, Hit, Stopped, InStep
<1>16. CASE AwaitReset
  BY <1>16 DEF AwaitReset, Order, Quiet, Control, Hit, Stopped, InStep
<1>17. CASE SingleStep
  BY <1>17 DEF SingleStep, Order, Quiet, Control, Hit, Stopped, InStep
<1>18. CASE StepDone
  BY <1>18 DEF StepDone, Order, Quiet, Control, Hit, Stopped, InStep
<1>19. CASE StepFails
  BY <1>19 DEF StepFails, Order, Quiet, Control, Hit, Stopped, InStep
<1>20. CASE BpfStart
  BY <1>20 DEF BpfStart, Order, Quiet, Control, Hit, Stopped, InStep
<1>21. CASE Continue
  BY <1>21 DEF Continue, Order, Quiet, Control, Hit, Stopped, InStep
<1>22. CASE WaitTrap
  BY <1>22 DEF WaitTrap, Order, Quiet, Control, Hit, Stopped, InStep
<1>23. CASE AwaitCallback
  <2>1. NoTrap
    BY <1>23 DEF AwaitCallback, Signals, Hit
  <2>2. ASSUME NEW c \in Cpus
        PROVE  rings[c] = <<>> /\ bpc = "poll"
    <3>1. SUFFICES ASSUME rings[c] # <<>> PROVE FALSE
      BY <1>23 DEF AwaitCallback, Order, Hit
    <3>2. rings[c] \in Seq(Event)
      BY DEF TypeOK
    <3>3. Len(rings[c]) \in DOMAIN rings[c] /\ Len(rings[c]) \in Nat
      BY <3>1, <3>2
    <3>4. rings[c][Len(rings[c])].type = "SIGTRAP"
      BY <1>23, <3>1 DEF AwaitCallback, Order, Hit
    <3> QED
      BY <2>1, <3>3, <3>4 DEF NoTrap, TrapAt
  <2>3. Cpus # {}
    BY RecorderAssumption
  <2> QED
    BY <1>23, <2>2, <2>3 DEF AwaitCallback, Order, Quiet, Hit
<1>24. CASE WaitEnd
  BY <1>24 DEF WaitEnd, Order, Quiet, Control, Hit, Stopped, InStep
<1>25. CASE ResetRewind
  BY <1>25 DEF ResetRewind, Order, Quiet, Control, Hit, Stopped, InStep
<1>26. CASE ResetWrite
  BY <1>26 DEF ResetWrite, Order, Quiet, Control, Hit, Stopped, InStep
<1>27. CASE SetDirty
  BY <1>27 DEF SetDirty, Order, Quiet, Control, Hit, Stopped, InStep
<1>28. CASE RegionCopied \/ RegionStored
  BY <1>28 DEF RegionCopied, RegionStored, Order, Quiet, Control, Hit, Stopped, InStep
<1>29. ASSUME NEW c \in Cpus, OnStopped(c)
       PROVE  Order'
  BY <1>29 DEF OnStopped, Order, Control, Hit, Stopped, InStep
<1>30. ASSUME NEW c \in Cpus, OnTrap(c)
       PROVE  Order'
  <2>1. Deliver(c) /\ bpc = "poll" /\ rings[c] # <<>> /\ ~stop
    BY <1>30 DEF OnTrap, Deliver
  <2>2. UNCHANGED <<pc, child>> /\ (Head(rings[c]).type = "SIGTRAP" => bpc' = "poll")
    BY <1>30 DEF OnTrap, Deliver
  <2> QED
    BY <2>1, <2>2, DeliverLast
<1>31. ASSUME NEW c \in Cpus, OnPageFault(c)
       PROVE  Order'
  <2>1. Deliver(c) /\ bpc = "poll" /\ rings[c] # <<>> /\ ~stop
    BY <1>31 DEF OnPageFault, Deliver
  <2>2. UNCHANGED <<pc, child>> /\ (Head(rings[c]).type = "SIGTRAP" => bpc' = "poll")
    BY <1>31 DEF OnPageFault, Deliver
  <2> QED
    BY <2>1, <2>2, DeliverLast
<1>32. ASSUME NEW c \in Cpus, OnMmapEntry(c)
       PROVE  Order'
  <2>1. Deliver(c) /\ bpc = "poll" /\ rings[c] # <<>> /\ ~stop
    BY <1>32 DEF OnMmapEntry, Deliver
  <2>2. UNCHANGED <<pc, child>> /\ (Head(rings[c]).type = "SIGTRAP" => bpc' = "poll")
    BY <1>32 DEF OnMmapEntry, Deliver
  <2> QED
    BY <2>1, <2>2, DeliverLast
<1>33. ASSUME NEW c \in Cpus, OnMmapExit(c)
       PROVE  Order'
  <2>1. Deliver(c) /\ bpc = "poll" /\ rings[c] # <<>> /\ ~stop
    BY <1>33 DEF OnMmapExit, Deliver
  <2>2. UNCHANGED <<pc, child>> /\ (Head(rings[c]).type = "SIGTRAP" => bpc' = "poll")
    BY <1>33 DEF OnMmapExit, Deliver
  <2> QED
    BY <2>1, <2>2, DeliverLast
<1>34. CASE Over \/ UNCHANGED vars
  BY <1>34 DEF Over, vars, Order, Quiet, Control, Hit, Stopped, InStep
<1> QED
  BY <1>1, <1>2, <1>3, <1>4, <1>5, <1>6, <1>7, <1>8, <1>9, <1>10, <1>11,
     <1>12, <1>13, <1>14, <1>15, <1>16, <1>17, <1>18, <1>19, <1>20, <1>21,
     <1>22, <1>23, <1>24, <1>25, <1>26, <1>27, <1>28, <1>29, <1>30, <1>31,
     <1>32, <1>33, <1>34
     DEF Next, Child, Main, Resetter, Poller

\* Steps that neither send a fault address nor clear the dirty flag keep
\* Announced; with one CPU the callback sends none between drain and clear.
LEMMA AnnouncedStep ==
    ASSUME TypeOK, Control, Order, Announced, [Next]_vars
    PROVE  Announced'
<1> USE DEF environment, main, resetter, poller, shared
<1>1. CASE ChildWrites
  BY <1>1 DEF ChildWrites, Announced, NoFaultForgotten, Order, Quiet, Control,
     Stopped, InStep, TypeOK
<1>2. CASE KernelWritesPage
  BY <1>2 DEF KernelWritesPage, Announced, NoFaultForgotten, Order, Quiet,
     Control, Stopped, InStep, TypeOK
<1>3. CASE ChildMaps \/ ChildCallsMmap
  BY <1>3 DEF ChildMaps, ChildCallsMmap, Announced, NoFaultForgotten, Order, Quiet, Control,
     Stopped, InStep, TypeOK
<1>4. CASE ChildMigrates
  BY <1>4 DEF ChildMigrates, Announced, NoFaultForgotten, Order, Quiet,
     Control, Stopped, InStep, TypeOK
<1>5. CASE ChildTraps
  BY <1>5 DEF ChildTraps, Announced, NoFaultForgotten, Order, Quiet, Control,
     Stopped, InStep, TypeOK
<1>6. CASE ChildEnds
  BY <1>6 DEF ChildEnds, Announced, NoFaultForgotten, Order, Quiet, Control,
     Stopped, InStep, TypeOK
<1>7. CASE ChildSteps
  BY <1>7 DEF ChildSteps, Announced, NoFaultForgotten, Order, Quiet, Control,
     Stopped, InStep, TypeOK
<1>8. CASE ChildCrashesInStep
  BY <1>8 DEF ChildCrashesInStep, Announced, NoFaultForgotten, Order, Quiet,
     Control, Stopped, InStep, TypeOK
<1>9. CASE InitCache
  BY <1>9 DEF InitCache, Announced, NoFaultForgotten, Order, Quiet, Control,
     Stopped, InStep, TypeOK
<1>10. CASE BeginStep
  BY <1>10 DEF BeginStep, Announced, NoFaultForgotten, Order, Quiet, Control,
     Stopped, InStep, TypeOK
<1>11. CASE FindLine
  BY <1>11 DEF FindLine, Announced, NoFaultForgotten, Order, Quiet, Control,
     Stopped, InStep, TypeOK
<1>12. CASE DrainPage
  BY <1>12 DEF DrainPage, Announced, NoFaultForgotten, Order, Quiet, Stopped, InStep, TypeOK
<1>13. CASE DrainDone
  BY <1>13 DEF DrainDone, Announced, NoFaultForgotten, Order, Quiet, Control,
     Stopped, InStep, TypeOK
<1>14. CASE ClearDirty
  BY <1>14 DEF ClearDirty, Announced, NoFaultForgotten, Order, Quiet, Control,
     Stopped, InStep, TypeOK
<1>15. CASE StoreStep
  BY <1>15 DEF StoreStep, Announced, NoFaultForgotten, Order, Quiet, Control,
     Stopped, InStep, TypeOK
<1>16. CASE AwaitReset
  BY <1>16 DEF AwaitReset, Announced, NoFaultForgotten, Order, Quiet, Control,
     Stopped, InStep, TypeOK
<1>17. CASE SingleStep
  BY <1>17 DEF SingleStep, Announced, NoFaultForgotten, Order, Quiet, Control,
     Stopped, InStep, TypeOK
<1>18. CASE StepDone
  BY <1>18 DEF StepDone, Announced, NoFaultForgotten, Order, Quiet, Control,
     Stopped, InStep, TypeOK
<1>19. CASE StepFails
  BY <1>19 DEF StepFails, Announced, NoFaultForgotten, Order, Quiet, Control,
     Stopped, InStep, TypeOK
<1>20. CASE BpfStart
  BY <1>20 DEF BpfStart, Announced, NoFaultForgotten, Order, Quiet, Control,
     Stopped, InStep, TypeOK
<1>21. CASE Continue
  BY <1>21 DEF Continue, Announced, NoFaultForgotten, Order, Quiet, Control,
     Stopped, InStep, TypeOK
<1>22. CASE WaitTrap
  BY <1>22 DEF WaitTrap, Announced, NoFaultForgotten, Order, Quiet, Control,
     Stopped, InStep, TypeOK
<1>23. CASE AwaitCallback
  BY <1>23 DEF AwaitCallback, Announced, NoFaultForgotten, Order, Quiet,
     Control, Stopped, InStep, TypeOK
<1>24. CASE WaitEnd
  BY <1>24 DEF WaitEnd, Announced, NoFaultForgotten, Order, Quiet, Control,
     Stopped, InStep, TypeOK
<1>25. CASE ResetRewind
  BY <1>25 DEF ResetRewind, Announced, NoFaultForgotten, Order, Quiet,
     Control, Stopped, InStep, TypeOK
<1>26. CASE ResetWrite
  BY <1>26 DEF ResetWrite, Announced, NoFaultForgotten, Order, Quiet, Control,
     Stopped, InStep, TypeOK
<1>27. CASE SetDirty
  BY <1>27 DEF SetDirty, Announced, NoFaultForgotten, Order, Quiet, Control,
     Stopped, InStep, TypeOK
<1>28. CASE RegionCopied \/ RegionStored
  BY <1>28 DEF RegionCopied, RegionStored, Announced, NoFaultForgotten, Order, Quiet,
     Control, Stopped, InStep, TypeOK
<1>29. ASSUME NEW c \in Cpus, OnStopped(c)
       PROVE  Announced'
  BY <1>29 DEF OnStopped, Announced, NoFaultForgotten
<1>30. ASSUME NEW c \in Cpus, OnTrap(c)
       PROVE  Announced'
  BY <1>30 DEF OnTrap, Announced, NoFaultForgotten
<1>31. ASSUME NEW c \in Cpus, OnPageFault(c)
       PROVE  Announced'
  <2>1. pc \notin Stopped /\ UNCHANGED <<pc, mem_dirty, flag>> /\ bpc' = "dirty"
    BY <1>31 DEF OnPageFault, Deliver, Order, Quiet
  <2> QED
    BY <2>1 DEF Announced, NoFaultForgotten, Stopped, InStep
<1>32. ASSUME NEW c \in Cpus, OnMmapEntry(c)
       PROVE  Announced'
  BY <1>32 DEF OnMmapEntry, Announced, NoFaultForgotten
<1>33. ASSUME NEW c \in Cpus, OnMmapExit(c)
       PROVE  Announced'
  <2>1. bpc = "poll"
    BY <1>33 DEF OnMmapExit, Deliver
  <2> QED
    BY <1>33, <2>1 DEF OnMmapExit, Announced, NoFaultForgotten
<1>34. CASE Over \/ UNCHANGED vars
  BY <1>34 DEF Over, vars, Announced, NoFaultForgotten, Order, Quiet, Control,
     Stopped, InStep, TypeOK
<1> QED
  BY <1>1, <1>2, <1>3, <1>4, <1>5, <1>6, <1>7, <1>8, <1>9, <1>10, <1>11,
     <1>12, <1>13, <1>14, <1>15, <1>16, <1>17, <1>18, <1>19, <1>20, <1>21,
     <1>22, <1>23, <1>24, <1>25, <1>26, <1>27, <1>28, <1>29, <1>30, <1>31,
     <1>32, <1>33, <1>34
     DEF Next, Child, Main, Resetter, Poller

\* No step begins while the callback is in cache_add_region().
LEMMA InTimeStep ==
    ASSUME Order, InTime, [Next]_vars
    PROVE  InTime'
<1> USE DEF environment, main, resetter, poller, shared
<1>1. CASE UNCHANGED <<bpc, bstep, step_id>>
  BY <1>1 DEF InTime
<1>2. CASE BeginStep
  <2>1. bpc = "poll" /\ bpc' = bpc
    BY <1>2 DEF BeginStep, Order, Quiet, Stopped
  <2> QED
    BY <2>1 DEF InTime
<1>3. CASE RegionCopied \/ RegionStored \/ SetDirty
  BY <1>3 DEF RegionCopied, RegionStored, SetDirty, InTime
<1>4. ASSUME NEW c \in Cpus, OnStopped(c) \/ OnTrap(c) \/ OnPageFault(c) \/
                             OnMmapEntry(c) \/ OnMmapExit(c)
      PROVE  InTime'
  BY <1>4 DEF OnStopped, OnTrap, OnPageFault, OnMmapEntry, OnMmapExit, Deliver, InTime
<1>5. CASE Child \/ Resetter \/ Over \/ UNCHANGED vars
  <2>1. UNCHANGED <<bpc, bstep, step_id>>
    BY <1>5 DEF Child, ChildWrites, KernelWritesPage, ChildCallsMmap, ChildMaps,
       ChildMigrates, ChildTraps, ChildEnds, ChildSteps, ChildCrashesInStep, Resetter,
       ResetRewind, ResetWrite, Over, vars
  <2> QED
    BY <1>1, <2>1
<1>6. CASE Main /\ ~BeginStep
  <2>1. UNCHANGED <<bpc, bstep, step_id>>
    BY <1>6 DEF Main, InitCache, FindLine, DrainPage, DrainDone, ClearDirty, StoreStep,
       AwaitReset, SingleStep, StepDone, StepFails, BpfStart, Continue, WaitTrap,
       AwaitCallback, WaitEnd
  <2> QED
    BY <1>1, <2>1
<1> QED
  BY <1>2, <1>3, <1>4, <1>5, <1>6 DEF Next, Poller

-----------------------------------------------------------------------------
(***************************************************************************)
(* The rows of table mem.                                                  *)
(***************************************************************************)

\* Replay, of the rows r of one page.
RowsOf(r, s) == {t \in Steps : t <= s /\ r[t] # None}
Latest(r, R) == IF R = {} THEN None ELSE r[CHOOSE t \in R : \A u \in R : u <= t]
ReplayOf(r, s) == Latest(r, RowsOf(r, s))

\* A row of the step itself is the one that is found ...
LEMMA ReplayHere ==
    ASSUME NEW r, NEW s \in Steps, r[s] # None
    PROVE  ReplayOf(r, s) = r[s]
<1>1. s \in RowsOf(r, s) /\ \A u \in RowsOf(r, s) : u <= s
  BY DEF RowsOf, Steps
<1>2. \A t \in RowsOf(r, s) : (\A u \in RowsOf(r, s) : u <= t) => t = s
  BY <1>1 DEF RowsOf, Steps
<1>3. (CHOOSE t \in RowsOf(r, s) : \A u \in RowsOf(r, s) : u <= t) = s
  BY <1>1, <1>2
<1> QED
  BY <1>1, <1>3 DEF ReplayOf, Latest

\* ... and without one it is that of the step before.
LEMMA ReplayBefore ==
    ASSUME NEW r, NEW s \in Steps, s + 1 \in Steps, r[s + 1] = None
    PROVE  ReplayOf(r, s + 1) = ReplayOf(r, s)
<1>1. RowsOf(r, s + 1) = RowsOf(r, s)
  BY DEF RowsOf, Steps
<1> QED
  BY <1>1 DEF ReplayOf

\* What Stored says, in these terms.
LEMMA StoredParts ==
    /\ Stored <=>
          /\ \A p \in Pages, s \in Steps : s > Now => log[p][s] = None
          /\ \A p \in Known : AboutToStore(p) \/ ReplayOf(log[p], Now) = cache[p]
          /\ bpc = "rows" => bpage \in Known
    /\ Stored' <=>
          /\ \A p \in Pages, s \in Steps : s > Now' => log'[p][s] = None
          /\ \A p \in Known' : AboutToStore(p)' \/ ReplayOf(log'[p], Now') = cache'[p]
          /\ bpc' = "rows" => bpage' \in Known'
BY DEF Stored, Replay, ReplayOf, Latest, Rows, RowsOf

\* Steps that write no row.
LEMMA SameRows ==
    ASSUME Stored, UNCHANGED <<step_id, cache, log>>,
           bpc = "rows" => UNCHANGED <<bpc, bpage>>, bpc' = "rows" => bpc = "rows"
    PROVE  Stored'
<1>1. Now' = Now
  BY DEF Now
<1>2. \A p \in Pages : AboutToStore(p) => AboutToStore(p)'
  BY DEF AboutToStore
<1> QED
  BY <1>1, <1>2, StoredParts DEF Known

\* init_cache() writes the rows that go with the cached copies.
LEMMA RegionRows ==
    ASSUME TypeOK, Stored, NEW ps \in SUBSET Pages, Written(ps, Now), step_id' = step_id,
           UNCHANGED <<bpc, bpage>>
    PROVE  Stored'
<1> USE RecorderAssumption
<1>1. PICK n \in Steps : n = Now
  BY DEF Now, Steps, TypeOK
<1>2. Now' = n
  BY <1>1 DEF Now
<1>3. ASSUME NEW p \in Pages
      PROVE  /\ \A s \in Steps : s > n => log'[p][s] = None
             /\ p \in Known' => AboutToStore(p)' \/ ReplayOf(log'[p], n) = cache'[p]
             /\ p \in Known => p \in Known'
  <2>1. CASE p \in ps
    <3>1. log'[p] = [log[p] EXCEPT ![n] = mem[p]] /\ cache'[p] = mem[p]
      BY <1>1, <2>1 DEF Written
    <3>2. log[p] \in [Steps -> Values \cup {None}] /\ mem[p] \in Values /\ mem[p] # None
      BY DEF TypeOK
    <3>3. log'[p][n] = mem[p] /\ \A s \in Steps : s # n => log'[p][s] = log[p][s]
      BY <3>1, <3>2
    <3>4. ReplayOf(log'[p], n) = log'[p][n]
      BY <3>2, <3>3, ReplayHere
    <3>5. \A s \in Steps : s > n => log'[p][s] = None
      BY <1>1, <3>3, StoredParts DEF Steps
    <3> QED
      BY <3>1, <3>2, <3>3, <3>4, <3>5 DEF Known
  <2>2. CASE p \notin ps
    <3>1. log'[p] = log[p] /\ cache'[p] = cache[p]
      BY <2>2 DEF Written
    <3>2. AboutToStore(p)' <=> AboutToStore(p)
      BY DEF AboutToStore
    <3> QED
      BY <1>1, <3>1, <3>2, StoredParts DEF Known
  <2> QED
    BY <2>1, <2>2
<1>4. Known' \subseteq Pages /\ Known \subseteq Pages
  BY DEF Known
<1> QED
  BY <1>2, <1>3, <1>4, StoredParts

\* process_page() does too.
LEMMA PageRows ==
    ASSUME TypeOK, Stored, NEW q \in Pages, ProcessPage(q), step_id >= 1, step_id' = step_id,
           UNCHANGED <<bpc, bpage>>
    PROVE  Stored'
<1> USE RecorderAssumption
<1>1. CASE ~(q \in Known /\ mem[q] # cache[q])
  BY <1>1, SameRows DEF ProcessPage
<1>2. CASE q \in Known /\ mem[q] # cache[q]
  <2>1. step_id = Now
    BY DEF Now, TypeOK
  <2>2. /\ cache' = [p \in Pages |-> IF p \in {q} THEN mem[p] ELSE cache[p]]
        /\ log' = [p \in Pages |->
                     IF p \in {q} THEN [log[p] EXCEPT ![Now] = mem[p]] ELSE log[p]]
    BY <1>2, <2>1 DEF ProcessPage, TypeOK
  <2>3. Written({q}, Now)
    BY <2>2 DEF Written
  <2> QED
    BY <2>3, RegionRows
<1> QED
  BY <1>1, <1>2

\* The rows of a page replay to its cached copy, and no row is ahead of its step.
LEMMA StoredStep ==
    ASSUME TypeOK, Control, InTime, Stored, [Next]_vars
    PROVE  Stored'
<1> USE DEF environment, main, resetter, poller, shared
<1>1. CASE ChildWrites
  BY <1>1, SameRows DEF ChildWrites
<1>2. CASE KernelWritesPage
  BY <1>2, SameRows DEF KernelWritesPage
<1>3. CASE ChildMaps \/ ChildCallsMmap
  BY <1>3, SameRows DEF ChildMaps, ChildCallsMmap
<1>4. CASE ChildMigrates
  BY <1>4, SameRows DEF ChildMigrates
<1>5. CASE ChildTraps
  BY <1>5, SameRows DEF ChildTraps
<1>6. CASE ChildEnds
  BY <1>6, SameRows DEF ChildEnds
<1>7. CASE ChildSteps
  BY <1>7, SameRows DEF ChildSteps
<1>8. CASE ChildCrashesInStep
  BY <1>8, SameRows DEF ChildCrashesInStep
<1>9. CASE InitCache
  <2>1. step_id = 0 /\ step_id' = 0
    BY <1>9 DEF InitCache, Control
  <2>2. mapped \in SUBSET Pages /\ Written(mapped, 1) /\ Now = 1
    BY <1>9, <2>1, InitWrites DEF TypeOK, Now
  <2>3. UNCHANGED <<bpc, bpage>>
    BY <1>9 DEF InitCache
  <2> QED
    BY <2>1, <2>2, <2>3, RegionRows
<1>10. CASE BeginStep
  <2>1. UNCHANGED <<log, cache, bpc, bpage>> /\ step_id' = step_id + 1 /\ step_id \in Nat
        /\ step_id < MaxSteps
    BY <1>10 DEF BeginStep, TypeOK, Control, AtBreak
  <2>4. \A p \in Pages : AboutToStore(p)' <=> AboutToStore(p)
    BY <2>1 DEF AboutToStore
  <2>2. CASE step_id = 0
    <3>1. Now = 1 /\ Now' = 1
      BY <2>1, <2>2 DEF Now
    <3> QED
      BY <2>1, <2>4, <3>1, StoredParts DEF Known
  <2>3. CASE step_id # 0
    <3>1. PICK n \in Steps : n = step_id
      BY <2>1, <2>3, RecorderAssumption DEF Steps
    <3>2. Now = n /\ Now' = n + 1 /\ n + 1 \in Steps
      BY <2>1, <2>3, <3>1, RecorderAssumption DEF Now, Steps
    <3>3. \A p \in Pages : log[p][n + 1] = None
      BY <3>1, <3>2, StoredParts DEF Steps
    <3>4. \A p \in Pages : ReplayOf(log[p], n + 1) = ReplayOf(log[p], n)
      BY <3>1, <3>2, <3>3, ReplayBefore
    <3>5. \A p \in Pages, s \in Steps : s > n + 1 => log[p][s] = None
      <4>1. \A s \in Steps : s > n + 1 => s > n
        BY <3>1 DEF Steps
      <4> QED
        BY <3>2, <4>1, StoredParts
    <3> QED
      BY <2>1, <2>4, <3>2, <3>4, <3>5, StoredParts DEF Known
  <2> QED
    BY <2>2, <2>3
<1>11. CASE FindLine
  BY <1>11, SameRows DEF FindLine
<1>12. CASE DrainPage
  <2>1. Head(proc_mem_ch) \in Pages /\ ProcessPage(Head(proc_mem_ch))
    BY <1>12 DEF DrainPage, TypeOK
  <2>2. step_id >= 1 /\ step_id' = step_id /\ UNCHANGED <<bpc, bpage>>
    BY <1>12 DEF DrainPage, Control, TypeOK
  <2> QED
    BY <2>1, <2>2, PageRows
<1>13. CASE DrainDone
  BY <1>13, SameRows DEF DrainDone
<1>14. CASE ClearDirty
  BY <1>14, SameRows DEF ClearDirty
<1>15. CASE StoreStep
  BY <1>15, SameRows DEF StoreStep
<1>16. CASE AwaitReset
  BY <1>16, SameRows DEF AwaitReset
<1>17. CASE SingleStep
  BY <1>17, SameRows DEF SingleStep
<1>18. CASE StepDone
  BY <1>18, SameRows DEF StepDone
<1>19. CASE StepFails
  BY <1>19, SameRows DEF StepFails
<1>20. CASE BpfStart
  BY <1>20, SameRows DEF BpfStart
<1>21. CASE Continue
  BY <1>21, SameRows DEF Continue
<1>22. CASE WaitTrap
  BY <1>22, SameRows DEF WaitTrap
<1>23. CASE AwaitCallback
  BY <1>23, SameRows DEF AwaitCallback
<1>24. CASE WaitEnd
  BY <1>24, SameRows DEF WaitEnd
<1>25. CASE ResetRewind
  BY <1>25, SameRows DEF ResetRewind
<1>26. CASE ResetWrite
  BY <1>26, SameRows DEF ResetWrite
<1>27. CASE SetDirty
  BY <1>27, SameRows DEF SetDirty
<1>28. CASE RegionCopied
  <2>1. /\ UNCHANGED <<step_id, log, bpage>> /\ bpc = "region"
        /\ bpage \in Pages /\ mem[bpage] # None
    BY <1>28, RecorderAssumption DEF RegionCopied, Control, TypeOK
  <2>2. CASE mapped_size > 0 /\ child # "exited"
    <3>1. cache' = [cache EXCEPT ![bpage] = mem[bpage]] /\ bpc' = "rows"
      BY <1>28, <2>2 DEF RegionCopied
    <3>2. \A p \in Pages : p # bpage => cache'[p] = cache[p] /\ ~AboutToStore(p)
      BY <2>1, <3>1 DEF TypeOK, AboutToStore
    <3>3. AboutToStore(bpage)' /\ bpage \in Known'
      BY <2>1, <3>1 DEF TypeOK, AboutToStore, Known
    <3>4. Now' = Now
      BY <2>1 DEF Now
    <3> QED
      BY <2>1, <3>2, <3>3, <3>4, StoredParts DEF Known
  <2>3. CASE ~(mapped_size > 0 /\ child # "exited")
    <3>1. UNCHANGED cache /\ bpc' = "poll"
      BY <1>28, <2>3 DEF RegionCopied
    <3> QED
      BY <2>1, <3>1, SameRows
  <2> QED
    BY <2>2, <2>3
<1>35. CASE RegionStored
  <2> USE RecorderAssumption
  <2>1. UNCHANGED <<step_id, cache, bpage>> /\ bpc = "rows" /\ bpc' = "poll"
    BY <1>35 DEF RegionStored
  <2>2. PICK n \in Steps : n = Now
    BY DEF Now, Steps, TypeOK
  <2>3. Now' = n /\ bstep = n
    BY <2>1, <2>2 DEF Now, InTime, Control, TypeOK
  <2>4. PICK q \in Pages : q = bpage
    BY <2>1 DEF Control
  <2>5. log' = [log EXCEPT ![q] = [log[q] EXCEPT ![n] = cache[q]]]
    BY <1>35, <2>3, <2>4, RegionRow
  <2>6. log[q] \in [Steps -> Values \cup {None}] /\ cache[q] # None
    BY <2>1, <2>4, StoredParts DEF TypeOK, Known
  <2>7. /\ log'[q][n] = cache[q]
        /\ \A s \in Steps : s # n => log'[q][s] = log[q][s]
        /\ \A p \in Pages : p # q => log'[p] = log[p]
    BY <2>5, <2>6 DEF TypeOK
  <2>8. ReplayOf(log'[q], n) = cache[q]
    BY <2>6, <2>7, ReplayHere
  <2>9. \A p \in Pages, s \in Steps : s > n => log'[p][s] = None
    <3>1. \A s \in Steps : s > n => s # n
      BY DEF Steps
    <3> QED
      BY <2>2, <2>7, <3>1, StoredParts
  <2>10. \A p \in Known : p # q => ReplayOf(log'[p], n) = cache[p]
    BY <2>2, <2>4, <2>7, StoredParts DEF Known, AboutToStore
  <2>11. Known' = Known /\ cache' = cache
    BY <2>1 DEF Known
  <2> QED
    BY <2>1, <2>3, <2>8, <2>9, <2>10, <2>11, StoredParts
<1>29. ASSUME NEW c \in Cpus, OnStopped(c)
       PROVE  Stored'
  BY <1>29, SameRows DEF OnStopped, Deliver
<1>30. ASSUME NEW c \in Cpus, OnTrap(c)
       PROVE  Stored'
  BY <1>30, SameRows DEF OnTrap, Deliver
<1>31. ASSUME NEW c \in Cpus, OnPageFault(c)
       PROVE  Stored'
  BY <1>31, SameRows DEF OnPageFault, Deliver
<1>32. ASSUME NEW c \in Cpus, OnMmapEntry(c)
       PROVE  Stored'
  BY <1>32, SameRows DEF OnMmapEntry, Deliver
<1>33. ASSUME NEW c \in Cpus, OnMmapExit(c)
       PROVE  Stored'
  BY <1>33, SameRows DEF OnMmapExit, Deliver
<1>34. CASE Over \/ UNCHANGED vars
  BY <1>34, SameRows DEF Over, vars
<1> QED
  BY <1>1, <1>2, <1>3, <1>4, <1>5, <1>6, <1>7, <1>8, <1>9, <1>10, <1>11,
     <1>12, <1>13, <1>14, <1>15, <1>16, <1>17, <1>18, <1>19, <1>20, <1>21,
     <1>22, <1>23, <1>24, <1>25, <1>26, <1>27, <1>28, <1>29, <1>30, <1>31,
     <1>32, <1>33, <1>34, <1>35
     DEF Next, Child, Main, Resetter, Poller

-----------------------------------------------------------------------------
(***************************************************************************)
(* Page protection: what the child writes without a fault is announced.    *)
(***************************************************************************)

\* Steps that leave the rings and the channel of fault addresses alone.
LEMMA SameWaiting ==
    ASSUME UNCHANGED <<rings, proc_mem_ch>>
    PROVE  \A p : Waiting(p)' <=> Waiting(p)
BY DEF Waiting, InRing

\* What the child sends loses no fault.
LEMMA SendWaiting ==
    ASSUME TypeOK, NEW es \in Seq(Event), Send(es), UNCHANGED proc_mem_ch
    PROVE  \A p \in Pages : Waiting(p) => Waiting(p)'
BY SentStays DEF Waiting

\* A write to a protected page is a fault that waits.
LEMMA WriteWaits ==
    ASSUME TypeOK, attached, NEW q \in Pages, NEW v \in Values, NEW after,
           after = <<>> \/ after = <<Trap>>, UserWrite(q, v, after), UNCHANGED proc_mem_ch
    PROVE  \A p \in Pages : Waiting(p) \/ (p = q /\ q \in prot) => Waiting(p)'
<1>1. \A p \in Pages : Waiting(p) => Waiting(p)'
  BY WriteOrder DEF Waiting
<1>2. ASSUME q \in prot
      PROVE  InRing(Fault(q))'
  <2> DEFINE es == <<Fault(q)>> \o after
  <2>1. after \in Seq(Event) /\ <<Fault(q)>> \in Seq(Event)
    BY EventsSent
  <2>2. es \in Seq(Event) /\ 1 \in 1 .. Len(es) /\ es[1] = Fault(q)
    BY <2>1
  <2>3. Send(es)
    BY <1>2 DEF UserWrite
  <2> HIDE DEF es
  <2>4. PICK e : e = Fault(q)
    OBVIOUS
  <2>5. InRing(e)'
    BY <2>2, <2>3, <2>4, SentIsThere
  <2> QED
    BY <2>4, <2>5
<1> QED
  BY <1>1, <1>2 DEF Waiting

\* Events that are not faults are delivered without losing one ...
LEMMA DeliverWaiting ==
    ASSUME TypeOK, NEW c \in Cpus, Deliver(c), Head(rings[c]).type # "PAGEFAULT",
           UNCHANGED proc_mem_ch
    PROVE  \A p \in Pages : Waiting(p) => Waiting(p)'
<1>1. \A p \in Pages : Fault(p) # Head(rings[c])
  BY DEF Fault
<1> QED
  BY <1>1, DeliveredLeaves DEF Waiting

\* ... and a fault goes from its ring to the channel.
LEMMA FaultWaiting ==
    ASSUME TypeOK, NEW c \in Cpus, OnPageFault(c)
    PROVE  \A p \in Pages : Waiting(p) => Waiting(p)'
<1> SUFFICES ASSUME NEW p \in Pages, Waiting(p) PROVE Waiting(p)'
  OBVIOUS
<1>1. Deliver(c) /\ proc_mem_ch' = Append(proc_mem_ch, Head(rings[c]).page)
  BY DEF OnPageFault
<1>2. Head(rings[c]).page \in Pages
  BY <1>1, DeliverShape DEF OnPageFault, Event
<1>3. proc_mem_ch \in Seq(Pages)
  BY DEF TypeOK
<1>4. CASE \E i \in DOMAIN proc_mem_ch : proc_mem_ch[i] = p
  <2>1. PICK i \in DOMAIN proc_mem_ch : proc_mem_ch[i] = p
    BY <1>4
  <2>2. i \in DOMAIN proc_mem_ch' /\ proc_mem_ch'[i] = p
    BY <1>1, <1>2, <1>3, <2>1
  <2> QED
    BY <2>2 DEF Waiting
<1>5. CASE InRing(Fault(p)) /\ Fault(p) # Head(rings[c])
  BY <1>1, <1>5, DeliveredLeaves DEF Waiting
<1>6. CASE Fault(p) = Head(rings[c])
  <2>1. Head(rings[c]).page = p
    BY <1>6 DEF Fault
  <2>2. PICK n \in Nat : n = Len(proc_mem_ch) + 1
    BY <1>3
  <2>3. n \in DOMAIN proc_mem_ch' /\ proc_mem_ch'[n] = p
    BY <1>1, <1>2, <1>3, <2>1, <2>2
  <2> QED
    BY <2>3 DEF Waiting
<1> QED
  BY <1>4, <1>5, <1>6 DEF Waiting

\* The byte written to clear_refs at one step protects the pages at the next, and
\* a page that is written then is known to be dirty, at the next breakpoint.
LEMMA ProtectedStep ==
    ASSUME ~KernelWrites, TypeOK, Control, Resets, Order, Announced, Protected, [Next]_vars
    PROVE  Protected'
<1> USE DEF environment, main, resetter, poller, shared
<1>1. CASE ChildWrites
  <2>1. PICK q \in Pages, v \in Values : UserWrite(q, v, <<>>)
    BY <1>1 DEF ChildWrites
  <2>2. pc = "wait" /\ attached /\ UNCHANGED proc_mem_ch
    BY <1>1 DEF ChildWrites, Control, Stopped, InStep, TypeOK
  <2>3. \A p \in Pages : Waiting(p) \/ (p = q /\ q \in prot) => Waiting(p)'
    BY <2>1, <2>2, WriteWaits
  <2>4. UNCHANGED <<main, resetter, mapped>>
    BY <1>1 DEF ChildWrites
  <2> QED
    BY <2>1, <2>2, <2>3, <2>4 DEF UserWrite, Protected, InStep, TypeOK
<1>2. CASE KernelWritesPage
  BY <1>2 DEF KernelWritesPage
<1>3. CASE ChildMaps
  <2>1. PICK q \in Pages \ mapped : /\ Send(<<MmapExit(q)>>)
                                  /\ mapped' = mapped \cup {q}
                                  /\ prot' = prot \cup {q}
    BY <1>3 DEF ChildMaps
  <2>2. UNCHANGED <<main, resetter, proc_mem_ch, touched>>
    BY <1>3 DEF ChildMaps
  <2>3. \A p \in Pages : Waiting(p) => Waiting(p)'
    BY <2>1, <2>2, EventsSent, SendWaiting
  <2>4. pc = "wait"
    BY <1>3 DEF ChildMaps, Control, Stopped, InStep, TypeOK
  <2> QED
    BY <2>1, <2>2, <2>3, <2>4 DEF Protected, InStep, TypeOK
<1>35. CASE ChildCallsMmap
  <2>1. \A p \in Pages : Waiting(p) => Waiting(p)'
    BY <1>35, EventsSent, SendWaiting DEF ChildCallsMmap
  <2> QED
    BY <1>35, <2>1 DEF ChildCallsMmap, Protected, InStep, TypeOK
<1>4. CASE ChildMigrates
  <2>1. \A p : Waiting(p) => Waiting(p)'
    BY <1>4, SameWaiting DEF ChildMigrates
  <2> QED
    BY <1>4, <2>1 DEF ChildMigrates, Protected, Control, Resets, Tokens, Stopped, InStep, TypeOK
<1>5. CASE ChildTraps
  <2>1. \A p \in Pages : Waiting(p) => Waiting(p)'
    BY <1>5, EventsSent, SendWaiting DEF ChildTraps
  <2> QED
    BY <1>5, <2>1 DEF ChildTraps, Protected, InStep, TypeOK
<1>6. CASE ChildEnds
  <2>1. \A p : Waiting(p) => Waiting(p)'
    BY <1>6, SameWaiting DEF ChildEnds
  <2> QED
    BY <1>6, <2>1 DEF ChildEnds, Protected, Control, Resets, Tokens, Stopped, InStep, TypeOK
<1>7. CASE ChildSteps
  <2>1. pc = "stepwait" /\ UNCHANGED <<main, resetter, mapped, proc_mem_ch>>
    BY <1>7 DEF ChildSteps, Control, Stopped, InStep, TypeOK
  <2>2. CASE \E q \in Pages, v \in Values : UserWrite(q, v, <<Trap>>)
    <3>1. PICK q \in Pages, v \in Values : UserWrite(q, v, <<Trap>>)
      BY <2>2
    <3>2. attached => \A p \in Pages : Waiting(p) \/ (p = q /\ q \in prot) => Waiting(p)'
      BY <2>1, <3>1, WriteWaits
    <3>3. armed => attached
      BY DEF Protected, Control, TypeOK
    <3> QED
      BY <2>1, <3>1, <3>2, <3>3 DEF UserWrite, Protected, InStep, TypeOK
  <2>3. CASE Send(<<Trap>>) /\ UNCHANGED <<mem, prot, touched>>
    <3>1. \A p \in Pages : Waiting(p) => Waiting(p)'
      BY <2>1, <2>3, EventsSent, SendWaiting
    <3> QED
      BY <2>1, <2>3, <3>1 DEF Protected, InStep, TypeOK
  <2> QED
    BY <1>7, <2>2, <2>3 DEF ChildSteps
<1>8. CASE ChildCrashesInStep
  <2>1. \A p : Waiting(p) => Waiting(p)'
    BY <1>8, SameWaiting DEF ChildCrashesInStep
  <2> QED
    BY <1>8, <2>1 DEF ChildCrashesInStep, Protected, Control, Resets, Tokens, Stopped, InStep, TypeOK
<1>9. CASE InitCache
  <2>1. \A p : Waiting(p) => Waiting(p)'
    BY <1>9, SameWaiting DEF InitCache
  <2> QED
    BY <1>9, <2>1 DEF InitCache, Protected, Control, Resets, Tokens, Stopped, InStep, TypeOK
<1>10. CASE BeginStep
  <2>1. /\ pc = "bp" /\ pc' = "line" /\ step_id' = step_id + 1
        /\ start_sem' = IF mem_dirty THEN start_sem + 1 ELSE start_sem
        /\ UNCHANGED <<rpc, buffered, armed, touched, mapped, prot, stop>>
    BY <1>10 DEF BeginStep
  <2>2. start_sem = 0 /\ rpc = "wait"
    BY <2>1 DEF Resets, Tokens, InStep, TypeOK
  <2>3. ~mem_dirty => mapped \subseteq prot
    <3> SUFFICES ASSUME ~mem_dirty, NEW p \in mapped \ prot PROVE FALSE
      OBVIOUS
    <3>1. Quiet
      BY <2>1 DEF Order, Stopped
    <3>2. proc_mem_ch = <<>>
      BY <3>1 DEF Quiet, Announced, NoFaultForgotten
    <3>3. ~Waiting(p)
      <4>1. \A c \in Cpus : DOMAIN rings[c] = {}
        BY <3>1 DEF Quiet
      <4> QED
        BY <3>2, <4>1 DEF Waiting, InRing
    <3>4. armed /\ ~stop
      BY <2>1 DEF Protected, Control, InStep, TypeOK
    <3> QED
      BY <2>1, <3>3, <3>4 DEF Protected, InStep
  <2>4. step_id <= 1 => mem_dirty
    BY DEF Control
  <2> QED
    BY <2>1, <2>2, <2>3, <2>4 DEF Protected, InStep, TypeOK
<1>11. CASE FindLine
  <2>1. \A p : Waiting(p) => Waiting(p)'
    BY <1>11, SameWaiting DEF FindLine
  <2> QED
    BY <1>11, <2>1 DEF FindLine, Protected, Control, Resets, Tokens, Stopped, InStep, TypeOK
<1>12. CASE DrainPage
  BY <1>12 DEF DrainPage, Protected, Stopped, InStep
<1>13. CASE DrainDone
  <2>1. \A p : Waiting(p) => Waiting(p)'
    BY <1>13, SameWaiting DEF DrainDone
  <2> QED
    BY <1>13, <2>1 DEF DrainDone, Protected, Control, Resets, Tokens, Stopped, InStep, TypeOK
<1>14. CASE ClearDirty
  <2>1. \A p : Waiting(p) => Waiting(p)'
    BY <1>14, SameWaiting DEF ClearDirty
  <2> QED
    BY <1>14, <2>1 DEF ClearDirty, Protected, Control, Resets, Tokens, Stopped, InStep, TypeOK
<1>15. CASE StoreStep
  <2>1. \A p : Waiting(p) => Waiting(p)'
    BY <1>15, SameWaiting DEF StoreStep
  <2> QED
    BY <1>15, <2>1 DEF StoreStep, Protected, Control, Resets, Tokens, Stopped, InStep, TypeOK
<1>16. CASE AwaitReset
  <2>1. \A p : Waiting(p) => Waiting(p)'
    BY <1>16, SameWaiting DEF AwaitReset
  <2> QED
    BY <1>16, <2>1 DEF AwaitReset, Protected, Control, Resets, Tokens, Stopped, InStep, TypeOK
<1>17. CASE SingleStep
  <2>1. \A p : Waiting(p) => Waiting(p)'
    BY <1>17, SameWaiting DEF SingleStep
  <2> QED
    BY <1>17, <2>1 DEF SingleStep, Protected, Control, Resets, Tokens, Stopped, InStep, TypeOK
<1>18. CASE StepDone
  <2>1. \A p : Waiting(p) => Waiting(p)'
    BY <1>18, SameWaiting DEF StepDone
  <2> QED
    BY <1>18, <2>1 DEF StepDone, Protected, Control, Resets, Tokens, Stopped, InStep, TypeOK
<1>19. CASE StepFails
  <2>1. \A p : Waiting(p) => Waiting(p)'
    BY <1>19, SameWaiting DEF StepFails
  <2> QED
    BY <1>19, <2>1 DEF StepFails, Protected, Control, Resets, Tokens, Stopped, InStep, TypeOK
<1>20. CASE BpfStart
  <2>1. \A p : Waiting(p) => Waiting(p)'
    BY <1>20, SameWaiting DEF BpfStart
  <2> QED
    BY <1>20, <2>1 DEF BpfStart, Protected, Control, Resets, Tokens, Stopped, InStep, TypeOK
<1>21. CASE Continue
  <2>1. \A p : Waiting(p) => Waiting(p)'
    BY <1>21, SameWaiting DEF Continue
  <2> QED
    BY <1>21, <2>1 DEF Continue, Protected, Control, Resets, Tokens, Stopped, InStep, TypeOK
<1>22. CASE WaitTrap
  <2>1. \A p : Waiting(p) => Waiting(p)'
    BY <1>22, SameWaiting DEF WaitTrap
  <2> QED
    BY <1>22, <2>1 DEF WaitTrap, Protected, Control, Resets, Tokens, Stopped, InStep, TypeOK
<1>23. CASE AwaitCallback
  <2>1. \A p : Waiting(p) => Waiting(p)'
    BY <1>23, SameWaiting DEF AwaitCallback
  <2> QED
    BY <1>23, <2>1 DEF AwaitCallback, Protected, Control, Resets, Tokens, Stopped, InStep, TypeOK
<1>24. CASE WaitEnd
  <2>1. \A p : Waiting(p) => Waiting(p)'
    BY <1>24, SameWaiting DEF WaitEnd
  <2> QED
    BY <1>24, <2>1 DEF WaitEnd, Protected, Control, Resets, Tokens, Stopped, InStep, TypeOK
<1>25. CASE ResetRewind
  <2>1. \A p : Waiting(p) => Waiting(p)'
    BY <1>25, SameWaiting DEF ResetRewind
  <2> QED
    BY <1>25, <2>1 DEF ResetRewind, Protected, Control, Resets, Tokens, Stopped, InStep, TypeOK
<1>26. CASE ResetWrite
  <2>1. \A p : Waiting(p) => Waiting(p)'
    BY <1>26, SameWaiting DEF ResetWrite
  <2> QED
    BY <1>26, <2>1 DEF ResetWrite, Protected, Control, Resets, Tokens, Stopped, InStep, TypeOK
<1>27. CASE SetDirty
  <2>1. \A p : Waiting(p) => Waiting(p)'
    BY <1>27, SameWaiting DEF SetDirty
  <2> QED
    BY <1>27, <2>1 DEF SetDirty, Protected, Control, Resets, Tokens, Stopped, InStep, TypeOK
<1>28. CASE RegionCopied \/ RegionStored
  <2>1. \A p : Waiting(p) => Waiting(p)'
    BY <1>28, SameWaiting DEF RegionCopied, RegionStored
  <2> QED
    BY <1>28, <2>1 DEF RegionCopied, RegionStored, Protected, Control, Resets, Tokens, Stopped, InStep, TypeOK
<1>29. ASSUME NEW c \in Cpus, OnStopped(c)
       PROVE  Protected'
  BY <1>29 DEF OnStopped, Protected
<1>30. ASSUME NEW c \in Cpus, OnTrap(c)
       PROVE  Protected'
  <2>1. \A p \in Pages : Waiting(p) => Waiting(p)'
    BY <1>30, DeliverWaiting DEF OnTrap
  <2> QED
    BY <1>30, <2>1 DEF OnTrap, Protected, InStep, TypeOK
<1>31. ASSUME NEW c \in Cpus, OnPageFault(c)
       PROVE  Protected'
  <2>1. \A p \in Pages : Waiting(p) => Waiting(p)'
    BY <1>31, FaultWaiting
  <2> QED
    BY <1>31, <2>1 DEF OnPageFault, Protected, InStep, TypeOK
<1>32. ASSUME NEW c \in Cpus, OnMmapEntry(c)
       PROVE  Protected'
  <2>1. \A p \in Pages : Waiting(p) => Waiting(p)'
    BY <1>32, DeliverWaiting DEF OnMmapEntry
  <2> QED
    BY <1>32, <2>1 DEF OnMmapEntry, Protected, InStep, TypeOK
<1>33. ASSUME NEW c \in Cpus, OnMmapExit(c)
       PROVE  Protected'
  <2>1. \A p \in Pages : Waiting(p) => Waiting(p)'
    BY <1>33, DeliverWaiting DEF OnMmapExit
  <2> QED
    BY <1>33, <2>1 DEF OnMmapExit, Protected, InStep, TypeOK
<1>34. CASE Over \/ UNCHANGED vars
  BY <1>34, SameWaiting DEF Over, vars, Protected, Control, Resets, Tokens, Stopped,
     InStep, TypeOK
<1> QED
  BY <1>1, <1>2, <1>3, <1>4, <1>5, <1>6, <1>7, <1>8, <1>9, <1>10, <1>11,
     <1>12, <1>13, <1>14, <1>15, <1>16, <1>17, <1>18, <1>19, <1>20, <1>21,
     <1>22, <1>23, <1>24, <1>25, <1>26, <1>27, <1>28, <1>29, <1>30, <1>31,
     <1>32, <1>33, <1>34, <1>35
     DEF Next, Child, Main, Resetter, Poller

\* A write of the child to a page that is not protected is to a page whose fault
\* waits, or that was never protected.
LEMMA WriteRecorded ==
    ASSUME TypeOK, Control, Protected, Recorded, NEW q \in Pages, NEW v \in Values, NEW after,
           after = <<>> \/ after = <<Trap>>, UserWrite(q, v, after),
           pc \notin InStep \cup {"step", "finish"}, ~stop, child # "exited",
           UNCHANGED <<proc_mem_ch, cache, pc>>
    PROVE  Recorded'
<1>1. mem' = [mem EXCEPT ![q] = v] /\ q \in mapped
  BY DEF UserWrite
<1>2. CASE ~armed
  <2>1. touched = {} /\ touched' = touched
    BY <1>2 DEF Protected, UserWrite
  <2> QED
    BY <2>1 DEF Recorded
<1>3. CASE armed
  <2>1. attached
    BY <1>3 DEF Protected, Control, TypeOK
  <2>2. \A p \in Pages : Waiting(p) \/ (p = q /\ q \in prot) => Waiting(p)'
    BY <2>1, WriteWaits
  <2>3. q \notin prot => Waiting(q)
    BY <1>1, <1>3 DEF Protected
  <2>4. Waiting(q)'
    BY <2>2, <2>3
  <2>5. touched' = touched \cup {q} /\ \A p \in Pages : p # q => mem'[p] = mem[p]
    BY <1>1, <1>3 DEF UserWrite, TypeOK
  <2>6. \A p \in touched : p # q => Waiting(p)' \/ cache'[p] = None \/ cache'[p] = mem'[p]
    BY <2>2, <2>5 DEF Recorded, Known, TypeOK
  <2> QED
    BY <2>4, <2>5, <2>6 DEF Recorded, Known
<1> QED
  BY <1>2, <1>3 DEF TypeOK

\* A touched page is in the channel or its cached copy is its contents.
LEMMA RecordedStep ==
    ASSUME ~KernelWrites, TypeOK, Control, Protected, Recorded, [Next]_vars
    PROVE  Recorded'
<1> USE DEF environment, main, resetter, poller, shared
<1>1. CASE ChildWrites
  <2>1. PICK q \in Pages, v \in Values : UserWrite(q, v, <<>>)
    BY <1>1 DEF ChildWrites
  <2>2. UNCHANGED <<proc_mem_ch, cache, pc>> /\ pc = "wait" /\ attached /\ ~stop /\ child # "exited"
    BY <1>1 DEF ChildWrites, Control, Stopped, InStep, TypeOK
  <2> QED
    BY <2>1, <2>2, WriteRecorded, EventsSent DEF InStep
<1>2. CASE KernelWritesPage
  BY <1>2 DEF KernelWritesPage
<1>3. CASE ChildMaps
  <2>1. PICK q \in Pages \ mapped : /\ Send(<<MmapExit(q)>>)
                                  /\ mem' = [mem EXCEPT ![q] = Zero]
    BY <1>3 DEF ChildMaps
  <2>2. UNCHANGED <<pc, proc_mem_ch, cache, touched>> /\ child # "exited"
    BY <1>3 DEF ChildMaps
  <2>3. \A p \in Pages : Waiting(p) => Waiting(p)'
    BY <2>1, <2>2, EventsSent, SendWaiting
  <2>4. \A p \in touched : p \in Pages /\ mem'[p] = mem[p]
    BY <2>1 DEF Protected, TypeOK
  <2> QED
    BY <2>2, <2>3, <2>4 DEF Recorded, Known
<1>35. CASE ChildCallsMmap
  <2>1. \A p \in Pages : Waiting(p) => Waiting(p)'
    BY <1>35, EventsSent, SendWaiting DEF ChildCallsMmap
  <2> QED
    BY <1>35, <2>1 DEF ChildCallsMmap, Recorded, Known, TypeOK
<1>4. CASE ChildMigrates
  BY <1>4, SameWaiting DEF ChildMigrates, Recorded, Known
<1>5. CASE ChildTraps
  <2>1. \A p \in Pages : Waiting(p) => Waiting(p)'
    BY <1>5, EventsSent, SendWaiting DEF ChildTraps
  <2> QED
    BY <1>5, <2>1 DEF ChildTraps, Recorded, Known, TypeOK
<1>6. CASE ChildEnds
  BY <1>6, SameWaiting DEF ChildEnds, Recorded, Known
<1>7. CASE ChildSteps
  <2>1. /\ UNCHANGED <<proc_mem_ch, cache, pc>>
        /\ pc = "stepwait" /\ ~stop /\ child # "exited"
    BY <1>7 DEF ChildSteps, Control, Stopped, InStep, TypeOK
  <2>2. CASE \E q \in Pages, v \in Values : UserWrite(q, v, <<Trap>>)
    BY <2>1, <2>2, WriteRecorded DEF InStep
  <2>3. CASE Send(<<Trap>>) /\ UNCHANGED <<mem, prot, touched>>
    <3>1. \A p \in Pages : Waiting(p) => Waiting(p)'
      BY <2>1, <2>3, EventsSent, SendWaiting
    <3> QED
      BY <2>1, <2>3, <3>1 DEF Recorded, Known, TypeOK
  <2> QED
    BY <1>7, <2>2, <2>3 DEF ChildSteps
<1>8. CASE ChildCrashesInStep
  BY <1>8, SameWaiting DEF ChildCrashesInStep, Recorded, Known
<1>9. CASE InitCache
  <2>1. touched = {} /\ touched' = touched
    BY <1>9 DEF InitCache, Protected, Control
  <2> QED
    BY <2>1 DEF Recorded
<1>10. CASE BeginStep
  BY <1>10, SameWaiting DEF BeginStep, Recorded, Known
<1>11. CASE FindLine
  BY <1>11, SameWaiting DEF FindLine, Recorded, Known
<1>12. CASE DrainPage
  <2> DEFINE q == Head(proc_mem_ch)
  <2>1. UNCHANGED <<mem, rings, touched, child, pc>> /\ pc # "finish" /\ child # "exited"
    BY <1>12 DEF DrainPage, Control, Stopped, InStep
  <2>2. /\ q \in Pages /\ ProcessPage(q) /\ proc_mem_ch' = Tail(proc_mem_ch)
        /\ proc_mem_ch # <<>> /\ proc_mem_ch \in Seq(Pages)
    BY <1>12 DEF DrainPage, TypeOK
  <2>3. ASSUME NEW p \in Pages, Waiting(p), p # q
        PROVE  Waiting(p)'
    <3>1. CASE InRing(Fault(p))
      BY <2>1, <3>1, SameRings DEF Waiting
    <3>2. CASE \E i \in DOMAIN proc_mem_ch : proc_mem_ch[i] = p
      <4>1. PICK i \in DOMAIN proc_mem_ch : proc_mem_ch[i] = p
        BY <3>2
      <4>2. i # 1 /\ i \in 1 .. Len(proc_mem_ch)
        BY <2>2, <2>3, <4>1
      <4>3. PICK j \in Nat : j = i - 1
        BY <4>2
      <4>4. j \in DOMAIN proc_mem_ch' /\ proc_mem_ch'[j] = p
        BY <2>2, <4>1, <4>2, <4>3
      <4> QED
        BY <4>4 DEF Waiting
    <3> QED
      BY <2>3, <3>1, <3>2 DEF Waiting
  <2>4. q \notin Known \/ cache'[q] = mem[q]
    BY <2>2 DEF ProcessPage, TypeOK, Known
  <2>5. \A p \in Pages : p # q => cache'[p] = cache[p]
    BY <2>2 DEF ProcessPage, TypeOK
  <2>6. q \notin Known => cache'[q] = cache[q]
    BY <2>2 DEF ProcessPage
  <2> HIDE DEF q
  <2>7. \A p \in touched : Waiting(p)' \/ cache'[p] = None \/ cache'[p] = mem'[p]
    BY <2>1, <2>2, <2>3, <2>4, <2>5, <2>6 DEF Recorded, Known, TypeOK
  <2> QED
    BY <2>1, <2>7 DEF Recorded, Known
<1>13. CASE DrainDone
  BY <1>13, SameWaiting DEF DrainDone, Recorded, Known
<1>14. CASE ClearDirty
  BY <1>14, SameWaiting DEF ClearDirty, Recorded, Known
<1>15. CASE StoreStep
  BY <1>15, SameWaiting DEF StoreStep, Recorded, Known
<1>16. CASE AwaitReset
  BY <1>16, SameWaiting DEF AwaitReset, Recorded, Known
<1>17. CASE SingleStep
  BY <1>17, SameWaiting DEF SingleStep, Recorded, Known, Control, Stopped
<1>18. CASE StepDone
  BY <1>18, SameWaiting DEF StepDone, Recorded, Known
<1>19. CASE StepFails
  BY <1>19, SameWaiting DEF StepFails, Recorded, Known
<1>20. CASE BpfStart
  BY <1>20, SameWaiting DEF BpfStart, Recorded, Known
<1>21. CASE Continue
  BY <1>21, SameWaiting DEF Continue, Recorded, Known, Control, Stopped
<1>22. CASE WaitTrap
  BY <1>22, SameWaiting DEF WaitTrap, Recorded, Known
<1>23. CASE AwaitCallback
  BY <1>23, SameWaiting DEF AwaitCallback, Recorded, Known
<1>24. CASE WaitEnd
  BY <1>24, SameWaiting DEF WaitEnd, Recorded, Known
<1>25. CASE ResetRewind
  BY <1>25, SameWaiting DEF ResetRewind, Recorded, Known
<1>26. CASE ResetWrite
  BY <1>26, SameWaiting DEF ResetWrite, Recorded, Known
<1>27. CASE SetDirty
  BY <1>27, SameWaiting DEF SetDirty, Recorded, Known
<1>28. CASE RegionCopied \/ RegionStored
  <2>1. UNCHANGED <<mem, rings, proc_mem_ch, touched, child, pc>>
    BY <1>28 DEF RegionCopied, RegionStored
  <2>2. \A p \in Pages : cache'[p] = cache[p] \/ cache'[p] = mem[p]
    BY <1>28 DEF RegionCopied, RegionStored, TypeOK
  <2> QED
    BY <2>1, <2>2, SameWaiting DEF Recorded, Known, TypeOK
<1>29. ASSUME NEW c \in Cpus, OnStopped(c)
       PROVE  Recorded'
  BY <1>29 DEF OnStopped, Recorded, Control
<1>30. ASSUME NEW c \in Cpus, OnTrap(c)
       PROVE  Recorded'
  <2>1. \A p \in Pages : Waiting(p) => Waiting(p)'
    BY <1>30, DeliverWaiting DEF OnTrap
  <2> QED
    BY <1>30, <2>1 DEF OnTrap, Recorded, Known, TypeOK
<1>31. ASSUME NEW c \in Cpus, OnPageFault(c)
       PROVE  Recorded'
  <2>1. \A p \in Pages : Waiting(p) => Waiting(p)'
    BY <1>31, FaultWaiting
  <2> QED
    BY <1>31, <2>1 DEF OnPageFault, Recorded, Known, TypeOK
<1>32. ASSUME NEW c \in Cpus, OnMmapEntry(c)
       PROVE  Recorded'
  <2>1. \A p \in Pages : Waiting(p) => Waiting(p)'
    BY <1>32, DeliverWaiting DEF OnMmapEntry
  <2> QED
    BY <1>32, <2>1 DEF OnMmapEntry, Recorded, Known, TypeOK
<1>33. ASSUME NEW c \in Cpus, OnMmapExit(c)
       PROVE  Recorded'
  <2>1. \A p \in Pages : Waiting(p) => Waiting(p)'
    BY <1>33, DeliverWaiting DEF OnMmapExit
  <2> QED
    BY <1>33, <2>1 DEF OnMmapExit, Recorded, Known, TypeOK
<1>34. CASE Over \/ UNCHANGED vars
  BY <1>34, SameWaiting DEF Over, vars, Recorded, Known, TypeOK
<1> QED
  BY <1>1, <1>2, <1>3, <1>4, <1>5, <1>6, <1>7, <1>8, <1>9, <1>10, <1>11,
     <1>12, <1>13, <1>14, <1>15, <1>16, <1>17, <1>18, <1>19, <1>20, <1>21,
     <1>22, <1>23, <1>24, <1>25, <1>26, <1>27, <1>28, <1>29, <1>30, <1>31,
     <1>32, <1>33, <1>34, <1>35
     DEF Next, Child, Main, Resetter, Poller

-----------------------------------------------------------------------------
(***************************************************************************)
(* The invariants and what they imply.                                     *)
(***************************************************************************)

\* Whatever the CPUs and the system calls of the child ...
Threads == TypeOK /\ Control /\ Resets /\ Signals
\* ... when it stays on one CPU ...
Ordered == Threads /\ Order /\ Announced /\ Mappings /\ InTime /\ Stored
\* ... and when, in addition, only its own instructions write its memory.
Exact == Ordered /\ Protected /\ Recorded

\* The first breakpoint of the child.
LEMMA InitExact == Init => Exact
<1> SUFFICES ASSUME Init PROVE Exact
  OBVIOUS
<1> USE RecorderAssumption
<1>1. <<>> \in Seq(Event) /\ <<>> \in Seq(Pages)
  BY EventsSent
<1>2. rings = [c \in Cpus |-> <<>>] /\ rings \in [Cpus -> Seq(Event)]
  BY <1>1 DEF Init
<1>3. mem \in [Pages -> Values]
  BY DEF Init
<1>4. cache = [p \in Pages |-> None] /\ cache \in [Pages -> Values \cup {None}]
  BY DEF Init
<1>5. log = [p \in Pages |-> [s \in Steps |-> None]]
  BY DEF Init
<1>6. log \in [Pages -> [Steps -> Values \cup {None}]]
  BY <1>5
<1>7. cpu \in Cpus /\ mapped \in SUBSET Pages /\ prot \in SUBSET mapped
  BY DEF Init
<1>8. TypeOK
  <2>1. /\ mem_dirty \in BOOLEAN /\ wait_reset \in BOOLEAN /\ attached \in BOOLEAN
        /\ stop \in BOOLEAN /\ buffered \in BOOLEAN /\ armed \in BOOLEAN
    BY Zenon DEF Init
  <2>2. /\ step_id \in 0 .. MaxSteps /\ depth \in Nat /\ start_sem \in Nat /\ end_sem \in Nat
        /\ count \in {0, 1} /\ mapped_size \in {0, 1} /\ bpf_sem \in Nat
        /\ bstep \in 0 .. MaxSteps
    BY DEF Init
  <2>3. /\ child = "trapped" /\ flag \in Flags /\ pc = "init" /\ rpc = "wait" /\ bpc = "poll"
        /\ bpage \in Pages \cup {None} /\ proc_mem_ch \in Seq(Pages) /\ touched \in SUBSET Pages
    BY <1>1 DEF Init, Flags
  <2> QED
    BY <1>2, <1>3, <1>4, <1>6, <1>7, <2>1, <2>2, <2>3 DEF TypeOK
<1>9. /\ child = "trapped" /\ flag = "START" /\ pc = "init" /\ step_id = 0 /\ mem_dirty
      /\ ~wait_reset /\ ~attached /\ ~stop /\ rpc = "wait" /\ start_sem = 0 /\ end_sem = 0
      /\ ~buffered /\ bpc = "poll" /\ count = 0 /\ mapped_size = 0 /\ bpf_sem = 0
      /\ proc_mem_ch = <<>> /\ ~armed /\ touched = {}
  BY DEF Init
<1>10. \A c \in Cpus : rings[c] = <<>> /\ DOMAIN rings[c] = {}
  BY <1>2
<1>11. Control
  BY <1>9, <1>10 DEF Control, Stopped, InStep, AtBreak, Hit
<1>12. Resets
  BY <1>9 DEF Resets, Tokens, InStep
<1>13. Signals
  <2>1. NoTrap
    BY <1>10 DEF NoTrap, TrapAt
  <2> QED
    BY <1>9, <2>1 DEF Signals, Stepping, Stepped, Hit, Stopped, InStep
<1>14. Mappings
  BY <1>9, <1>10, MappingsParts DEF EntryFirst
<1>15. Stored
  <2>1. Known = {}
    BY <1>4 DEF Known
  <2> QED
    BY <1>5, <1>9, <2>1 DEF Stored
<1>16. Order /\ InTime
  BY <1>9, <1>10 DEF Order, Quiet, Hit, InTime
<1>17. Announced
  BY <1>9 DEF Announced, NoFaultForgotten
<1>18. Protected
  BY <1>9 DEF Protected, InStep
<1>19. Recorded
  BY <1>9 DEF Recorded
<1> QED
  BY <1>8, <1>11, <1>12, <1>13, <1>14, <1>15, <1>16, <1>17, <1>18, <1>19
     DEF Exact, Ordered, Threads

\* The three invariants are inductive.
LEMMA ThreadsStep == Threads /\ [Next]_vars => Threads'
BY TypesStep, ControlStep, ResetsStep, SignalsStep DEF Threads

\* ... the second on one CPU, where events come in order,
LEMMA OrderedStep ==
    ASSUME OneCpu
    PROVE  Ordered /\ [Next]_vars => Ordered'
<1> SUFFICES ASSUME Ordered, [Next]_vars PROVE Ordered'
  OBVIOUS
<1>1. TypeOK /\ Control /\ Signals /\ Order /\ Announced /\ Mappings /\ InTime /\ Stored
  BY DEF Ordered, Threads
<1>2. Threads' /\ TypeOK'
  BY ThreadsStep DEF Ordered, Threads
<1> QED
  BY <1>1, <1>2, OrderStep, AnnouncedStep, MappingsStep, InTimeStep, StoredStep
     DEF Ordered

\* ... the third when besides the kernel writes nothing itself.
LEMMA ExactStep ==
    ASSUME OneCpu, ~KernelWrites
    PROVE  Exact /\ [Next]_vars => Exact'
BY OrderedStep, ProtectedStep, RecordedStep DEF Exact, Ordered, Threads

\* They hold.
LEMMA ThreadsHold == Spec => []Threads
<1>1. Init => Threads
  BY InitExact DEF Exact, Ordered
<1> QED
  BY <1>1, ThreadsStep, PTL DEF Spec

\* ... the second on one CPU,
LEMMA OrderedHolds ==
    ASSUME OneCpu
    PROVE  Spec => []Ordered
<1>1. Init => Ordered
  BY InitExact DEF Exact
<1>2. Ordered /\ [Next]_vars => Ordered'
  BY OrderedStep
<1> QED
  BY <1>1, <1>2, PTL DEF Spec

\* ... the third without writes of the kernel.
LEMMA ExactHolds ==
    ASSUME OneCpu, ~KernelWrites
    PROVE  Spec => []Exact
<1>1. Exact /\ [Next]_vars => Exact'
  BY ExactStep
<1> QED
  BY <1>1, InitExact, PTL DEF Spec

\* Type correctness of the recording loop, its threads and the child: no counter
\* goes below zero and no step has a number that was not asked for.
THEOREM RecorderTypes == Spec => []TypeOK
<1>1. Threads => TypeOK
  BY DEF Threads
<1> QED
  BY <1>1, ThreadsHold, PTL

\* The semaphores of run.c are gates for any number of CPUs: at most one token in
\* start_sem and end_sem, and one in bpf_sem only while the child is stopped at a
\* breakpoint that the main thread has not begun to process.
THEOREM GatesHold == Spec => []SemaphoresAreGates
<1>1. ASSUME Threads
      PROVE  SemaphoresAreGates
  <2>1. start_sem \in Nat /\ end_sem \in Nat /\ bpf_sem \in Nat /\ start_sem + end_sem <= 1
    BY <1>1 DEF Threads, TypeOK, Resets, Tokens
  <2>2. bpf_sem = 0 \/ (bpf_sem = 1 /\ Hit)
    BY <1>1 DEF Threads, TypeOK, Signals, Stepping, Stepped, Hit, Stopped, InStep
  <2>3. Hit => pc \in {"wait", "semwait"} /\ child # "running"
    BY <1>1 DEF Threads, Control, Hit
  <2> QED
    BY <2>1, <2>2, <2>3 DEF SemaphoresAreGates
<1> QED
  BY <1>1, ThreadsHold, PTL

\* While the child stays on one CPU, sem_wait(&bpf_sem) does what run.c:223 says
\* it does: inside a breakpoint the callback has nothing left to do.
THEOREM BreakpointIsQuiet ==
    ASSUME OneCpu
    PROVE  Spec => []CallbackIsQuiet
<1>1. Ordered => CallbackIsQuiet
  <2> SUFFICES ASSUME Ordered, InsideBreakpoint
               PROVE  bpc = "poll" /\ \A c \in Cpus : rings[c] = <<>>
    BY DEF CallbackIsQuiet
  <2> QED
    BY DEF Ordered, Order, Quiet, Stopped, InStep, InsideBreakpoint
<1>2. Spec => []Ordered
  BY OrderedHolds
<1> QED
  BY <1>1, <1>2, PTL

\* Then a fault address in proc_mem_ch is never without its mem_dirty: the main
\* thread's clearing of the flag cannot overtake the callback.
THEOREM FaultsAreAnnounced ==
    ASSUME OneCpu
    PROVE  Spec => []NoFaultForgotten
<1>1. Ordered => NoFaultForgotten
  BY DEF Ordered, Announced
<1>2. Spec => []Ordered
  BY OrderedHolds
<1> QED
  BY <1>1, <1>2, PTL

\* Then every page the child maps gets into the region cache, or the callback is
\* about to put it there: the size that MMAPENTRY announces is known when the
\* MMAPEXIT of the same call is handled, as run.c:657 assumes.
THEOREM MappingsAreFollowed ==
    ASSUME OneCpu
    PROVE  Spec => []NoMappingForgotten
<1>1. Ordered => NoMappingForgotten
  BY DEF Ordered, Mappings
<1>2. Spec => []Ordered
  BY OrderedHolds
<1> QED
  BY <1>1, <1>2, PTL

\* Then no row of table mem that belongs to an earlier or a later step is written,
\* by process_page() in the main thread or by cache_add_region() in the callback,
\* whose step was read when it was called: until its rows are written the main
\* thread cannot begin another step, because it waits for the SIGTRAP event that
\* comes after them.
THEOREM HistoryIsFrozen ==
    ASSUME OneCpu
    PROVE  Spec => PastIsFrozen
<1> DEFINE Frozen == \A p \in Pages, s \in Steps :
                        log'[p][s] # log[p][s] => s = IF step_id = 0 THEN 1 ELSE step_id
<1>1. ASSUME Ordered, [Next]_vars
      PROVE  [Frozen]_vars
  <2> USE DEF environment, main, resetter, poller, shared
  <2>1. TypeOK /\ Control /\ InTime
    BY <1>1 DEF Ordered, Threads
  <2>2. CASE UNCHANGED log
    BY <2>2
  <2>3. CASE InitCache
    <3>1. step_id = 0 /\ Written(mapped, 1)
      BY <2>1, <2>3, InitWrites DEF InitCache, Control
    <3> QED
      BY <2>1, <3>1 DEF Written, TypeOK
  <2>4. CASE DrainPage
    <3>1. step_id # 0 /\ Head(proc_mem_ch) \in Pages /\ ProcessPage(Head(proc_mem_ch))
      BY <2>1, <2>4 DEF DrainPage, Control, TypeOK
    <3>2. PICK q \in Pages : q = Head(proc_mem_ch) /\ ProcessPage(q)
      BY <3>1
    <3> QED
      BY <2>1, <3>1, <3>2 DEF ProcessPage, TypeOK
  <2>5. CASE RegionStored
    <3>1. step_id # 0 /\ bpage \in Pages /\ bstep = step_id
      BY <2>1, <2>5 DEF RegionStored, Control, InTime, TypeOK
    <3>2. log' = [log EXCEPT ![bpage] = [log[bpage] EXCEPT ![step_id] = cache[bpage]]]
      BY <2>1, <2>5, <3>1, RegionRow
    <3> QED
      BY <2>1, <3>1, <3>2 DEF TypeOK
  <2>6. CASE Child \/ Resetter \/ Over \/ UNCHANGED vars
    <3>1. UNCHANGED log
      BY <2>6 DEF Child, ChildWrites, KernelWritesPage, ChildCallsMmap, ChildMaps,
         ChildMigrates, ChildTraps, ChildEnds, ChildSteps, ChildCrashesInStep, Resetter,
         ResetRewind, ResetWrite, Over, vars
    <3> QED
      BY <2>2, <3>1
  <2>7. CASE Main /\ ~InitCache /\ ~DrainPage
    <3>1. UNCHANGED log
      BY <2>7 DEF Main, BeginStep, FindLine, DrainDone, ClearDirty, StoreStep, AwaitReset,
         SingleStep, StepDone, StepFails, BpfStart, Continue, WaitTrap, AwaitCallback,
         WaitEnd
    <3> QED
      BY <2>2, <3>1
  <2>8. CASE Poller /\ ~RegionStored
    <3>1. UNCHANGED log
      BY <2>8 DEF Poller, OnStopped, OnTrap, OnPageFault, OnMmapEntry, OnMmapExit,
         SetDirty, RegionCopied
    <3> QED
      BY <2>2, <3>1
  <2> QED
    BY <1>1, <2>3, <2>4, <2>5, <2>6, <2>7, <2>8 DEF Next
<1>2. Spec => []Ordered
  BY OrderedHolds
<1> QED
  BY <1>1, <1>2, PTL DEF Spec, PastIsFrozen

\* When also no system call writes the child's memory, every page is protected
\* when the child is let go, from the second step on.
THEOREM PagesAreCleared ==
    ASSUME OneCpu, ~KernelWrites
    PROVE  Spec => []PagesClearedAfterFirstStep
<1>1. ASSUME Exact
      PROVE  PagesClearedAfterFirstStep
  <2> SUFFICES ASSUME pc = "step", step_id > 1
               PROVE  mapped \subseteq prot
    BY DEF PagesClearedAfterFirstStep
  <2>1. TypeOK /\ Resets /\ Protected
    BY <1>1 DEF Exact, Ordered, Threads
  <2>2. start_sem = 0
    BY <2>1 DEF Resets, Tokens, InStep, TypeOK
  <2> QED
    BY <2>1, <2>2 DEF Protected, InStep, TypeOK
<1>2. Spec => []Exact
  BY ExactHolds
<1> QED
  BY <1>1, <1>2, PTL

\* The point of the recorder, under the same conditions: at every stored step that
\* is not the first line of a function, what the database replays for a page that
\* the child's code has written is the child's memory.
THEOREM RecordingIsExact ==
    ASSUME OneCpu, ~KernelWrites
    PROVE  Spec => []RecordedMemoryExact
<1>1. ASSUME Exact
      PROVE  RecordedMemoryExact
  <2> SUFFICES ASSUME pc \in {"stored", "step"}, flag # "START", NEW p \in touched
               PROVE  Replay(p, step_id) = mem[p]
    BY DEF RecordedMemoryExact, AtStoredStep
  <2>1. TypeOK /\ Control /\ Mappings /\ Stored /\ Order /\ Announced /\ Protected /\ Recorded
    BY <1>1 DEF Exact, Ordered, Threads
  <2>2. Quiet /\ proc_mem_ch = <<>> /\ child = "trapped" /\ ~stop
    BY <2>1 DEF Order, Announced, Control, Stopped, InStep, TypeOK
  <2>3. \A e : ~InRing(e)
    <3>1. \A c \in Cpus : DOMAIN rings[c] = {}
      BY <2>2 DEF Quiet
    <3> QED
      BY <3>1 DEF InRing
  <2>4. ~Waiting(p)
    BY <2>2, <2>3 DEF Waiting
  <2>5. p \in mapped /\ p \in Known
    <3>1. p \in mapped
      BY <2>1 DEF Protected
    <3>2. ~Pending(p)
      BY <2>2, <2>3 DEF Pending, Quiet
    <3> QED
      BY <2>1, <2>2, <3>1, <3>2, MappingsParts
  <2>6. cache[p] = mem[p]
    BY <2>1, <2>2, <2>4, <2>5 DEF Recorded
  <2>7. Replay(p, Now) = cache[p]
    BY <2>1, <2>2, <2>5 DEF Stored, AboutToStore, Quiet
  <2>8. Now = step_id
    BY <2>1 DEF Control, Now, TypeOK
  <2> QED
    BY <2>6, <2>7, <2>8
<1>2. Spec => []Exact
  BY ExactHolds
<1> QED
  BY <1>1, <1>2, PTL

=============================================================================
