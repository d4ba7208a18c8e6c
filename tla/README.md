# Flight recorder: a verification project

TLA+ models of [flightrec](../src/README.md), which records the execution of a
C program (`fr_record`) and lets an IDE move over the recording in both
directions (`fr_examine`). Source paths below are relative to `src/`.

## 1. The system

### Record

`record()` (record/run.c) forks the program to be recorded (the *child*), puts a
breakpoint on every source line and runs it under ptrace. The work is shared by
several threads:

| part | state it keeps | operations | talks to |
|---|---|---|---|
| main loop, run.c | `step_id`, `mem_dirty`, depth, line cache | `process_breakpoint()` at every stop | all of the others |
| reset thread, reset_dirty.c | two semaphores, a stdio stream on `/proc/<pid>/clear_refs` | trigger, wait | main loop |
| polling thread, bpf.c, and `bpf_callback()` in run.c | one perf ring per CPU, statics of the callback | events: page fault, mmap, munmap, brk, signal | `bpf_sem`, `proc_mem_ch`, region cache |
| region cache, memcache.c | sorted array of regions with a copy of their contents | `init_cache`, `cache_add_region`, `find_page`, `process_page`, `proc_dirty_mem` | used by the main loop *and* by the callback, without a lock |
| channels, channel.c | linked list, mutex, semaphore | `ch_write`, `ch_read`, `ch_finish`, `ch_destroy` | every pair of threads |
| three database workers, db_workers.c | a transaction, a row counter | insert, commit every `COMMIT_FREQ` rows, copy to the main database | channels, main database |
| heap interception, preload.c (in the child) | a FIFO that does not block | an event per `malloc`/`free` | main loop, which stamps the events with the step |
| debug information, dbginfo.c, db.c | tables of the database | collect the units, then derive scopes, function marks and types | database, line cache |
| line cache, run.c | array of units and their lines, the unit found last | `set_breakpoints()` once, `lookup_cache()` at every stop | main loop |

A page that is written by the child after `clear_refs` was written faults; the
BPF program reports the fault; the callback puts the address in `proc_mem_ch`
and sets `mem_dirty`; the main loop, at the next source line, compares that page
with its copy and stores what has changed with the number of the step.

### Examine

`fr_examine` is single-threaded. It opens a recording and answers DAP requests:
`initialize`, `launch`, `setBreakpoints`, movements (`next`, `stepIn`, `stepOut`,
`stepBack`, `continue`, `reverseContinue`), and inspection (`stackTrace`,
`scopes`, `variables`, `evaluate`). Its state is the current position, the table
of breakpoints, prepared cursors, a list of frames that outlives requests and
even sessions, a table of references to values the IDE may expand (`local.ref`)
and a table of expressions (`local.expr`).

### What is hard here

* four threads and a child process share the state of one stop, with semaphores
  as gates and no lock around the region cache;
* events arrive asynchronously, one ring per CPU;
* the reset of the pages goes through a buffered stream;
* the shutdown: messages that are still written while channels are finished,
  joined and destroyed, workers that have failed long ago;
* guesses about the debug information (is a high address an offset? in which
  order do types come?) and a search that divides by what is left of a unit;
* heap events that are lost or never sent, and a recording that has to stay
  truthful about everything else;
* in Examine, state that is left over by earlier requests, and movements that
  are SQL queries over depths where the user thinks of calls.

PROJECT.json lists these as hazards, each with its line.

## 2. Modules

| module | models | kind |
|---|---|---|
| `Fifo` | what a channel promises: each message once, in order | abstract specification |
| `Channel` | channel.c: list nodes, head and tail, mutex, semaphore; one action per access to shared state | component, implements `Fifo` |
| `ChannelProofs` | theorems about `Channel` | TLAPS |
| `Recorder` | the recording loop, the reset thread, the polling thread, on top of a child, a kernel and BPF programs that may do anything they can | composition |
| `RecorderProofs` | theorems about `Recorder` | TLAPS |
| `Regions` | memcache.c with its array of regions, and the mmap, munmap and brk events | component |
| `RegionsProofs` | theorems about `Regions` | TLAPS |
| `DbWorkers` | the workers and the end of `record()`, with a callback that is still running | composition |
| `DbWorkersProofs` | theorems about `DbWorkers` | TLAPS |
| `Globals` | `unit_count`, shared by dbginfo.c and run.c | |
| `LineCache` | `set_breakpoints()` and `lookup_cache()`, one step per iteration | component |
| `Symbols` | dbginfo.c, and `alter_db()` of db.c | component |
| `Startup` | collection, breakpoints and lookups of one recording | composition of `Symbols` and `LineCache` |
| `StartupProofs` | theorems about `Startup`: the line cache, the scopes, the function marks and the types | TLAPS |
| `Examine` | the debug server: position, breakpoints, frames | component |
| `ExamineProofs` | theorems about `Examine` | TLAPS |
| `InductionFacts` | induction on natural numbers, for `ExamineProofs`, `RegionsProofs`, `StartupProofs` and `HeapProofs` | TLAPS |
| `Heap` | the allocation functions, the FIFO, the rows of table `heap`, `get_pointer_size()` | component |
| `Vars` | a recording of a small program, then vars.c and the variables request | composition with `Heap` |
| `HeapProofs` | theorems about `Heap`, and that `Vars` implements it | TLAPS |
| `Expressions` | the evaluate request: types of the grammar, evaluation, cache | composition with `Vars` |
| `MC*` | instances for TLC | |

**Channel.** `sem`, `mutex`, `head`, `tail`, `next` are the fields of
`struct channel` and `struct message`; nodes are numbered in the order they are
allocated. A writer is at `idle`, `link`, `settail`, `unlock` or `post` of
`ch_write()`, the reader at the corresponding places of `ch_read()`. `flag` is
the reader's argument: a worker blocks and leaves its loop for good,
`proc_dirty_mem()` drains and comes back.

**Recorder.** A behaviour starts at the first breakpoint. `pc` is the place of
the main loop in `record()` and `process_breakpoint()`, `rpc` and `bpc` those of
the reset and of the polling thread. `prot` is the set of pages whose next write
faults; `buffered` is the byte that `fwrite()` has left in the stream; `rings`
holds undelivered events per CPU. A page is one memory segment and `log` is the
table of memory rows. `armed` and `touched` are history: the pages the child's
code has written since `clear_refs` was written for the first time. `mmap()` is two
tracepoints, and the child may change its CPU between them; `cache_add_region()` is
three steps, its argument `step_id` (`bstep`) taken when the event is delivered, the
copy of the region, and its rows.

**Regions.** Addresses are numbers, so that the binary search and the division
into pages are the real ones. `init_cache()` adds a region per line of
`/proc/<pid>/maps` before the first step; an iteration of `find_page()`'s loop is
`Narrow`, on a record of its variables. Events are handled when they happen (Recorder
has the asynchrony). Mappings are readable and are whole pages: a `PROT_NONE`
mapping, or a length that is no multiple of the page size, is not modelled.

**DbWorkers.** Messages are indistinguishable rows; a worker counts the rows of
its open transaction (`pending`), of its own file (`committed`) and of the main
database (`stored`). `Fail` is any database error.

**Examine.** A recording is a sequence of statements; the depth of a step is
computed the way `process_breakpoint()` does it. One request is one action.
`listed` and `asked` are what the IDE knows, `located` is the step whose registers
give the addresses of the variables that were listed last. `CallsOf` is the call
stack the depths stand for, and serves as the reference in the properties.

**LineCache.** Indices count from 0, as in the code. `instr_cache` is the filled
prefix of the array; the entries behind it, up to `unit_count`, hold what
`malloc()` returned (`Garbage`), and using one as a unit is `pc = "crashed"`, as
is a division by zero or an index outside the lines. `WORD` stands for 2^64.

**Symbols.** A program is a sequence of units with a line table and entries in
the order they are stored. `proc_symbols()` recurses into functions and blocks
only, so the recursion is a position and a stack of scopes; each handler is an
action of the same name. `alter_db()` is one action per group of SQL statements;
an `UPDATE` that reads the table it changes goes over the rows in order, each
row seeing the new values of earlier ones. `Startup` feeds the statements to
`LineCache`. What the program really is (`TrueScopes`) is stated from the
entries alone.

**Heap, Vars, Expressions.** The child calls the allocator and stores to memory
between steps; every step reads the FIFO and stores the segments that differ from
the copy in the region cache (`copy`), but on the first line of a function nothing is
stored (run.c:533), and the memory of the heap is stored when it is mapped. `blurred` is history: the blocks about which events were lost or never
sent. After the last step the recording is examined: any step can be the current
one, and `shown` is the answer to the last request. A word is two cells of three
bits, a segment two cells, so that values cross segments and differences wrap.
The answers that should be given (`want`) are computed from the memory and the
heap the program had at the step (`mems`, `lives`; `Settled` is the step whose memory
the first line of a function has), and for expressions by `Denote`, the meaning in C.
Which variables a frame has (`Visible`) is stated from the scopes and lines alone, not
from the query. Where a variable is comes from one place for both
(`get_var_address`): DWARF locations are taken as they are.

## 3. Runs

Passing runs (all exhaustive):

| run | bounds | shows |
|---|---|---|
| `channel` | 2 writers, 3 data messages of 2 sizes, both ways of reading | no NULL or freed node is dereferenced; the semaphore is exact; the channel implements `Fifo`; every message is read in the end; `ChannelInv` holds |
| `recorder_memory` | 1 CPU, a page mapped from the start and one mapped later, 4 steps | the recorded memory equals the memory of the child at every step that processes dirty pages; pages are cleared from the second step on; no fault or mapping is forgotten; no row of an earlier step is written |
| `recorder_threads` | 2 CPUs, system calls that write memory, 4 steps | the semaphores are gates; the recording ends |
| `regions` | 6 pages of 2 addresses, 3 steps, 1 fault per step, no address used twice | `find_page()` is exact; known memory is exact; rows are unique; only the first `brk()` can be lost |
| `workers` | batches of 2, up to 3 rows per channel and one more segment of the callback, failures | success means complete; one writer of the main database; `record()` returns |
| `startup` | 385 programs (nested blocks, offsets and ranges, units inside units, units without statements, chains of types in any order, entries that end the collection) in 3 images, failures at any point | scopes and function marks are those of the program; types are resolved; breakpoints are where they should be; `lookup_cache()` is exact and returns |
| `variables` | 2 blocks, sizes of one and two nodes, a FIFO of 2 events, 3 steps in 3 nested or separate scopes, 3 heap calls and answers together, 7 expressions | the variables listed are those in scope; pointers, variables, fields, items and expressions are shown as they were at the step, in every frame; references keep their place |
| `examine_move` | every execution of up to 5 steps of a program with two functions (recursion and crashes included), 5 breakpoint requests | position, `stepOut`, breakpoints in both directions |
| `examine_frames` | 3 recordings, several sessions, 3 stack requests, 3 frame ids | the frames the IDE knows are those of active calls, whatever is left in the list |

Why the bounds suffice. *Channel*: three messages are one that is being linked,
one in the list and one being unlinked; the proofs cover the rest. *Recorder*:
pages are cleared for the first time at step 2, a write can be deferred by a
function's first line at step 3 and must be in the recording at step 4.
*Regions*: a page that is recorded, changed back and recorded again takes three
steps. *Workers*: three rows make one full batch and a rest. *Examine*: five
steps hold a call inside a call, or two visits of a line. *Startup*: units of
one, two and more addresses, adjacent, nested and empty, are enough for every
path of both searches; the proof covers the rest. *Variables*: losing an event
takes a third call before a step, reusing an address an allocation, a release
and an allocation; a reference that has moved takes two answers and a movement.
`MaxWork` bounds calls and answers together: three calls leave no answer (and
are what `PointerVerdictExact` needs), one call leaves two. Two of the three steps
are first lines, so that a change is stored late; a name has up to three meanings in
nested scopes; `next` is a field and a local variable of the scope whose number is
the reference of a node, so that the two meet in one row of `local.ref`.

Runs that show a disagreement (each checks one property a comment or the schema
states; see "findings" in PROJECT.json):

| run | statement | what happens |
|---|---|---|
| `recorder_reset` | run.c:588 "all references for all pages must be cleared" | the byte stays in the stdio buffer: the first reset does nothing |
| `workers_late` | run.c:664 "ignore events coming after child stop" | a callback that has passed the test writes to a destroyed channel |
| `examine_siblings` | requests.c:736 "StepBack jumps over function calls" | it steps back into the call before the current one |

More counterexamples are hazards without a run of their own. With two CPUs
(`MCRecorder_threads.cfg` with `CallbackIsQuiet`) the SIGTRAP event overtakes
faults of the other ring, against run.c:223 "wait until BPF callback finishes
processing". For the same reason `PastIsFrozen` fails there: the main thread is let
go while the callback is between taking `step_id` and writing the rows of a region,
and the rows get the number of a step that is over. And `NoMappingForgotten` fails: a
child that changes its CPU inside `mmap()` has its MMAPEXIT delivered before its
MMAPENTRY, against run.c:657, and the region is added with size 0. (Give
`MCRecorder_memory.cfg` the two CPUs of the other file.) With `Reuse = TRUE` in `MCRegions.cfg` a region that is unmapped and
mapped again within a step is stored twice, against the unique index of
db_workers.c:386, and the recording fails.

Premises of the properties of `startup`, each with programs of the run on either
side. `Regular`: a high address that is an offset is below the low address, and
ranges are one interval. This leaves out functions that are longer than their own
load address (an offset larger than the low address is taken for an address), which
a position independent executable linked from 0 can have, and functions and blocks
in several ranges, which an optimising compiler makes (`.cold` parts, inlined
blocks); nothing is claimed of the scopes of such a program.
`Backward`: a derived type comes after the type it refers to (else sizes and
kinds stay unresolved). `Searchable`: every unit counted has statements, units do
not overlap, and each has statements at two addresses at least (else the search
may read uninitialised entries or divide by zero). `Placed`: the executable
mapping starts at the load address. The byte kept with a line is not the
original one where two statements share an address.

Left open by the properties of `variables`, because the code answers otherwise.

*Memory.* On the first line of a function the memory shown is that of the last step
before it that is not one: arguments and whatever the caller has just written come
with the next step. What is in memory that was not mapped at that step is not claimed.

*Pointers.* A block after a `realloc()` that moves or releases it, or after a lost
event, until its next allocation; two allocations of one address in a step (either
row may be found); pointers to memory that was never allocated, where
`get_pointer_size()` looks for a segment that starts at or up to a segment after the
address.

*Lists.* Every variable in scope is claimed to be listed, not how often: the join of
variables with the ancestors of the scope (requests.c:1289) lists a variable of a
nested block once per ancestor. Hidden variables are listed as well.

*References.* A row of `local.ref` is found by the type of its parent, the number of
the parent and the name. Fields and items are entered with the type of a scope and
the number of a reference (vars.c:344, 414), so field `next` of reference 1 and the
local variable `next` of scope 1 share a row; so do a variable and the one it hides,
and an expression evaluated in two frames. When both are listed at one stop, the row
holds the address of the later one, and expanding the earlier one shows the wrong
children. The run reaches this; `ShownExact` claims the place of a reference, and its
expansion, only as long as its row was given out for one thing (`Leads`). Without
that condition TLC finds the collision after two answers.

*Expressions.* Names that are visible in several scopes: `get_var_details()` orders
the candidates by the distance of their type (expression.c:949), not by scope, so the
hidden variable may be taken. Pointers to something smaller than a word, of which
`var_value()` reads as many bytes as the thing pointed to has (expression.c:673), so
that `char *s` evaluates to its lowest byte. Variables that are not declared yet on
the line (they have a value), variables of a named type (refused, "Unsupported
type"), arrays and unions as values; pointer arithmetic (`pointer - integer` and
`pointer - pointer` are refused, expression.c:352); results outside a signed word;
bit operators on signed operands, answered with "internal error". The run has hidden
names, `s` and a named type in scope.

An evaluated variable has its value at the step of the frame, a listed one at the
current step: these are the same unless the memory was written below the frame.
`add_var()` says of its argument "step to get var value for" (vars.c:133), but it is
used for the address only; so `LocalsOfFrameNoRecursion` of `examine_frames` is about
the frame that is looked up, whose step gives the addresses, and claims nothing about
values.

Assumptions of `recorder_memory` that matter: with two CPUs, or with system
calls that write the child's memory (no `page_fault_user` event is generated for
them), `RecordedMemoryExact` does not hold. Memory written before the first
effective reset is not in `touched`.

All runs and theorems of `Recorder` assume rings that lose nothing. The code opens
rings of 256 pages (bpf.c:152), and when one is full events are lost with a warning
(`lost_event`, bpf.c:303): a lost page fault is a change that is not recorded, a lost
SIGTRAP leaves the main thread in `sem_wait()` (run.c:224) for ever, so that
`RecordingEnds` does not hold without this premise. Also left out: a failing
`fwrite()` in the reset thread (reset_dirty.c:147), which ends the thread, after
which the main thread waits for it for ever; `mmap()` calls that fail; and a child
that is killed in a system call.

In Examine the following are modelled and
do not satisfy the obvious stronger property, so the properties are stated
around them: after a crash inside a function `set_last_step()` gives depth 1;
with recursion the variables of all frames come from the innermost one; a stack
trace limited to fewer levels than there are frames is answered with an error; a
`setBreakpoints` that names a line twice makes the next one fail.

### Fairness

Liveness assumes only that the kernel schedules threads. `Channel`: weak
fairness for threads inside the channel, strong fairness for taking the mutex
(other threads may hold it whenever one looks; glibc's mutex does not starve a
waiter for ever in practice), and that the owner comes to `ch_finish()` and
`ch_destroy()`. `Recorder`: weak fairness of each thread and of the child, whose
system calls end and which reaches another breakpoint or ends. `DbWorkers`: weak fairness of the workers'
own steps (a failure is never forced) and of the main thread, and the child
ends. `Startup`: weak fairness of the search, a loop that waits for nothing.
`Examine` and `Expressions` have no liveness: they wait for an IDE that may stay silent.

## 4. Proofs

`ChannelProofs` proves, for any finite set of writers, any messages and any
number of them:

* `ChannelInvariant`: `Spec => []ChannelInv`;
* `ChannelTypes`, `SemaphoreIsExact`, `DereferencesAreSafe`: type correctness,
  `SemaphoreExact` and `NoBadDereference`;
* `ChannelImplementsFifo`: `Spec => Abstract!Spec`, every step of the list is a
  step of the queue or a stutter.

Assumptions: `ThreadAssumption` (the writers are a finite set, the reader is not
one of them) and `DataAssumption` (payloads are not NULL, sizes are not 0).

The argument. `NoBadDereference` is not inductive: that `head` is not NULL when
the reader is about to unlink depends on the semaphore, whose value depends on
how many writers have linked and not posted. `ChannelInv` has (1) who holds the
mutex is in its critical section, (2) the shape of the list, with the two
half-way states in which `tail` lags behind (`HalfLinked`, and the reader at
`fixtail`), (3) `sem + LetIn + |Unposted| = Linked`, and the bookkeeping of
allocation and destruction. Each action has a lemma; the counting steps rest on
`UnpostedGrows` and `UnpostedShrinks` (cardinalities of a set of writers). For
the refinement the log is the array of allocated nodes and `taken` is derived
from `head`.

`StartupProofs` proves `LookupIsExact`: `LineSpec => []LookupExact` for any
tables, unit counts and images. Its only assumption, `Typed`, is that addresses
and counts are natural numbers; what a table must be like (`Searchable`) is part
of the property.

The argument. `LookupExact` says nothing about a search that is under way, so
`Inv` has `Cache`, what `set_breakpoints()` has built so far: entries sorted by
their first address, each with exactly the lines of its unit in address order,
the rest of a unit above what is there; and `Bracket`, that the interval of the
running search holds the address: between the entries of the units, and then
between the lines, where the first and the last address of the interval differ.
That last part is what rules the division by zero out: `DivBounds` and
`Interpolation` show that the interpolated index is inside the interval and is
one of its ends exactly when the address is the one there, so that an interval
is never narrowed to a single line without having hit it.

It also proves `BreakpointsArePlaced`: `LineSpec => []BreakpointsPlaced`
(assumption `TypedImages`: an image's addresses are natural numbers). `PlaceInv`
adds to `Inv` where the child's code is (`Mapping`), that a search reads and
returns entries inside the arrays (`Within`), and `Bytes`: INT 3 is exactly where
a statement was fetched so far, and the byte kept with a line is the original one
unless two statements share the address.

Of the debug information it proves, for every program, `TypesAreResolved`
(`TypesResolved`), `ScopesAreExact` (`ScopesExact`) and `FlagsAreExact`
(`FlagsExact`). Their premises `Backward` and `Regular` are those of the run;
that they can fail is in section 3.

*Types.* An `UPDATE` of `alter_db()` reads the table it changes. `PassResult` is an
induction over the rows: a row gets what it takes from the row of its parent, with
the new value where that row comes first. As parents come first, one pass resolves
a chain of any length: the least row without a size would have a parent without a
size in front of it, and there is none. `TypesInv` says what `proc_symbols()` has
stored, each row from an entry of its own, and that `alter_db()` resolves it.
`ProgramsAssumption` is what DWARF says of single entries: the offset is the identity
of a type, pointers have a size, and qualified types, aliases and functions have none.

*Scopes.* `ScopesInv` says that the tables hold exactly the scopes and functions of
the entries passed so far (`ScopeTable`, `FunctionTable`), that `stack` has the
scopes around the current entry (`AtScope`), and what the statements have after each
statement of `alter_db()` (`Stage`), as long as nothing has failed. When the tables are complete, the scopes around an
address have different levels; so the deepest one is unique, all others are its
ancestors, and `ScopeChain` finds them because a parent is stored before its scope and
is one level less deep (`DeepestExact`). That scopes nest, that two of one level have
no address in common and that C functions do not nest is what DWARF says of the
output of a C compiler; it is the assumption `NestingAssumption`, only about programs
that are `Regular`, and TLC evaluates it for every program of the run.

*Marks.* As functions are apart, one function at most covers an address, so the
statements of a function are those with its id. Every group that is not empty has a
row of the highest address (`HighestRow`), and the first address is not in the group
because it is marked already.

`HeapProofs` proves, for any blocks, sizes, size of the FIFO and number of calls and
steps, `PointerVerdictsExact` (`HeapSpec => []PointerVerdictExact`);
`RecordingImplementsHeap` (`VarsSpec => HeapSpec`), that no store and no request of a
session disturbs the rows; and from both `RecordedVerdictsExact`, the same verdicts
in the recording that is examined. The verdicts alone are not inductive: the rows lag
behind the program by the events still in the FIFO, and a release closes every open row
of its address. `HeapInv` says of a block that is not in `blurred` that rows and pending
events together tell its state (`Told`): there is no row and no event; or its last
allocation is the one event of its address in the FIFO that allocates; or its latest
row is unique, and is closed or about to be closed exactly when the block was released.
The verdicts of earlier steps stay because a step adds rows and closes rows with its own
number only (`Evolves`). Assumption `HeapAssumption`: blocks are addresses other than
NULL, sizes are natural numbers.

`DbWorkersProofs` proves, for every batch size and number of rows, `WorkersTypes`,
`SuccessfulRecordingIsComplete` (`SuccessIsComplete`) and
`MainDatabaseHasOneWriter` (`OneWriter`). `WorkersInv` counts. Every row that is
due is in the channel in front of END, in the open transaction, or committed
(`Accounts`); a full batch is committed before the next row is read (`Batches`);
the workers before the one that is being finished are done (`Joined`).

`RecorderProofs` proves every safety property of `Recorder` but the one that a run
shows to be violated, for any pages, contents and number of steps. The invariant
has three layers:

| layer | premise | parts | theorems |
|---|---|---|---|
| `Threads` | none | where the child is for every place of the main loop (`Control`); one token between main loop and reset thread (`Resets`); two SIGTRAP events per stop, of which the callback answers one (`Signals`) | `RecorderTypes`, `GatesHold` |
| `Ordered` | `OneCpu` | the rings are empty while the child is stopped, and a SIGTRAP is the last event (`Order`); `Announced`; every MMAPEXIT is behind its MMAPENTRY (`Mappings`); the callback stores a region in the step it was called in (`InTime`); rows replay to the copy but for the region being stored (`Stored`) | `BreakpointIsQuiet`, `FaultsAreAnnounced`, `MappingsAreFollowed`, `HistoryIsFrozen` |
| `Exact` | `OneCpu`, `~KernelWrites` | the pages are protected (`Protected`); a page that differs from its copy has its fault under way (`Recorded`) | `PagesAreCleared`, `RecordingIsExact` |

The premises are those of the run `recorder_memory`. They are needed: events of
two rings are not ordered, and the faults the kernel takes in a system call are no
`page_fault_user` events; TLC has counterexamples without them.

`RegionsProofs` proves, for every memory map, page size, number of steps and of
faults, all five properties of `regions`: `RegionsTypes`, `SearchIsExact`,
`KnownMemoryIsExact`, `RowsAreUnique` and `HeapGrowthIsKnown`. Premise: `~Reuse`,
no address is mapped twice and the first `brk()` does not shrink the heap (with
`Reuse` regions overlap in the array, and TLC has counterexamples).
`RegionsInv` has the array in order and its regions apart (`Shape`), which rests on
what the child can map where: known heap pages lie below the boundary, known pages
were mapped once (`Layout`). From `Shape` alone comes the search: its interval holds
every region that has the address and shrinks with every iteration, so `reg_count`
iterations are enough (`NarrowStep`, `FindRegionExact`). `Stored` says that a page
has at most one row for a step and that the last row is the copy; `Pending` that a
written page whose copy is out of date has a fault in the channel, because between
two steps every page that is not protected has one. A row for the current step means that the copy is already
the memory, which is why no page is stored twice. Assumptions, both about the
initial map: it is in address order, as `/proc/<pid>/maps` is, and of the range of
the heap only the heap itself is mapped (`RegionsAssumption`, `HeapAssumption`).

`ExamineProofs` proves, for recordings of any length and depth, `ExamineTypes`,
`PositionsAreCoherent`, `FramesAreTheCallStack` (`ListedFramesExact`),
`LocalsAreOfTheFrame`, `StepOutEndsInTheCaller`, `ContinueStopsAtBreakpoints` and
`ReverseContinueIsUndone`. First the recording: the stored depth is the number of
active calls (`DepthIsCalls`); a step leaves at most the innermost call and enters
at most one (`StackStep`); outer calls stay (`KeptOver`); so grouping the steps by
depth gives the call stack (`FramesAre`). Then the server: `ExamineInv`, whose part
`ListedInOrder` says which nodes of the reused frame list the IDE was told of.

`InductionFacts` has what these proofs need of induction. The library's induction
theorems take a predicate, which the provers cannot instantiate; here a set of
naturals has a least element (`NatHasLeast`), so a claim about every iteration is a
set that holds 0 and every successor (`InductionUpTo`), and a function defined from
its previous value has that equation (`RecursionUpTo`).

Only model-checked:

* liveness (`LookupReturns`, `RecordingEnds` and the like): fairness is out of the
  prover's reach;
* `ShownExact` of `Vars` and `EvaluatedExact` of `Expressions`. A value is put together
  from memory rows along its type, and an expression along its tree, so both are
  inductions over data; `Expressions` also walks trees with RECURSIVE operators and
  uses `Bitwise`, which the prover does not take.

## 5. Not modelled

* `comms.c`: Content-Length framing of one message at a time on a blocking
  socket, without state between messages;
* `memdiff.c`: vector comparisons, taken as inequality;
* `dab.c`: a wrapper of SQLite, but for the error a cursor keeps (`Examine`);
* of vars.c: floating point, enumerations, pointers to functions, names of
  types, location lists with several entries;
* of the expressions: the scanner (`expr.l`), floating point, string constants;
* of record.c: command line, user ids, removal of old files;
* names and texts of debug information entries, and libdwarf itself;
* `stingray`, `jsonapi`, `tester`, the VS Code extension;
* failures of `malloc()` and of pthread calls, which the code only logs;
* multi-threaded children (README: not supported), `longjmp` (TODO in run.c).

## 6. State of the project

Proved: every safety property that a passing run checks, of `Channel`, `Recorder`,
`Regions`, `DbWorkers`, `LineCache`, `Symbols`, `Heap` and `Examine`; and that
`Channel` implements `Fifo` and `Vars` implements `Heap`. Left to TLC: liveness,
`ShownExact` and `EvaluatedExact`.

What could come next: scalar variables of `ShownExact`, where a value is a fixed number
of cells and no induction over the type is needed; location lists with several entries.

Two observations from the proofs, without a run. The size of an array (db.c:316
"calculate size for array") is only computed where its element type is stored after it:
otherwise the statement before, db.c:305, has already given the array the size of one
element, and `size = 0` no longer holds. `TypesResolved` therefore says nothing about
the sizes of arrays. And vars.c:608 says that
a parent reference has one of the types `PTYPE_XXX` of examine.h, but fields and items of
a value are entered with type 1, that of a scope, and the number of a reference (what
comes of it is in section 3).
