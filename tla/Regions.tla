------------------------------ MODULE Regions ------------------------------
(***************************************************************************)
(* The region cache of the recorder (record/memcache.c): the array of      *)
(* memory regions of the child, sorted by start address, with a copy of    *)
(* their contents, and the rows of table mem that come out of it.  The     *)
(* regions are those of /proc/<pid>/maps at the first breakpoint and the   *)
(* ones that mmap() and brk() add later; bpf_callback() ignores munmap().  *)
(*                                                                         *)
(* Module Recorder has the threads; here an event is handled when it       *)
(* happens and every step processes the dirty pages.  A page has one       *)
(* memory segment.  Mappings are readable and are whole pages.             *)
(***************************************************************************)
EXTENDS Integers, Sequences, FiniteSets, SequencesExt

CONSTANTS
    PAGE_SIZE,      \* addresses in a page
    InitialMap,     \* regions of the child at its first breakpoint
    HeapBase,       \* first page of the heap ...
    HeapTop,        \* ... and the page after the last one it may have
    MapPages,       \* pages the child may map with mmap()
    Values, Zero,   \* contents of a page
    Reuse,          \* may mmap() return pages that were unmapped before, and
                    \* may the first brk() shrink the heap?
    MaxSteps,       \* bound: steps of the recording
    MaxFaults       \* bound: faults between two steps

\* A region of the child: its first page and how many pages it has.
Extent == [page : Nat \ {0}, count : Nat \ {0}]
PagesOf(r) == r.page .. r.page + r.count - 1
None == "none"

ASSUME RegionsAssumption ==
    /\ PAGE_SIZE \in Nat \ {0}
    /\ InitialMap \in Seq(Extent)
    /\ \A i, j \in DOMAIN InitialMap :
          i < j => InitialMap[i].page + InitialMap[i].count <= InitialMap[j].page
    /\ HeapBase \in Nat \ {0} /\ HeapTop \in Nat /\ HeapBase <= HeapTop
    /\ MapPages \subseteq Nat \ {0} /\ IsFiniteSet(MapPages)
    /\ MapPages \cap (HeapBase .. HeapTop - 1) = {}
    /\ Zero \in Values /\ None \notin Values
    /\ Reuse \in BOOLEAN
    /\ MaxSteps \in Nat \ {0} /\ MaxFaults \in Nat

InitialPages == UNION {PagesOf(InitialMap[i]) : i \in DOMAIN InitialMap}

\* Of the range of the heap only the heap itself is mapped at the start.
IsHeapEnd(b) == InitialPages \cap (HeapBase .. HeapTop - 1) = HeapBase .. b - 1
ASSUME HeapAssumption == \E b \in HeapBase .. HeapTop : IsHeapEnd(b)

Pages == InitialPages \cup MapPages \cup HeapBase .. HeapTop - 1
Steps == 1 .. MaxSteps

VARIABLES
    \* the child
    mem,            \* the contents of its mapped pages
    brk,            \* the page after its heap
    prot,           \* pages whose next write faults
    used,           \* pages that were ever mapped
    \* the recorder
    pc,             \* "init", "run", "drain", "stored"
    step_id,
    proc_mem_ch,    \* addresses of faults
    cache,          \* the array of regions
    brk_boundary,   \* bpf_callback's static brk_boundary, as a page
    rows,           \* per page and step, the contents inserted in table mem
    \* history, read by no action
    written         \* pages the child has written since they were mapped

child == <<mem, brk, prot, used, written>>
vars == <<child, pc, step_id, proc_mem_ch, cache, brk_boundary, rows>>

Mapped == {p \in Pages : mem[p] # None}

-----------------------------------------------------------------------------
(* The array of regions.                                                    *)

\* struct region, with the copy of its pages.
Region(r, contents) ==
    [start |-> r.page * PAGE_SIZE, end |-> (r.page + r.count) * PAGE_SIZE,
     pages |-> [p \in PagesOf(r) |-> contents[p]]]

\* Mutant: the new region goes to the end of the array.
MutantInsertLast(c, reg) == Append(c, reg)

\* The new region goes before the first one that starts after it.
Insert(c, reg) ==
    LET index == CHOOSE i \in 0 .. Len(c) :
                   /\ \A j \in 1 .. i : c[j].start <= reg.start
                   /\ i < Len(c) => c[i + 1].start > reg.start
    IN  InsertAt(c, index + 1, reg)

\* Every segment of a new region is stored.
StoreAll(rs, ps, contents, s) ==
    [p \in Pages |-> IF p \in ps THEN [rs[p] EXCEPT ![s] = Append(@, contents[p])] ELSE rs[p]]

\* cache_add_region()
AddRegion(r, contents, s) ==
    /\ cache' = Insert(cache, Region(r, contents))
    /\ rows' = StoreAll(rows, PagesOf(r), contents, s)

\* One iteration of the binary search of find_page(), on its variables: the loop
\* ends when the interval is empty, or with a region that was found.
Narrow(s, address) ==
    LET index == (s.left + s.right) \div 2 IN
    IF s.left = s.right \/ s.found # 0 THEN s
    ELSE IF address < cache[index + 1].start THEN [s EXCEPT !.right = index]
    ELSE IF address >= cache[index + 1].end THEN [s EXCEPT !.left = index + 1]
    ELSE [s EXCEPT !.found = index + 1]

\* The region the address belongs to, or 0: every iteration makes the interval
\* smaller, so there are at most reg_count of them.
FindRegion(address) ==
    LET reg_count == Len(cache)
        after[m \in 0 .. reg_count] ==
            IF m = 0 THEN [left |-> 0, right |-> reg_count, found |-> 0]
            ELSE Narrow(after[m - 1], address)
    IN  after[reg_count].found

\* ... and the page inside region k.
FindPage(address, k) ==
    LET page_num == (address - cache[k].start) \div PAGE_SIZE
    IN  (cache[k].start + page_num * PAGE_SIZE) \div PAGE_SIZE

\* Mutant: the copy is not brought up to date.
MutantKeepCopy(k, p) ==
    /\ rows' = IF mem[p] # None /\ mem[p] # cache[k].pages[p]
               THEN [rows EXCEPT ![p][step_id] = Append(@, mem[p])] ELSE rows
    /\ UNCHANGED cache

\* Mutant: the result of process_vm_readv() is not looked at.
MutantReadUnchecked(k, p) ==
    IF mem[p] # cache[k].pages[p]
    THEN /\ cache' = [cache EXCEPT ![k].pages[p] = mem[p]]
         /\ rows' = [rows EXCEPT ![p][step_id] = Append(@, mem[p])]
    ELSE UNCHANGED <<cache, rows>>

\* process_page(): store page p if it differs from its copy in region k; a page
\* that is no longer mapped cannot be read.
ProcessPage(k, p) ==
    IF mem[p] # None /\ mem[p] # cache[k].pages[p]
    THEN /\ cache' = [cache EXCEPT ![k].pages[p] = mem[p]]
         /\ rows' = [rows EXCEPT ![p][step_id] = Append(@, mem[p])]
    ELSE UNCHANGED <<cache, rows>>

-----------------------------------------------------------------------------
(* The child stands at its first breakpoint; brk() has not been seen.       *)

Contents(ps) == [p \in Pages |-> IF p \in ps THEN Zero ELSE None]

Init ==
    /\ mem = Contents(InitialPages)
    /\ brk \in HeapBase .. HeapTop /\ IsHeapEnd(brk)
    /\ prot = InitialPages
    /\ used = InitialPages
    /\ written = {}
    /\ pc = "init"
    /\ step_id = 1
    /\ proc_mem_ch = <<>>
    /\ cache = <<>>
    /\ brk_boundary = 0
    /\ rows = [p \in Pages |-> [s \in Steps |-> <<>>]]

\* init_cache(): one line of /proc/<pid>/maps; the recorder goes on with the
\* first step when there are no more.
InitRegion ==
    /\ pc = "init"
    /\ Len(cache) < Len(InitialMap)
    /\ AddRegion(InitialMap[Len(cache) + 1], mem, 1)
    /\ UNCHANGED <<child, pc, step_id, proc_mem_ch, brk_boundary>>
InitDone ==
    /\ pc = "init"
    /\ Len(cache) = Len(InitialMap)
    /\ pc' = "run"
    /\ UNCHANGED <<child, step_id, proc_mem_ch, cache, brk_boundary, rows>>

-----------------------------------------------------------------------------
(* The child, with what bpf_callback() does for its system calls.           *)

\* A write; a protected page faults.
Write(address, v) ==
    LET p == address \div PAGE_SIZE IN
    /\ pc = "run"
    /\ p \in Mapped
    /\ p \in prot => Len(proc_mem_ch) < MaxFaults
    /\ mem' = [mem EXCEPT ![p] = v]
    /\ prot' = prot \ {p}
    /\ proc_mem_ch' = IF p \in prot THEN Append(proc_mem_ch, address) ELSE proc_mem_ch
    /\ written' = written \cup {p}
    /\ UNCHANGED <<brk, used, pc, step_id, cache, brk_boundary, rows>>

\* The pages ps appear, zero-filled, or disappear.
Appear(ps) ==
    /\ mem' = [p \in Pages |-> IF p \in ps THEN Zero ELSE mem[p]]
    /\ prot' = prot \cup ps
    /\ used' = used \cup ps
Disappear(ps) ==
    /\ mem' = [p \in Pages |-> IF p \in ps THEN None ELSE mem[p]]
    /\ prot' = prot \ ps
    /\ used' = used
    /\ written' = written \ ps

\* mmap(): MMAPENTRY has the size, MMAPEXIT the address.
Mmap(r) ==
    /\ pc = "run"
    /\ PagesOf(r) \subseteq MapPages
    /\ PagesOf(r) \cap (IF Reuse THEN Mapped ELSE used) = {}
    /\ Appear(PagesOf(r))
    /\ AddRegion(r, mem', step_id)
    /\ UNCHANGED <<brk, written, pc, step_id, proc_mem_ch, brk_boundary>>

\* munmap(): the region stays in the cache (run.c: "TODO: Remove memory region").
Munmap(r) ==
    /\ pc = "run"
    /\ PagesOf(r) \subseteq MapPages \cap Mapped
    /\ Disappear(PagesOf(r))
    /\ UNCHANGED <<brk, pc, step_id, proc_mem_ch, cache, brk_boundary, rows>>

\* Mutant: the boundary is left behind when the heap grows.
MutantOnBrk(b) ==
    IF brk_boundary = 0
    THEN brk_boundary' = b /\ UNCHANGED <<cache, rows>>
    ELSE IF b > brk_boundary
    THEN AddRegion([page |-> brk_boundary, count |-> b - brk_boundary], mem', step_id)
         /\ UNCHANGED brk_boundary
    ELSE UNCHANGED <<brk_boundary, cache, rows>>

\* Mutant: the boundary follows, the region is not added.
MutantOnBrkNoRegion(b) ==
    /\ brk_boundary' = IF b > brk_boundary THEN b ELSE brk_boundary
    /\ UNCHANGED <<cache, rows>>

\* BPF_EVT_BRK with the new end of the heap.
OnBrk(b) ==
    IF brk_boundary = 0
    THEN brk_boundary' = b /\ UNCHANGED <<cache, rows>>
    ELSE IF b > brk_boundary
    THEN /\ AddRegion([page |-> brk_boundary, count |-> b - brk_boundary], mem', step_id)
         /\ brk_boundary' = b
    ELSE UNCHANGED <<brk_boundary, cache, rows>>

\* brk(): the heap grows, or the child asks where it ends.
BrkGrows(b) ==
    /\ pc = "run"
    /\ b >= brk
    /\ brk' = b
    /\ Appear(brk .. b - 1)
    /\ OnBrk(b)
    /\ UNCHANGED <<written, pc, step_id, proc_mem_ch>>

\* ... or it shrinks.
BrkShrinks(b) ==
    /\ pc = "run"
    /\ b < brk
    /\ Reuse \/ brk_boundary # 0
    /\ brk' = b
    /\ Disappear(b .. brk - 1)
    /\ OnBrk(b)
    /\ UNCHANGED <<pc, step_id, proc_mem_ch>>

-----------------------------------------------------------------------------
(* The main loop.                                                           *)

\* A breakpoint: a new step, and all pages are protected again.
Step ==
    /\ pc = "run"
    /\ step_id < MaxSteps
    /\ step_id' = step_id + 1
    /\ prot' = Mapped
    /\ pc' = "drain"
    /\ UNCHANGED <<mem, brk, used, written, proc_mem_ch, cache, brk_boundary, rows>>

\* proc_dirty_mem(): one address, in a known region or not.
DrainPage ==
    /\ pc = "drain"
    /\ proc_mem_ch # <<>>
    /\ LET address == Head(proc_mem_ch)
           k == FindRegion(address)
       IN  IF k # 0 THEN ProcessPage(k, FindPage(address, k))
                    ELSE UNCHANGED <<cache, rows>>
    /\ proc_mem_ch' = Tail(proc_mem_ch)
    /\ UNCHANGED <<child, pc, step_id, brk_boundary>>

DrainDone ==
    /\ pc = "drain"
    /\ proc_mem_ch = <<>>
    /\ pc' = "stored"
    /\ UNCHANGED <<child, step_id, proc_mem_ch, cache, brk_boundary, rows>>

Resume ==
    /\ pc = "stored"
    /\ pc' = "run"
    /\ UNCHANGED <<child, step_id, proc_mem_ch, cache, brk_boundary, rows>>

-----------------------------------------------------------------------------
Addresses == UNION {p * PAGE_SIZE .. p * PAGE_SIZE + PAGE_SIZE - 1 : p \in Pages}
Extents == {[page |-> p, count |-> n] : p \in MapPages, n \in 1 .. Cardinality(MapPages)}

SystemCall ==
    \/ \E r \in Extents : Mmap(r) \/ Munmap(r)
    \/ \E b \in HeapBase .. HeapTop : BrkGrows(b) \/ BrkShrinks(b)

Next ==
    \/ InitRegion \/ InitDone
    \/ \E a \in Addresses, v \in Values : Write(a, v)
    \/ SystemCall
    \/ Step \/ DrainPage \/ DrainDone \/ Resume

Spec == Init /\ [][Next]_vars

-----------------------------------------------------------------------------
TypeOK ==
    /\ mem \in [Pages -> Values \cup {None}]
    /\ brk \in HeapBase .. HeapTop
    /\ prot \subseteq Mapped
    /\ used \subseteq Pages
    /\ written \subseteq Mapped
    /\ pc \in {"init", "run", "drain", "stored"}
    /\ step_id \in Steps
    /\ proc_mem_ch \in Seq(Addresses)
    /\ \A k \in DOMAIN cache :
          /\ cache[k].start \in Nat /\ cache[k].end \in Nat
          /\ \A p \in DOMAIN cache[k].pages : cache[k].pages[p] \in Values
    /\ brk_boundary \in Nat
    /\ rows \in [Pages -> [Steps -> Seq(Values)]]

\* Regions that contain an address.
Covering(address) == {k \in DOMAIN cache : cache[k].start <= address /\ address < cache[k].end}
KnownPages == {p \in Pages : Covering(p * PAGE_SIZE) # {}}

(***************************************************************************)
(* find_page() against its definition: an address that lies in a region is *)
(* found, in a region it lies in and with the page it lies on; any other   *)
(* address is not.                                                         *)
(***************************************************************************)
SearchExact ==
    \A a \in Addresses :
        LET k == FindRegion(a) IN
        /\ k = 0 <=> Covering(a) = {}
        /\ k # 0 => k \in Covering(a) /\ FindPage(a, k) = a \div PAGE_SIZE

\* The contents of page p as Examine finds it at step s.
RowSteps(p, s) == {t \in 1 .. s : rows[p][t] # <<>>}
Replay(p, s) ==
    IF RowSteps(p, s) = {} THEN None
    ELSE Last(rows[p][CHOOSE t \in RowSteps(p, s) : \A u \in RowSteps(p, s) : u <= t])

(***************************************************************************)
(* When a step is stored, the recorded contents of every page the child    *)
(* has written since it was mapped equal its memory, if the page is in a   *)
(* region of the cache.                                                    *)
(***************************************************************************)
KnownMemoryExact ==
    pc = "stored" => \A p \in written \cap KnownPages : Replay(p, step_id) = mem[p]

(***************************************************************************)
(* db_workers.c:386 creates a unique index on address and step: no page is *)
(* stored twice for a step, by cache_add_region() and process_page()       *)
(* together, or the index, and with it the recording, fails.               *)
(***************************************************************************)
RowsUnique == \A p \in Pages, s \in Steps : Len(rows[p][s]) <= 1

(***************************************************************************)
(* Only the first brk() of the child can be lost: from then on every page  *)
(* by which the heap grows past its highest end is in the cache, whatever  *)
(* growing and shrinking there is.                                         *)
(***************************************************************************)
LostHeap == {p \in HeapBase .. brk_boundary - 1 : p \notin KnownPages}
HeapGrowthKnown ==
    [][brk_boundary # 0 => LostHeap' \subseteq LostHeap /\ brk' <= brk_boundary']_vars
=============================================================================
