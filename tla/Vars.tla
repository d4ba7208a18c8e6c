-------------------------------- MODULE Vars --------------------------------
(***************************************************************************)
(* The values of variables in the debug server (examine/vars.c, and the    *)
(* variables request of examine/requests.c): where a variable is at a      *)
(* step, what the recorded memory says it holds, what a pointer points to, *)
(* and table local.ref, whose row numbers are the references the IDE       *)
(* expands.  A recording is made first (module Heap, and stores to         *)
(* memory), then examined.                                                 *)
(*                                                                         *)
(* Memory is made of cells, a word is WORD cells, the lowest one first.    *)
(* The memory rows are written as Recorder and Regions show it for one     *)
(* CPU: every segment at the first step, every segment of a new region at  *)
(* the step in which it is mapped, and at the other steps the segments     *)
(* that differ from the copy in the region cache; nothing on the first     *)
(* line of a function, whose changes are stored with the next step.  The   *)
(* frames, and the way the position moves, are in module Examine; here any *)
(* step can be the current one.  Types are the rows that module Symbols    *)
(* builds; floating point, enumerations and pointers to functions and to   *)
(* void are left out, and there is one source file.                        *)
(***************************************************************************)
EXTENDS Heap, SequencesExt

CONSTANTS
    CELL,               \* values of a cell are 0 .. CELL - 1
    WORD,               \* cells of a pointer and of the longest integer
    SEGMENT,            \* MEM_SEGMENT_SIZE
    STRING_LIMIT,       \* what is shown of a string of unknown length (32)
    Statics,            \* cells mapped from the start
    HeapCells,          \* cells of the heap, mapped with the first block
    Program,            \* what the statements store, each a function on cells
    Type,               \* rows of table type, by offset
    Var,                \* rows of table var, by id
    Parent,             \* scope -> its parent
    ScopeAt, LineAt,    \* step -> its scope, its line
    FlagAt,             \* step -> "START" on the first line of a function
    CallAt,             \* step -> the step of the call (0: none)
    FrameBase,          \* step -> the register of the frame base
    MaxTraced,          \* bound: heap calls of a recording
    MaxRequests,        \* bound: answers in a session
    MaxWork             \* bound: heap calls and answers together

GLOBAL_SCOPE == 0
PTYPE_SCOPE == 1
PTYPE_REF == 2          \* not used by the code
PTYPE_EXPR == 3
Unmapped == -1
Cells == Statics \cup HeapCells
Segments == {c \in Cells : c % SEGMENT = 0}
SegmentOf(c) == c - (c % SEGMENT)

VARIABLES
    mem, mapped,        \* memory of the program
    copy,               \* the pages of the region cache
    rows,               \* rows of table mem
    traced,             \* heap calls so far
    pc,                 \* statements executed so far
    phase,              \* "record", "examine"
    requests,
    cur_step,
    ref,                \* rows of table local.ref; a reference is a row number
    shown,              \* the last answer: a sequence of entries
    \* history, read by no action
    mems,               \* per step, the memory of the program
    told,               \* the references given out at this stop, and what for
    want                \* what the last answer should have been

memVars == <<mem, mapped, copy, rows, traced, pc, mems>>
sessionVars == <<phase, requests, cur_step, ref, shown, told, want>>
vars == <<heapVars, memVars, sessionVars>>

-----------------------------------------------------------------------------
(* The recording.                                                          *)

VarsInit ==
    /\ HeapInit
    /\ mem = [c \in Cells |-> IF c \in Statics THEN 0 ELSE Unmapped]
    /\ mapped = FALSE
    /\ copy = [c \in Cells |-> Unmapped]
    /\ rows = {}
    /\ traced = 0 /\ pc = 0
    /\ phase = "record" /\ requests = 0 /\ cur_step = 1
    /\ ref = << >> /\ shown = << >> /\ told = {} /\ want = << >>
    /\ mems = << >>

\* init() of the preloaded library runs before the program.
Started == phase = "record" /\ (step_id = 0 => calls # 0)
Running ==
    /\ Started /\ Calling
    /\ UNCHANGED <<step_id, heap, lives, blurs, mems, sessionVars>>
Tracing == Running /\ traced < MaxTraced /\ traced' = traced + 1 /\ UNCHANGED pc
NoRegion == UNCHANGED <<mapped, copy, rows>>

ContentOf(m, s) == [i \in 1 .. SEGMENT |-> m[s + i - 1]]
RowsOf(m, segments, step) ==
    {[address |-> s, step_id |-> step, content |-> ContentOf(m, s)] : s \in segments}

\* cache_add_region(): the new region, m, is stored at the step that is running;
\* before the first step nobody watches the program.
AddRegion(m) ==
    IF step_id = 0 THEN UNCHANGED <<copy, rows>>
    ELSE /\ copy' = [c \in Cells |-> IF c \in HeapCells THEN m[c] ELSE copy[c]]
         /\ rows' = rows \cup RowsOf(m, Segments \cap HeapCells, step_id)

\* The first block makes the allocator ask for memory, which is cleared.
Allocate(a, size) ==
    LET grown == [c \in Cells |-> IF c \in HeapCells THEN 0 ELSE mem[c]] IN
    /\ Tracing /\ malloc(a, size)
    /\ mapped' = TRUE
    /\ IF mapped THEN UNCHANGED <<mem, copy, rows>> ELSE mem' = grown /\ AddRegion(grown)
Reallocate(a, b, size) ==
    LET moved == {c \in b .. b + size - 1 : c - b < live[a]} IN
    /\ Tracing /\ realloc(a, b, size)
    /\ mem' = [c \in Cells |-> IF c \in moved THEN mem[a + (c - b)] ELSE mem[c]]
    /\ NoRegion
Release(a) == Tracing /\ free(a) /\ UNCHANGED mem /\ NoRegion
ReleaseByRealloc(a) == Tracing /\ ReallocToZero(a) /\ UNCHANGED mem /\ NoRegion
\* The next statement.
Store ==
    /\ Running /\ pc < Len(Program) /\ pc' = pc + 1
    /\ \A c \in DOMAIN Program[pc + 1] : mem[c] # Unmapped
    /\ mem' = Program[pc + 1] @@ mem
    /\ NoRegion
    /\ UNCHANGED <<childHeap, traced>>

\* The steps that store memory: the first one, in init_cache(), and those that
\* are not on the first line of a function.
StoresMemory(step) == step = 1 \/ FlagAt[step] # "START"

\* A step: the heap events, and the segments that differ from the copy, which a
\* region has none of at the first step.
Stop ==
    LET step == step_id + 1
        dirty == {x \in Segments : mem[x] # Unmapped /\ ContentOf(mem, x) # ContentOf(copy, x)}
    IN  /\ Started
        /\ HeapStep
        /\ mems' = Append(mems, mem)
        /\ IF StoresMemory(step)
           THEN rows' = rows \cup RowsOf(mem, dirty, step) /\ copy' = mem
           ELSE UNCHANGED <<rows, copy>>
        /\ UNCHANGED <<mem, mapped, traced, pc, sessionVars>>

Preload == phase = "record" /\ OpenFifo /\ UNCHANGED <<memVars, sessionVars>>

-----------------------------------------------------------------------------
(* The recorded memory.                                                    *)

\* The latest row of a segment, GROUP BY address HAVING step_id = MAX(step_id).
LatestRow(s, step) ==
    LET of == {r \in rows : r.address = s /\ r.step_id <= step}
    IN  {r \in of : \A q \in of : q.step_id <= r.step_id}

\* get_var_value(): the parts of the segments that have a row, one after the
\* other, in a buffer of zeros: the cells after a segment without a row move up.
get_var_value(addr, size, step) ==
    LET cells == {c \in addr .. addr + size - 1 : LatestRow(SegmentOf(c), step) # {}}
        at(c) == (CHOOSE r \in LatestRow(SegmentOf(c), step) : TRUE).content[(c % SEGMENT) + 1]
        known(i) == CHOOSE c \in cells : Cardinality({d \in cells : d < c}) = i - 1
    IN  [i \in 1 .. size |-> IF i <= Cardinality(cells) THEN at(known(i)) ELSE 0]

\* The number in cells that hold an integer without and with a sign.
Power(n) == CELL ^ n
Unsigned(cells) ==
    LET sum[i \in 0 .. Len(cells)] == IF i = 0 THEN 0 ELSE sum[i - 1] + cells[i] * Power(i - 1)
    IN  sum[Len(cells)]
Signed(cells) ==
    LET n == Unsigned(cells) full == Power(Len(cells))
    IN  IF 2 * n >= full THEN n - full ELSE n
Number(kind, cells) == IF kind = "signed" THEN Signed(cells) ELSE Unsigned(cells)

\* The query of get_pointer_size() for an address that is not on the heap: a
\* segment that starts at the address or up to a segment after it.
InMemory(address, step) ==
    \E r \in rows : /\ r.step_id <= step
                    /\ address <= r.address /\ r.address <= address + SEGMENT

\* Everything get_pointer_size() may answer at the current step; an oracle is
\* one choice, made for a request.
Oracles ==
    LET of(a) == PointerSizes(a, cur_step, InMemory(a, cur_step))
    IN  {f \in [Blocks -> UNION {of(a) : a \in Blocks}] : \A a \in Blocks : f[a] \in of(a)}
get_pointer_size(oracle, address) ==
    IF address \in Blocks THEN oracle[address]
    ELSE CHOOSE v \in PointerSizes(address, cur_step, InMemory(address, cur_step)) : TRUE

\* get_location(): an absolute address, a register with an offset (the only
\* register is the one of the frame base), or the bare offset from the frame base.
get_location(v, step) ==
    IF v.op = "breg" THEN FrameBase[step] + v.opd ELSE v.opd
\* get_var_address(): a negative address is taken for an offset from the frame
\* base of the function, with the registers of the step.
get_var_address(v, step) ==
    LET a == get_location(v, step) IN IF a < 0 THEN a + FrameBase[step] ELSE a

-----------------------------------------------------------------------------
(* Entries of an answer, and references.                                   *)

\* What the IDE is told of a variable, a field or an item.
Entry(name, what, num, str, r, dim) ==
    [name |-> name, what |-> what, num |-> num, str |-> str, ref |-> r, dim |-> dim]
Plain(name, what, num) == Entry(name, what, num, << >>, 0, 0)

\* Mutant: a reference that exists is returned as it is.
MutantRefKept(table, parent_type, parent, child, address, type, indirect) ==
    LET key == <<parent_type, parent, child>>
        row == [key |-> key, address |-> address, type |-> type, indirect |-> indirect]
        at == {i \in DOMAIN table : table[i].key = key}
    IN  IF at = {} THEN [ref |-> Append(table, row), id |-> Len(table) + 1]
        ELSE [ref |-> table, id |-> CHOOSE i \in at : TRUE]

\* get_var_ref(): the row of this child of this parent, updated or new.
get_var_ref(table, parent_type, parent, child, address, type, indirect) ==
    LET key == <<parent_type, parent, child>>
        row == [key |-> key, address |-> address, type |-> type, indirect |-> indirect]
        at == {i \in DOMAIN table : table[i].key = key}
    IN  IF at = {} THEN [ref |-> Append(table, row), id |-> Len(table) + 1]
        ELSE LET id == CHOOSE i \in at : TRUE IN [ref |-> [table EXCEPT ![id] = row], id |-> id]

Actual[type \in DOMAIN Type] ==
    IF Type[type].kind = "alias" THEN Actual[Type[type].parent] ELSE type

Compound == {"struct", "union"}
Integer == {"signed", "unsigned"}

\* strnlen() of a buffer, and the entry for a string.
StringEntry(name, addr, cells) ==
    LET zeros == {i \in DOMAIN cells : cells[i] = 0}
        len == IF zeros = {} THEN Len(cells) ELSE (CHOOSE i \in zeros : \A j \in zeros : i <= j) - 1
    IN  Entry(name, IF len = Len(cells) THEN "cut" ELSE "string", addr, SubSeq(cells, 1, len), 0, 0)

\* The answer is built from acc, the entries so far and the table of references.
Answer(acc, entry, table) == [out |-> Append(acc.out, entry), ref |-> table]

\* The part of add_var_entry() for arrays, and for pointers to addr whose block
\* has size pointer_size (0: unknown).
AddArray(acc, parent_type, parent, name, what, addr, type, indirect, pointer_size) ==
    LET base_type == Type[type].parent
        elem == IF indirect = 0 THEN Type[base_type] ELSE Type[type]
        dim == IF pointer_size # 0 THEN pointer_size \div elem.size
               ELSE IF what = "at" THEN 1 ELSE Type[type].dim
        length == IF pointer_size # 0 THEN dim ELSE STRING_LIMIT
        single == dim = 1 /\ elem.kind \in Compound
        r == get_var_ref(acc.ref, parent_type, parent, name, addr,
                         IF single THEN base_type ELSE type, indirect)
    IN  IF elem.size = 1 /\ elem.kind \in Integer
        THEN Answer(acc, StringEntry(name, addr, get_var_value(addr, length, cur_step)), acc.ref)
        ELSE Answer(acc, Entry(name, what, addr, << >>, r.id, IF single THEN 0 ELSE dim), r.ref)

\* ... for pointers, whose value is read with the size of their type.
AddPointer(acc, oracle, parent_type, parent, name, addr, type, indirect) ==
    LET target == Unsigned(get_var_value(addr, Type[type].size, cur_step)) % Power(WORD)
        v == get_pointer_size(oracle, target)
    IN  IF target = NULL THEN Answer(acc, Plain(name, "NULL", 0), acc.ref)
        ELSE IF v.what = "released" THEN Answer(acc, Plain(name, "dangling", target), acc.ref)
        ELSE IF v.what = "notfound" THEN Answer(acc, Plain(name, "invalid", target), acc.ref)
        ELSE AddArray(acc, parent_type, parent, name, "at", target, type, indirect, v.size)

\* add_var_entry()
AddEntry(acc, oracle, parent_type, parent, name, addr, offset, indirect) ==
    LET type == Actual[offset]
        kind == IF indirect # 0 THEN "pointer" ELSE Type[type].kind
        r == get_var_ref(acc.ref, parent_type, parent, name, addr, type, 0)
    IN  CASE kind \in Compound ->
                Answer(acc, Entry(name, kind, 0, << >>, r.id, Type[type].dim), r.ref)
          [] kind = "pointer" ->
                AddPointer(acc, oracle, parent_type, parent, name, addr, type, indirect)
          [] kind = "array" ->
                AddArray(acc, parent_type, parent, name, "array", addr, type, 0, 0)
          [] OTHER ->
                Answer(acc, Plain(name, "number",
                         Number(kind, get_var_value(addr, Type[type].size, cur_step))), acc.ref)

-----------------------------------------------------------------------------
(* The requests.                                                           *)

\* What the frame list holds at the current step: the frame and its caller.
Frames ==
    LET frame(id, step) == [id |-> id, step |-> step, scope |-> ScopeAt[step], line |-> LineAt[step]]
    IN  <<frame(0, cur_step)>> \o
        (IF CallAt[cur_step] = 0 THEN << >> ELSE <<frame(1, CallAt[cur_step])>>)

Ancestors[scope \in {GLOBAL_SCOPE} \cup DOMAIN Parent] ==
    IF scope = GLOBAL_SCOPE THEN {} ELSE {Parent[scope]} \cup Ancestors[Parent[scope]]

\* The rows of the query for local variables, which joins every variable with
\* every ancestor of the scope, and of the one for global variables, by id.
LocalRows == [scope \in DOMAIN Parent |->
    SetToSortSeq({x \in (DOMAIN Var) \X Ancestors[scope] :
                    /\ Var[x[1]].scope \in {x[2], scope}
                    /\ Var[x[1]].scope # GLOBAL_SCOPE},
                 LAMBDA x, y : x[1] < y[1] \/ (x[1] = y[1] /\ x[2] < y[2]))]
GlobalRows == SetToSortSeq({v \in DOMAIN Var : Var[v].scope = GLOBAL_SCOPE}, <)

\* add_var() for every variable, at the step of the frame.
AddVars(oracle, scope, ids, step) ==
    LET add(acc, v) == AddEntry(acc, oracle, PTYPE_SCOPE, scope, Var[v].name,
                                get_var_address(Var[v], step), Var[v].type, 0)
    IN  FoldLeft(add, [out |-> << >>, ref |-> ref], ids)

\* add_var_fields(): the entries are children of a scope, not of a reference.
add_var_fields(oracle, r) ==
    LET add(acc, m) == AddEntry(acc, oracle, PTYPE_SCOPE, r, m.name,
                                ref[r].address + m.start, m.type, 0)
    IN  FoldLeft(add, [out |-> << >>, ref |-> ref], Type[ref[r].type].members)

\* add_var_items(): items from start up to, not including, item count.
add_var_items(oracle, r, start, count) ==
    LET type == Type[ref[r].type]
        base == IF type.parent = 0 THEN ref[r].type ELSE type.parent
        size == Type[base].size
        v == get_pointer_size(oracle, ref[r].address)
        dim == IF type.dim # 0 /\ ref[r].indirect = 0 THEN type.dim
               ELSE IF v.size = 0 THEN 1 ELSE v.size \div size
        deeper == IF ref[r].indirect # 0 THEN ref[r].indirect - 1 ELSE 0
        last == IF count < dim THEN count ELSE dim
        add(acc, i) == AddEntry(acc, oracle, PTYPE_SCOPE, r, ToString(i),
                                ref[r].address + i * size, base, deeper)
    IN  IF (type.dim = 0 \/ ref[r].indirect # 0) /\ v.what # "success"
        THEN [out |-> << >>, ref |-> ref]
        ELSE FoldLeft(add, [out |-> << >>, ref |-> ref], [i \in 1 .. last - start |-> start + i - 1])

-----------------------------------------------------------------------------
(* What the answers should be, from the memory and the heap that the       *)
(* program had at the current step; on the first line of a function, from  *)
(* the memory at the last step before it that is not one.                  *)

Settled[step \in 1 .. MaxSteps] == IF StoresMemory(step) THEN step ELSE Settled[step - 1]
IsMapped(addr, size, step) ==
    \A c \in addr .. addr + size - 1 : c \in Cells /\ mems[Settled[step]][c] # Unmapped
TrueCells(addr, size, step) == [i \in 1 .. size |-> mems[Settled[step]][addr + i - 1]]

\* What an entry should say, and the place its children are in: the fields of a
\* struct, or count items.
Place(address, type, count) == [address |-> address, type |-> type, count |-> count]
Wanted(name, what, num, str, dim, place) ==
    [name |-> name, what |-> what, num |-> num, str |-> str, dim |-> dim, place |-> place]
Nowhere == Place(0, 0, 0)
Unknown(name) == Wanted(name, "any", 0, << >>, 0, Nowhere)

\* An entry for a pointer to a: "any" if the heap events do not tell, or the
\* memory there is not mapped.
WantPointer(name, a, type) ==
    LET elem == Type[type]
        size == IF a \in Blocks THEN lives[cur_step][a] ELSE 0
        count == IF size = 0 THEN 1 ELSE size \div elem.size
        text == TrueCells(a, size, cur_step)
    IN  IF a = NULL THEN Wanted(name, "NULL", 0, << >>, 0, Nowhere)
        ELSE IF a \in blurs[cur_step] THEN Unknown(name)
        ELSE IF size = Freed THEN Wanted(name, "dangling", a, << >>, 0, Nowhere)
        ELSE IF size = Never \/ ~IsMapped(a, count * elem.size, cur_step) THEN Unknown(name)
        ELSE IF elem.size # 1
        THEN Wanted(name, "at", a, << >>, IF count = 1 /\ elem.kind \in Compound THEN 0 ELSE count,
                    Place(a, type, count))
        ELSE IF size = 0 \/ elem.kind \notin Integer THEN Unknown(name)
        ELSE LET e == StringEntry(name, a, text) IN Wanted(name, e.what, a, e.str, 0, Nowhere)

WantEntry(name, addr, offset) ==
    LET type == Actual[offset]
        t == Type[type]
    IN  CASE t.kind \in Compound -> Wanted(name, t.kind, 0, << >>, t.dim, Place(addr, type, 1))
          [] t.kind = "array" ->
                Wanted(name, "array", addr, << >>, t.dim, Place(addr, t.parent, t.dim))
          [] t.kind \notin Compound \cup {"array"} /\ ~IsMapped(addr, t.size, cur_step) -> Unknown(name)
          [] t.kind = "pointer" /\ IsMapped(addr, t.size, cur_step) ->
                WantPointer(name, Unsigned(TrueCells(addr, WORD, cur_step)), t.parent)
          [] OTHER -> Wanted(name, "number", Number(t.kind, TrueCells(addr, t.size, cur_step)),
                             << >>, 0, Nowhere)

\* The variables C lets a statement on this line of the scope name, except for
\* the global ones.
Visible(scope, line) ==
    {v \in DOMAIN Var : /\ Var[v].scope \in ({scope} \cup Ancestors[scope]) \ {GLOBAL_SCOPE}
                        /\ Var[v].line < line}

WantVars(vs, step) ==
    LET ids == SetToSeq(vs)
    IN  [i \in DOMAIN ids |->
            LET v == Var[ids[i]] IN WantEntry(v.name, get_var_address(v, step), v.type)]
WantFields(p) ==
    [i \in DOMAIN Type[p.type].members |->
        LET m == Type[p.type].members[i] IN WantEntry(m.name, p.address + m.start, m.type)]
WantItems(p) ==
    [i \in 1 .. p.count |->
        WantEntry(ToString(i - 1), p.address + (i - 1) * Type[p.type].size, p.type)]

-----------------------------------------------------------------------------
(* The requests.                                                           *)

Alive == phase = "examine" /\ \A i \in DOMAIN shown : shown[i].what # "crash"
Asking == Alive /\ requests < MaxRequests /\ requests + traced < MaxWork

\* The server answers a; history keeps which place each reference was given out
\* for, as which child of which parent, and how many items it is said to have.
\* An entry whose name is wanted twice is for no place that is known.
Reply(a, w, parent_type, parent) ==
    LET named(i) == {j \in DOMAIN w : w[j].name = a.out[i].name}
        place(i) == IF Cardinality(named(i)) = 1 THEN w[CHOOSE j \in named(i) : TRUE].place ELSE Nowhere
        count(i) == IF a.out[i].what \in {"at", "array"} THEN a.out[i].dim ELSE 0
    IN  /\ Asking /\ requests' = requests + 1
        /\ shown' = a.out /\ ref' = a.ref /\ want' = w
        /\ told' = told \cup
              {[ref |-> a.out[i].ref, child |-> <<parent_type, parent, a.out[i].name>>,
                place |-> place(i), indexedVariables |-> count(i)] :
                 i \in {j \in DOMAIN a.out : a.out[j].ref # 0}}
        /\ UNCHANGED <<heapVars, memVars, phase, cur_step>>

\* Two things that were listed at this stop share a row of table local.ref: a
\* variable and one of the same name in an outer scope, a variable of scope n and
\* a field of reference n, an expression in two frames.
Collides(t) == \E u \in told : u.child = t.child /\ u.place # t.place
Leads(t) == t.place # Nowhere /\ ~Collides(t)

\* The program has come to its end, and the recording is examined.
Launch ==
    /\ phase = "record" /\ step_id = MaxSteps /\ calls = 0 /\ pc = Len(Program)
    /\ traced < MaxWork
    /\ phase' = "examine"
    /\ UNCHANGED <<heapVars, memVars, requests, cur_step, ref, shown, told, want>>

\* The position moves; the IDE drops its references.
Goto(step) ==
    /\ Alive
    /\ step # cur_step /\ cur_step' = step
    /\ shown' = << >> /\ want' = << >> /\ told' = {}
    /\ UNCHANGED <<heapVars, memVars, phase, requests, ref>>

\* process_variables() for a scope: the first frame of that scope, without the
\* variables that are declared at or after its line.
ListLocals(scope) ==
    LET frame == SelectSeq(Frames, LAMBDA f : f.scope = scope)[1]
        all == [i \in DOMAIN LocalRows[scope] |-> LocalRows[scope][i][1]]
        ids == SelectSeq(all, LAMBDA v : Var[v].line < frame.line)
    IN  \E oracle \in Oracles :
            Reply(AddVars(oracle, scope, ids, frame.step),
                  WantVars(Visible(scope, frame.line), frame.step), PTYPE_SCOPE, scope)
ListGlobals ==
    \E oracle \in Oracles :
        Reply(AddVars(oracle, GLOBAL_SCOPE, GlobalRows, cur_step),
              WantVars({v \in DOMAIN Var : Var[v].scope = GLOBAL_SCOPE}, cur_step),
              PTYPE_SCOPE, GLOBAL_SCOPE)

\* ... for a reference, of the fields or of all items; nothing is claimed of one
\* that leads to no place that is known.
Unclaimed(a) == [i \in DOMAIN a.out |-> Unknown(a.out[i].name)]
ExpandFields(t) ==
    \E oracle \in Oracles :
        LET a == add_var_fields(oracle, t.ref)
        IN  Reply(a, IF Leads(t) /\ t.place.count = 1 THEN WantFields(t.place) ELSE Unclaimed(a),
                  PTYPE_SCOPE, t.ref)
ExpandItems(t) ==
    \E oracle \in Oracles :
        LET a == add_var_items(oracle, t.ref, 0, t.indexedVariables)
        IN  Reply(a, IF Leads(t) THEN WantItems(t.place) ELSE Unclaimed(a), PTYPE_SCOPE, t.ref)

-----------------------------------------------------------------------------
(* Specification.                                                          *)

Record ==
    \/ Preload \/ Stop \/ Launch
    \/ \E a \in Blocks, size \in Sizes : Allocate(a, size)
    \/ \E a, b \in Blocks, size \in Sizes : Reallocate(a, b, size)
    \/ \E a \in Blocks \cup {NULL} : Release(a)
    \/ \E a \in Blocks : ReleaseByRealloc(a)
    \/ Store

Move == \E step \in 1 .. MaxSteps : Goto(step)

List ==
    /\ Asking
    /\ \/ ListGlobals
       \/ \E i \in DOMAIN Frames : ListLocals(Frames[i].scope)
       \/ \E t \in told : t.indexedVariables # 0 /\ ExpandItems(t)
       \/ \E t \in told : t.indexedVariables = 0 /\ ExpandFields(t)

VarsNext == Record \/ Move \/ List

\* A recording and a session that lists variables; Expressions adds evaluation.
VarsSpec == VarsInit /\ [][VarsNext]_vars

-----------------------------------------------------------------------------
(* Properties.                                                             *)

\* An entry agrees with what is wanted.
Agrees(e, w) ==
    /\ e.name = w.name
    /\ w.what # "any" => \A f \in {"what", "num", "str", "dim"} : e[f] = w[f]

\* A list has the variables that are visible in the frame, and no others, or all
\* the fields or items (in any order; a variable of a nested block is listed
\* several times).  It shows the values the program had in memory at the current
\* step, on the first line of a function at the last step before it that is not
\* one, and its pointers as what they pointed to at the current step.  A
\* reference given out since the position moved leads to the place it was given
\* out for, whatever was listed before and after, unless the server has given the
\* same row to something else at this stop (process_variables, add_var_entry,
\* get_var_value, get_var_ref).
ShownExact ==
    /\ \A i \in DOMAIN want : want[i].name # "" => \E j \in DOMAIN shown : Agrees(shown[j], want[i])
    /\ \A j \in DOMAIN shown : shown[j].name # "" => \E i \in DOMAIN want : Agrees(shown[j], want[i])
    /\ \A t \in told : Leads(t) => ref[t.ref].address = t.place.address
=============================================================================
