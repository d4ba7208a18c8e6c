------------------------------ MODULE LineCache ------------------------------
(***************************************************************************)
(* The recorder's line cache (src/record/run.c): set_breakpoints() reads   *)
(* the statements of every unit in address order, replaces the first byte  *)
(* of each by INT 3 and remembers it; lookup_cache() finds the entry of a  *)
(* trapped address, first the unit (kept from the previous call, else by   *)
(* binary search over unit_count entries), then the line by interpolation. *)
(*                                                                         *)
(* The loops are broken into one step per iteration, so that the searches  *)
(* can be reasoned about as transition systems.  Indices count from 0, as  *)
(* in the code: At(s, i) is s[i] of the C array.                           *)
(***************************************************************************)
EXTENDS Integers, Sequences, FiniteSets, Globals

CONSTANTS
  Tables,     \* the statement tables that may be loaded: sets of rows
  Counts,     \* the values unit_count may have
  Images      \* where the child's code may be mapped

VARIABLES
  table,        \* rows of statement joined with file: [unit, line, addr, ...]
  image,        \* [load, text, size]: load address, offset of the executable mapping
  code,         \* byte at each executable address of the child
  base_address,
  instr_cache,  \* the filled prefix of the array of unit_count entries
  unit,         \* static in lookup_cache()
  pc, address, left, right, index, left_addr, right_addr

lineVars == <<table, unit_count, image, code, base_address, instr_cache, unit,
              pc, address, left, right, index, left_addr, right_addr>>
searchVars == <<unit, address, left, right, index, left_addr, right_addr>>
inputVars == <<table, unit_count, image>>

WORD == 1000000     \* stands for 2^64: unsigned arithmetic is modulo WORD
INT3 == "int3"
ORG == "org"

At(s, i) == s[i + 1]

NoImage == [load |-> 0, text |-> 0, size |-> 0]
Text(im) == (im.load + im.text) .. (im.load + im.text + im.size - 1)
Units(rows) == {r.unit : r \in rows}
RowsOf(rows, u) == {r \in rows : r.unit = u}
IsMin(r, rows) == r \in rows /\ \A q \in rows : r.addr <= q.addr
IsMax(r, rows) == r \in rows /\ \A q \in rows : r.addr >= q.addr

-----------------------------------------------------------------------------
LineInit ==
  /\ table = {} /\ unit_count = 0
  /\ image = NoImage /\ code = [p \in {} |-> ORG]
  /\ base_address = 0 /\ instr_cache = <<>>
  /\ unit = 0 /\ pc = "load"
  /\ address = 0 /\ left = 0 /\ right = 0 /\ index = 0
  /\ left_addr = 0 /\ right_addr = 0

\* record() starts the child, which is mapped somewhere, and calls
\* set_breakpoints(); see Symbols for how the rows are collected.
Load(rows) ==
  /\ pc = "load" /\ pc' = "units"
  /\ table' = rows
  /\ image' \in Images
  /\ code' = [p \in Text(image') |-> ORG]
  /\ UNCHANGED <<base_address, instr_cache, searchVars>>

(* ---------------- set_breakpoints() ---------------- *)

Cached(u) == \E i \in DOMAIN instr_cache : instr_cache[i].unit = u

\* Next row of unit_cursor: the units that have statements, in order of their
\* lowest address; equal keys come in any order.
FetchUnit ==
  /\ pc = "units"
  /\ \E u \in Units(table) :
       /\ ~Cached(u)
       /\ \E lo \in RowsOf(table, u), hi \in RowsOf(table, u) :
            /\ IsMin(lo, RowsOf(table, u)) /\ IsMax(hi, RowsOf(table, u))
            /\ \A q \in table : Cached(q.unit) \/ lo.addr <= q.addr
            /\ instr_cache' = Append(instr_cache,
                 [unit |-> u, start |-> lo.addr, end |-> hi.addr, lines |-> <<>>])
  /\ pc' = "lines"
  /\ UNCHANGED <<inputVars, code, base_address, searchVars>>

UnitsDone ==
  /\ pc = "units" /\ \A u \in Units(table) : Cached(u)
  /\ pc' = "run"
  /\ UNCHANGED <<inputVars, code, base_address, instr_cache, searchVars>>

CurUnit == instr_cache[Len(instr_cache)]
Fetched(lines) == {lines[i].row : i \in DOMAIN lines}
Pending == RowsOf(table, CurUnit.unit) \ Fetched(CurUnit.lines)

\* Mutant: the byte is kept after INT 3 was put there.
MutantKeepsInt3(r, b) ==
  /\ r.addr + b \in DOMAIN code
  /\ instr_cache' = [instr_cache EXCEPT ![Len(instr_cache)].lines =
                       Append(@, [row |-> r, org_instr_byte |-> INT3])]
  /\ code' = [code EXCEPT ![r.addr + b] = INT3]
  /\ base_address' = b
  /\ UNCHANGED pc
\* PTRACE_PEEKDATA and PTRACE_POKEDATA of one line, with the base address b.
SetBreakpoint(r, b) ==
  /\ r.addr + b \in DOMAIN code
  /\ instr_cache' = [instr_cache EXCEPT ![Len(instr_cache)].lines =
                       Append(@, [row |-> r, org_instr_byte |-> code[r.addr + b]])]
  /\ code' = [code EXCEPT ![r.addr + b] = INT3]
  /\ base_address' = b
  /\ UNCHANGED pc

\* get_base_address(): the start of the first executable mapping of the program.
FoundBase == image.load + image.text

\* Next row of line_cursor, in address order.  An address that cannot be read
\* is tried again, once in the life of the recorder, with the base address.
FetchLine ==
  /\ pc = "lines"
  /\ \E r \in Pending :
       /\ IsMin(r, Pending)
       /\ \/ SetBreakpoint(r, base_address)
          \/ /\ r.addr + base_address \notin DOMAIN code
             /\ base_address = 0 /\ FoundBase # 0
             /\ SetBreakpoint(r, FoundBase)
          \/ /\ r.addr + base_address \notin DOMAIN code
             /\ base_address # 0 \/ r.addr + FoundBase \notin DOMAIN code
             /\ pc' = "failed"
             /\ UNCHANGED <<code, base_address, instr_cache>>
  /\ UNCHANGED <<inputVars, searchVars>>

LinesDone ==
  /\ pc = "lines" /\ Pending = {}
  /\ pc' = "units"
  /\ UNCHANGED <<inputVars, code, base_address, instr_cache, searchVars>>

\* A cursor, readlink(), fopen() or ptrace() fails.
FailBreakpoints ==
  /\ pc \in {"units", "lines"}
  /\ pc' = "failed"
  /\ UNCHANGED <<inputVars, code, base_address, instr_cache, searchVars>>

(* ---------------- lookup_cache() ---------------- *)

\* Entries of the array that set_breakpoints() did not fill hold whatever
\* malloc() returned: both fields low, both high, or an interval around all.
Garbage == [start : {0, WORD - 1}, end : {0, WORD - 1}]
Entries(i) ==
  IF i < Len(instr_cache)
    THEN {[start |-> At(instr_cache, i).start, end |-> At(instr_cache, i).end]}
    ELSE Garbage
Inside(a, e) == e.start <= a /\ a <= e.end

\* Set up the search for the line within unit u; the lines of an entry that was
\* never filled are a wild pointer.
BeginLines(u) ==
  /\ left' = 0
  /\ IF u < Len(instr_cache)
       THEN /\ pc' = "line"
            /\ right' = Len(At(instr_cache, u).lines) - 1
            /\ left_addr' = At(instr_cache, u).lines[1].row.addr
            /\ right_addr' = At(instr_cache, u).lines[Len(At(instr_cache, u).lines)].row.addr
       ELSE /\ pc' = "crashed"
            /\ UNCHANGED <<right, left_addr, right_addr>>

\* process_breakpoint() of the recorder calls lookup_cache() with the trapped
\* address less the base address.
Lookup ==
  /\ pc = "run"
  /\ \E p \in DOMAIN code :
       /\ code[p] = INT3
       /\ address' = (p - base_address) % WORD
  /\ \E e \in Entries(unit) :
       \/ /\ Inside(address', e)
          /\ BeginLines(unit)
          /\ UNCHANGED index
       \/ /\ ~Inside(address', e)
          /\ left' = 0 /\ right' = unit_count /\ index' = unit_count \div 2
          /\ pc' = "unit"
          /\ UNCHANGED <<left_addr, right_addr>>
  /\ UNCHANGED <<inputVars, code, base_address, instr_cache, unit>>

\* Mutant: the right bound is taken for a closed one.
MutantUnitClosed ==
  /\ pc = "unit" /\ right > left
  /\ \E e \in Entries(index) :
       \/ /\ address < e.start
          /\ right' = index - 1 /\ index' = (left + index - 1) \div 2
          /\ UNCHANGED <<unit, left, left_addr, right_addr, pc>>
       \/ /\ address >= e.start /\ address > e.end
          /\ left' = index + 1 /\ index' = (index + 1 + right) \div 2
          /\ UNCHANGED <<unit, right, left_addr, right_addr, pc>>
       \/ /\ Inside(address, e)
          /\ unit' = index
          /\ BeginLines(index)
          /\ UNCHANGED index
  /\ UNCHANGED <<inputVars, code, base_address, instr_cache, address>>
\* One iteration of the search for the unit: [left, right) is open at the right.
SearchUnit ==
  /\ pc = "unit" /\ right > left
  /\ \E e \in Entries(index) :
       \/ /\ address < e.start
          /\ right' = index /\ index' = (left + index) \div 2
          /\ UNCHANGED <<unit, left, left_addr, right_addr, pc>>
       \/ /\ address >= e.start /\ address > e.end
          /\ left' = index + 1 /\ index' = (index + 1 + right) \div 2
          /\ UNCHANGED <<unit, right, left_addr, right_addr, pc>>
       \/ /\ Inside(address, e)
          /\ unit' = index
          /\ BeginLines(index)
          /\ UNCHANGED index
  /\ UNCHANGED <<inputVars, code, base_address, instr_cache, address>>

UnitNotFound ==
  /\ pc = "unit" /\ right <= left
  /\ pc' = "null"
  /\ UNCHANGED <<inputVars, code, base_address, instr_cache, searchVars>>

Lines == At(instr_cache, unit).lines
Addr(i) == At(Lines, i).row.addr
Interpolated ==
  left + ((address - left_addr) * (right - left)) \div (right_addr - left_addr)

\* Mutant: the left bound is moved to the entry that was compared.
MutantLineStays(i) ==
  /\ index' = i
  /\ \/ /\ address < Addr(i)
        /\ right' = i - 1
        /\ right_addr' = IF i > 0 THEN Addr(i - 1) ELSE right_addr
        /\ UNCHANGED <<left, left_addr, pc>>
     \/ /\ address > Addr(i)
        /\ left' = i /\ left_addr' = Addr(i)
        /\ UNCHANGED <<right, right_addr, pc>>
     \/ /\ address = Addr(i)
        /\ pc' = "found"
        /\ UNCHANGED <<left, right, left_addr, right_addr>>
\* One iteration of the search for the line, whose interval is closed: compare
\* the entry at the interpolated index i.
CompareLine(i) ==
  /\ index' = i
  /\ \/ /\ address < Addr(i)
        /\ right' = i - 1
        /\ right_addr' = IF i > 0 THEN Addr(i - 1) ELSE right_addr
        /\ UNCHANGED <<left, left_addr, pc>>
     \/ /\ address > Addr(i)
        /\ left' = i + 1
        /\ left_addr' = IF i + 1 < Len(Lines) THEN Addr(i + 1) ELSE left_addr
        /\ UNCHANGED <<right, right_addr, pc>>
     \/ /\ address = Addr(i)
        /\ pc' = "found"
        /\ UNCHANGED <<left, right, left_addr, right_addr>>

\* Equal bounds divide by zero, a difference below zero wraps to an index far
\* outside the array, and an address above the bounds may give an index above
\* them: inside the array it is compared like any other.  The product is taken
\* to fit 64 bits.
Defined == left_addr < right_addr /\ left_addr <= address /\ Interpolated < Len(Lines)
SearchLine ==
  /\ pc = "line" /\ right >= left
  /\ \/ Defined /\ CompareLine(Interpolated)
     \/ /\ ~Defined
        /\ pc' = "crashed"
        /\ UNCHANGED <<left, right, index, left_addr, right_addr>>
  /\ UNCHANGED <<inputVars, code, base_address, instr_cache, unit, address>>

LineNotFound ==
  /\ pc = "line" /\ right < left
  /\ pc' = "null"
  /\ UNCHANGED <<inputVars, code, base_address, instr_cache, searchVars>>

\* process_breakpoint() uses the entry found and the child runs on; with NULL it
\* fails and recording ends.
UseLine ==
  /\ pc = "found"
  /\ pc' = "run"
  /\ UNCHANGED <<inputVars, code, base_address, instr_cache, searchVars>>

Search == SearchUnit \/ UnitNotFound \/ SearchLine \/ LineNotFound

LineStep ==
  \/ FetchUnit \/ UnitsDone \/ FetchLine \/ LinesDone \/ FailBreakpoints
  \/ Lookup \/ Search \/ UseLine

LineNext ==
  \/ \E rows \in Tables, count \in Counts :
       /\ count >= Cardinality(Units(rows)) /\ unit_count' = count
       /\ Load(rows)
  \/ LineStep

\* lookup_cache() is a loop without waiting: once called it keeps running.
LineSpec == LineInit /\ [][LineNext]_lineVars /\ WF_lineVars(Search)

-----------------------------------------------------------------------------
LineTypeOK ==
  /\ pc \in {"load", "units", "lines", "run", "unit", "line",
             "found", "null", "failed", "crashed"}
  /\ base_address \in {0, FoundBase}
  /\ unit \in 0 .. unit_count
  /\ \A p \in DOMAIN code : code[p] \in {ORG, INT3}

Addresses(rows) == {r.addr : r \in rows}
Below(u, v) == \A q \in RowsOf(table, u), r \in RowsOf(table, v) : q.addr < r.addr

\* The tables lookup_cache() is made for: every unit that was counted has
\* statements, the address ranges of the units do not overlap, and every unit
\* has statements at two addresses at least.
Filled == unit_count = Len(instr_cache)
UnitsApart == \A u, v \in Units(table) : u # v => Below(u, v) \/ Below(v, u)
TwoAddresses ==
  \A u \in Units(table) :
    \E q \in RowsOf(table, u), r \in RowsOf(table, u) : q.addr < r.addr
Searchable == Filled /\ UnitsApart /\ TwoAddresses

\* lookup_cache() (run.c:429) finds every statement of the table, at its own
\* entry, and never divides by zero or reads outside the arrays: NULL ends the
\* recording, and a division by zero ends the recorder.
LookupExact ==
  pc \in {"unit", "line", "found", "null", "crashed"} =>
    (Searchable /\ address \in Addresses(table) =>
       /\ pc \notin {"null", "crashed"}
       /\ pc = "found" => /\ Addr(index) = address
                          /\ At(Lines, index).row \in table)

\* The images set_breakpoints() handles: every statement is in the child's code,
\* and a relocated program has its code at its load address, out of reach of
\* the addresses of the debug information.
Placed ==
  /\ \A r \in table : r.addr + image.load \in DOMAIN code
  /\ image.load # 0 => image.text = 0 /\ \A r \in table : r.addr \notin DOMAIN code

\* Once set_breakpoints() (run.c:306) has succeeded there is an INT 3 at every
\* statement of the child and nowhere else, and the byte that was there is the
\* one kept with the line, unless another statement has the same address.
BreakpointsPlaced ==
  (Placed /\ pc \in {"run", "unit", "line", "found", "null", "crashed"}) =>
    /\ {p \in DOMAIN code : code[p] = INT3} = {r.addr + image.load : r \in table}
    /\ table # {} => base_address = image.load
    /\ pc = "found" /\ (\A q, r \in table : q.addr = address /\ r.addr = address => q = r)
         => At(Lines, index).org_instr_byte = ORG

\* lookup_cache() returns for every statement of such a table: the loops of run.c:438
\* and run.c:457 get nearer to it in every iteration.  (For an address that is not
\* among the lines of the unit found the second one may go on for ever.)
LookupReturns ==
  (pc \in {"unit", "line"} /\ Searchable /\ address \in Addresses(table)) ~> pc = "found"
=============================================================================
