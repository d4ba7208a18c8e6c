---------------------------- MODULE StartupProofs ----------------------------
(***************************************************************************)
(* Theorems about the start of a recording.                                *)
(*                                                                         *)
(* lookup_cache() is exact for every statement table: LookupExact holds in *)
(* every state of LineSpec, whatever the units, the number of lines and    *)
(* the addresses are.  The invariant has two parts: what set_breakpoints() *)
(* has built (Cache), and how the interval of the running search brackets  *)
(* the address that is looked for (Bracket).                               *)
(*                                                                         *)
(* The breakpoints themselves are placed exactly: BreakpointsPlaced holds  *)
(* too.  Its invariant adds where the child's code is mapped (Mapping),    *)
(* that a search of any address stays inside the arrays (Within), and what *)
(* the bytes of the code are while the lines are being fetched (Bytes).    *)
(*                                                                         *)
(* alter_db() resolves the types: TypesResolved holds in every state of    *)
(* Spec, for every program.  What one UPDATE makes of a table is an        *)
(* induction over its rows (PassResult); the invariant TypesInv says what  *)
(* the handlers of proc_symbols() have stored by then.                     *)
(*                                                                         *)
(* And it derives the scopes and the function marks: ScopesExact and       *)
(* FlagsExact hold for every program.  ScopesInv says that the tables are  *)
(* the scopes and the functions of the entries passed so far (ScopeTable,  *)
(* FunctionTable), that the stack is the scopes around the current entry   *)
(* (AtScope), and what the statements have at each stage of alter_db()     *)
(* (Stage).  That scopes nest is what DWARF says (NestingAssumption).      *)
(***************************************************************************)
EXTENDS Startup, InductionFacts, SequenceTheorems, FiniteSetTheorems

Running == {"run", "unit", "line", "found", "null", "crashed"}
PCs == Running \cup {"load", "units", "lines", "failed"}

LineSet == [row : table, org_instr_byte : {ORG, INT3}]
EntrySet == [unit : Units(table), start : Nat, end : Nat, lines : Seq(LineSet)]

TypeInv ==
  /\ \A r \in table : r.addr \in Nat
  /\ unit_count \in Nat
  /\ code \in [DOMAIN code -> {ORG, INT3}]
  /\ instr_cache \in Seq(EntrySet)
  /\ pc \in PCs
  /\ pc = "load" => instr_cache = <<>>
  /\ pc = "lines" => Len(instr_cache) > 0
  /\ unit \in Nat /\ (unit = 0 \/ unit < Len(instr_cache) \/ pc = "crashed")
  /\ pc = "unit" => left \in Nat /\ right \in Nat /\ index \in Nat

(* ---- the cache ---- *)

\* The lines of an entry are rows of its unit, in address order.
LinesSorted(rows, e) ==
  /\ \A a \in DOMAIN e.lines : e.lines[a].row \in RowsOf(rows, e.unit)
  /\ \A a, b \in DOMAIN e.lines : a <= b => e.lines[a].row.addr <= e.lines[b].row.addr
\* The rows that are not there yet come after the ones that are.
LinesBefore(rows, e) ==
  \A q \in RowsOf(rows, e.unit), a \in DOMAIN e.lines :
    q \in Fetched(e.lines) \/ e.lines[a].row.addr <= q.addr
\* start and end are the lowest and the highest address of the unit.
BoundsExact(rows, e) ==
  /\ \E lo \in RowsOf(rows, e.unit) : lo.addr = e.start
  /\ \E hi \in RowsOf(rows, e.unit) : hi.addr = e.end
  /\ \A q \in RowsOf(rows, e.unit) : e.start <= q.addr /\ q.addr <= e.end
Complete(rows, e) == RowsOf(rows, e.unit) \subseteq Fetched(e.lines)
EntryOK(rows, e) == LinesSorted(rows, e) /\ LinesBefore(rows, e) /\ BoundsExact(rows, e)

\* c is the array of units; built: the last entry is finished too.
HasUnit(c, u) == \E i \in DOMAIN c : c[i].unit = u
EntriesOK(c, rows, built) ==
  \A i \in DOMAIN c :
    /\ EntryOK(rows, c[i])
    /\ built \/ i < Len(c) => Complete(rows, c[i])
    /\ \A q \in rows : HasUnit(c, q.unit) \/ c[i].start <= q.addr
UnitsSorted(c) ==
  \A i, j \in DOMAIN c : i < j => c[i].start <= c[j].start /\ c[i].unit # c[j].unit
AllCached(c, rows, run) == run => \A u \in Units(rows) : HasUnit(c, u)

Cache ==
  /\ EntriesOK(instr_cache, table, pc \notin {"lines", "failed"})
  /\ UnitsSorted(instr_cache)
  /\ AllCached(instr_cache, table, pc \in Running)

(* ---- the searches ---- *)
Wanted == Searchable /\ address \in Addresses(table)

UnitBracket ==
  /\ right <= Len(instr_cache)
  /\ index = (left + right) \div 2
  /\ \E k \in left .. right - 1 :
       At(instr_cache, k).start <= address /\ address <= At(instr_cache, k).end

LineBracket ==
  /\ unit < Len(instr_cache)
  /\ left \in Nat /\ right \in Nat /\ right < Len(Lines)
  /\ left_addr = Addr(left) /\ right_addr = Addr(right) /\ left_addr < right_addr
  /\ \E k \in left .. right : Addr(k) = address

Found ==
  /\ unit < Len(instr_cache)
  /\ index \in Nat /\ index < Len(Lines) /\ Addr(index) = address

Bracket ==
  Wanted => /\ pc = "unit" => UnitBracket
            /\ pc = "line" => LineBracket
            /\ pc = "found" => Found
            /\ pc \notin {"null", "crashed"}

Inv == TypeInv /\ Cache /\ Bracket

Typed ==
  /\ \A rows \in Tables : \A r \in rows : r.addr \in Nat
  /\ Counts \subseteq Nat

-----------------------------------------------------------------------------
(* Arithmetic *)

\* Products of natural numbers are monotonic: used for DivBounds.
LEMMA MulMono ==
  ASSUME NEW d \in Nat, NEW b \in Nat, NEW n \in Nat, d <= b
  PROVE  d * n <= b * n
<1>1. b * n = d * n + (b - d) * n  OBVIOUS
<1>2. (b - d) * n >= 0  OBVIOUS
<1>3. d * n \in Int /\ b * n \in Int /\ (b - d) * n \in Int  OBVIOUS
<1> QED  BY <1>1, <1>2, <1>3

\* The interpolated offset of lookup_cache() (run.c:460) stays in the interval, and
\* hits its ends exactly when the address is the address of that end.
LEMMA DivBounds ==
  ASSUME NEW d \in Nat, NEW n \in Nat, NEW b \in Nat, 0 < b, d <= b
  PROVE  /\ (d * n) \div b \in Nat
         /\ (d * n) \div b <= n
         /\ d = b => (d * n) \div b = n
         /\ d = 0 => (d * n) \div b = 0
<1> DEFINE q == (d * n) \div b
<1>1. d * n \in Nat  OBVIOUS
<1>2. q \in Int /\ b * q <= d * n /\ d * n < b * q + b  BY <1>1
<1>3. d * n <= b * n  BY MulMono
<1>4. q >= 0
  <2>1. SUFFICES ASSUME q <= -1 PROVE FALSE  BY <1>2
  <2>2. b * q <= -b  BY <1>2, <2>1
  <2> QED  BY <1>1, <1>2, <2>2
<1>5. q <= n
  <2>1. SUFFICES ASSUME q >= n + 1 PROVE FALSE  BY <1>2
  <2>2. b * q >= b * n + b
    <3>1. b * q = (b * n + b) + b * (q - n - 1)  BY <1>2
    <3>2. b * (q - n - 1) >= 0  BY <1>2, <2>1
    <3> QED  BY <1>2, <3>1, <3>2
  <2> QED  BY <1>2, <1>3, <2>2
<1>6. ASSUME d = b PROVE q >= n
  <2>1. SUFFICES ASSUME q <= n - 1 PROVE FALSE  BY <1>2
  <2>2. b * n >= b * q + b
    <3>1. b * n = (b * q + b) + b * (n - q - 1)  BY <1>2
    <3>2. b * (n - q - 1) >= 0  BY <1>2, <2>1
    <3> QED  BY <1>2, <3>1, <3>2
  <2> QED  BY <1>2, <1>6, <2>2
<1>7. ASSUME d = 0 PROVE q = 0
  BY <1>7
<1> QED  BY <1>2, <1>4, <1>5, <1>6, <1>7

-----------------------------------------------------------------------------
(* Types *)

\* The recorder starts with an empty cache (run.c:109).
LEMMA InitInv == LineInit => Inv
<1> SUFFICES ASSUME LineInit PROVE Inv  OBVIOUS
<1> USE DEF LineInit
<1>1. TypeInv  BY DEF TypeInv, PCs, Running
<1>2. Cache  BY DEF Cache, EntriesOK, UnitsSorted, AllCached, Running
<1>3. Bracket  BY DEF Bracket, Wanted, Addresses
<1> QED  BY <1>1, <1>2, <1>3 DEF Inv

\* What an entry of the cache is made of.
LEMMA EntryType ==
  ASSUME instr_cache \in Seq(EntrySet), NEW n \in DOMAIN instr_cache
  PROVE  /\ instr_cache[n] \in EntrySet
         /\ instr_cache[n].unit \in Units(table)
         /\ instr_cache[n].start \in Nat /\ instr_cache[n].end \in Nat
         /\ instr_cache[n].lines \in Seq(LineSet)
<1>1. instr_cache[n] \in EntrySet  OBVIOUS
<1> QED  BY <1>1 DEF EntrySet

\* Every step keeps the types.
LEMMA TypeStep ==
  ASSUME Typed, TypeInv, [LineNext]_lineVars
  PROVE  TypeInv'
<1> USE DEF TypeInv, PCs, Running
<1>1. CASE \E rows \in Tables, count \in Counts : unit_count' = count /\ Load(rows)
  BY <1>1 DEF Load, Typed, searchVars
<1>2. CASE FetchUnit
  <2> USE <1>2 DEF FetchUnit, inputVars, searchVars
  <2>1. PICK u \in Units(table), lo \in table, hi \in table :
          instr_cache' = Append(instr_cache,
             [unit |-> u, start |-> lo.addr, end |-> hi.addr, lines |-> <<>>])
    BY DEF RowsOf
  <2>2. lo.addr \in Nat /\ hi.addr \in Nat  OBVIOUS
  <2>3. <<>> \in Seq(LineSet)  OBVIOUS
  <2>4. [unit |-> u, start |-> lo.addr, end |-> hi.addr, lines |-> <<>>] \in EntrySet
    BY <2>2, <2>3 DEF EntrySet
  <2>5. instr_cache' \in Seq(EntrySet) /\ Len(instr_cache') = Len(instr_cache) + 1
    BY <2>1, <2>4
  <2>6. EntrySet' = EntrySet  BY DEF EntrySet, LineSet
  <2> QED  BY <2>5, <2>6
<1>3. CASE FetchLine
  <2> USE <1>3 DEF FetchLine, inputVars, searchVars
  <2>1. EntrySet' = EntrySet  BY DEF EntrySet, LineSet
  <2>2. CASE UNCHANGED <<code, base_address, instr_cache>> /\ pc' = "failed"
    BY <2>1, <2>2
  <2>3. ASSUME NEW r \in Pending, NEW b, SetBreakpoint(r, b)
        PROVE  /\ instr_cache' \in Seq(EntrySet) /\ Len(instr_cache') = Len(instr_cache)
               /\ code' \in [DOMAIN code' -> {ORG, INT3}]
               /\ pc' = pc
    <3>1. PICK n : n = Len(instr_cache) /\ pc = "lines" /\ n \in DOMAIN instr_cache  OBVIOUS
    <3>2. r \in table  BY <2>3 DEF Pending, RowsOf
    <3>3. instr_cache[n] \in EntrySet /\ instr_cache[n].lines \in Seq(LineSet)
      BY <3>1, EntryType
    <3>4. [row |-> r, org_instr_byte |-> code[r.addr + b]] \in LineSet
      BY <2>3, <3>2 DEF LineSet, SetBreakpoint
    <3>5. Append(instr_cache[n].lines, [row |-> r, org_instr_byte |-> code[r.addr + b]])
            \in Seq(LineSet)
      BY <3>3, <3>4
    <3>6. [instr_cache[n] EXCEPT !.lines =
             Append(@, [row |-> r, org_instr_byte |-> code[r.addr + b]])] \in EntrySet
      BY <3>3, <3>5 DEF EntrySet
    <3>7. instr_cache' = [instr_cache EXCEPT ![n] = [instr_cache[n] EXCEPT !.lines =
             Append(@, [row |-> r, org_instr_byte |-> code[r.addr + b]])]]
      BY <2>3, <3>1 DEF SetBreakpoint
    <3>8. instr_cache' \in Seq(EntrySet) /\ Len(instr_cache') = Len(instr_cache)
      BY <3>1, <3>6, <3>7
    <3> QED  BY <2>3, <3>8 DEF SetBreakpoint
  <2>4. CASE \E r \in Pending : \E b : SetBreakpoint(r, b)
    BY <2>1, <2>3, <2>4
  <2> QED  BY <2>2, <2>4
<1>4. CASE UnitsDone \/ LinesDone \/ FailBreakpoints \/ UseLine \/ UnitNotFound \/ LineNotFound
  BY <1>4 DEF UnitsDone, LinesDone, FailBreakpoints, UseLine, UnitNotFound, LineNotFound,
              inputVars, searchVars, EntrySet, LineSet
<1>5. CASE Lookup
  <2> USE <1>5 DEF Lookup, inputVars
  <2>1. EntrySet' = EntrySet  BY DEF EntrySet, LineSet
  <2>2. unit_count \div 2 \in Nat  OBVIOUS
  <2> QED  BY <2>1, <2>2 DEF BeginLines
<1>6. CASE SearchUnit
  <2>1. EntrySet' = EntrySet  BY <1>6 DEF SearchUnit, inputVars, EntrySet, LineSet
  <2>2. /\ UNCHANGED <<table, unit_count, code, instr_cache>> /\ pc = "unit"
        /\ left \in Nat /\ right \in Nat /\ index \in Nat
    BY <1>6 DEF SearchUnit, inputVars
  <2>3. (left + index) \div 2 \in Nat /\ (index + 1 + right) \div 2 \in Nat  BY <2>2
  <2>4. \/ /\ unit' = unit /\ pc' = pc /\ right' = index /\ left' = left
           /\ index' = (left + index) \div 2
        \/ /\ unit' = unit /\ pc' = pc /\ right' = right /\ left' = index + 1
           /\ index' = (index + 1 + right) \div 2
        \/ unit' = index /\ BeginLines(index)
    BY <1>6 DEF SearchUnit
  <2>5. CASE unit' = unit /\ pc' = pc /\ left' \in Nat /\ right' \in Nat /\ index' \in Nat
    BY <2>1, <2>2, <2>5
  <2>6. CASE unit' = index /\ BeginLines(index)
    BY <2>1, <2>2, <2>6 DEF BeginLines
  <2> QED  BY <2>2, <2>3, <2>4, <2>5, <2>6
<1>7. CASE SearchLine
  BY <1>7 DEF SearchLine, CompareLine, inputVars, EntrySet, LineSet
<1>8. CASE UNCHANGED lineVars
  BY <1>8 DEF lineVars, EntrySet, LineSet
<1> QED
  BY <1>1, <1>2, <1>3, <1>4, <1>5, <1>6, <1>7, <1>8 DEF LineNext, LineStep, Search

-----------------------------------------------------------------------------
(* The cache that set_breakpoints() builds *)

\* A row of the line cursor, which is the lowest one left, keeps the lines in order.
LEMMA AppendLine ==
  ASSUME NEW rows, \A r \in rows : r.addr \in Nat,
         NEW S, NEW e, NEW l, NEW f,
         e.lines \in Seq(S), l \in S,
         LinesSorted(rows, e), LinesBefore(rows, e),
         IsMin(l.row, RowsOf(rows, e.unit) \ Fetched(e.lines)),
         f.unit = e.unit, f.lines = Append(e.lines, l)
  PROVE  LinesSorted(rows, f) /\ LinesBefore(rows, f)
<1>2. /\ DOMAIN f.lines = 1 .. Len(e.lines) + 1
      /\ f.lines[Len(e.lines) + 1] = l
      /\ \A a \in DOMAIN e.lines : f.lines[a] = e.lines[a]
      /\ DOMAIN e.lines = 1 .. Len(e.lines) /\ Len(e.lines) \in Nat
  OBVIOUS
<1>3. /\ l.row \in RowsOf(rows, e.unit) /\ l.row \in rows /\ l.row \notin Fetched(e.lines)
      /\ \A q \in RowsOf(rows, e.unit) : q \in Fetched(e.lines) \/ l.row.addr <= q.addr
  BY DEF IsMin, RowsOf
<1>4. \A a \in DOMAIN e.lines : /\ e.lines[a].row \in RowsOf(rows, e.unit)
                               /\ e.lines[a].row \in rows
                               /\ e.lines[a].row.addr \in Nat
                               /\ e.lines[a].row.addr <= l.row.addr
  BY <1>3 DEF LinesSorted, LinesBefore, RowsOf
<1>5. LinesSorted(rows, f)
  <2>1. \A a \in DOMAIN f.lines : f.lines[a].row \in RowsOf(rows, f.unit)
    BY <1>2, <1>3, <1>4
  <2>2. ASSUME NEW a \in DOMAIN f.lines, NEW b \in DOMAIN f.lines, a <= b
        PROVE  f.lines[a].row.addr <= f.lines[b].row.addr
    <3>1. CASE b \in DOMAIN e.lines
      BY <1>2, <2>2, <3>1 DEF LinesSorted
    <3>2. CASE b = Len(e.lines) + 1 /\ a \in DOMAIN e.lines
      BY <1>2, <1>4, <3>2
    <3>3. CASE b = Len(e.lines) + 1 /\ a = b
      BY <1>2, <1>3, <3>3
    <3> QED  BY <1>2, <2>2, <3>1, <3>2, <3>3
  <2> QED  BY <2>1, <2>2 DEF LinesSorted
<1>6. LinesBefore(rows, f)
  <2>1. ASSUME NEW q \in RowsOf(rows, e.unit), NEW a \in DOMAIN f.lines
        PROVE  q \in Fetched(f.lines) \/ f.lines[a].row.addr <= q.addr
    <3>1. CASE q \in Fetched(e.lines)
      BY <1>2, <3>1 DEF Fetched
    <3>2. CASE q \notin Fetched(e.lines) /\ a \in DOMAIN e.lines
      BY <1>2, <3>2 DEF LinesBefore
    <3>3. CASE q \notin Fetched(e.lines) /\ a = Len(e.lines) + 1
      BY <1>2, <1>3, <3>3
    <3> QED  BY <1>2, <3>1, <3>2, <3>3
  <2> QED  BY <2>1 DEF LinesBefore
<1> QED  BY <1>5, <1>6

\* A unit of the unit cursor, which is the lowest one left, keeps the units in order.
LEMMA AppendUnit ==
  ASSUME NEW rows, \A r \in rows : r.addr \in Nat,
         NEW S, NEW c \in Seq(S), NEW e \in S, NEW d, d = Append(c, e),
         EntriesOK(c, rows, TRUE), UnitsSorted(c),
         ~HasUnit(c, e.unit), e.lines = <<>>, BoundsExact(rows, e),
         \A q \in rows : HasUnit(c, q.unit) \/ e.start <= q.addr
  PROVE  EntriesOK(d, rows, FALSE) /\ UnitsSorted(d)
<1> DEFINE n == Len(c)
<1>1. /\ DOMAIN d = 1 .. n + 1 /\ DOMAIN c = 1 .. n /\ n \in Nat /\ Len(d) = n + 1
      /\ \A i \in 1 .. n : d[i] = c[i]
      /\ d[n + 1] = e
  OBVIOUS
<1>2. \A v : HasUnit(c, v) => HasUnit(d, v)  BY <1>1 DEF HasUnit
<1>3. EntryOK(rows, e)
  BY DEF EntryOK, LinesSorted, LinesBefore
<1>4. EntriesOK(d, rows, FALSE)  BY <1>1, <1>2, <1>3 DEF EntriesOK
<1>5. \A i \in 1 .. n : c[i].unit # e.unit  BY <1>1 DEF HasUnit
<1>6. \A i \in 1 .. n : c[i].start <= e.start
  <2>1. PICK lo \in rows : lo.unit = e.unit /\ lo.addr = e.start  BY DEF BoundsExact, RowsOf
  <2> QED  BY <1>1, <2>1 DEF EntriesOK
<1>7. UnitsSorted(d)  BY <1>1, <1>5, <1>6 DEF UnitsSorted
<1> QED  BY <1>4, <1>7

\* A line added to the last unit.
LEMMA ReplaceLast ==
  ASSUME NEW rows, NEW n \in Nat, n > 0, NEW c, NEW d, NEW f,
         DOMAIN c = 1 .. n, Len(c) = n, DOMAIN d = 1 .. n, Len(d) = n,
         d[n] = f, \A i \in 1 .. n : i # n => d[i] = c[i],
         EntriesOK(c, rows, FALSE), UnitsSorted(c), EntryOK(rows, f),
         f.unit = c[n].unit, f.start = c[n].start
  PROVE  EntriesOK(d, rows, FALSE) /\ UnitsSorted(d)
<1>1. n \in 1 .. n  OBVIOUS
<1>2. \A i \in 1 .. n : d[i].unit = c[i].unit /\ d[i].start = c[i].start  BY <1>1
<1>3. \A v : HasUnit(c, v) <=> HasUnit(d, v)  BY <1>1, <1>2 DEF HasUnit
<1>4. \A i \in 1 .. n : EntryOK(rows, d[i])  BY <1>1 DEF EntriesOK
<1>5. ASSUME NEW i \in 1 .. n
      PROVE  /\ i < n => Complete(rows, d[i])
             /\ \A q \in rows : HasUnit(d, q.unit) \/ d[i].start <= q.addr
  <2>1. \A q \in rows : HasUnit(c, q.unit) \/ c[i].start <= q.addr  BY <1>1 DEF EntriesOK
  <2>2. i < Len(c) => Complete(rows, c[i])
    <3>1. i \in DOMAIN c  BY <1>1
    <3> QED  BY <3>1 DEF EntriesOK
  <2>3. i < n => d[i] = c[i]  OBVIOUS
  <2> QED  BY <1>2, <1>3, <2>1, <2>2, <2>3
<1>6. EntriesOK(d, rows, FALSE)
  <2> SUFFICES ASSUME NEW i \in DOMAIN d
               PROVE  /\ EntryOK(rows, d[i])
                      /\ i < Len(d) => Complete(rows, d[i])
                      /\ \A q \in rows : HasUnit(d, q.unit) \/ d[i].start <= q.addr
    BY DEF EntriesOK
  <2> QED  BY <1>1, <1>4, <1>5
<1>7. UnitsSorted(d)
  <2> SUFFICES ASSUME NEW i \in DOMAIN d, NEW j \in DOMAIN d, i < j
               PROVE  d[i].start <= d[j].start /\ d[i].unit # d[j].unit
    BY DEF UnitsSorted
  <2>1. c[i].start <= c[j].start /\ c[i].unit # c[j].unit  BY <1>1 DEF UnitsSorted
  <2> QED  BY <1>1, <1>2, <2>1
<1> QED  BY <1>6, <1>7

\* A line added to an entry changes nothing else of it.
LEMMA ExtendEntry ==
  ASSUME NEW e \in EntrySet, NEW l \in LineSet
  PROVE  LET f == [e EXCEPT !.lines = Append(@, l)]
         IN  /\ f \in EntrySet /\ f.unit = e.unit /\ f.lines = Append(e.lines, l)
             /\ f.start = e.start /\ f.end = e.end
<1>1. Append(e.lines, l) \in Seq(LineSet)  BY DEF EntrySet
<1> QED  BY <1>1 DEF EntrySet

\* Every step keeps the cache sorted and complete.
LEMMA CacheStep ==
  ASSUME TypeInv, TypeInv', Cache, [LineNext]_lineVars
  PROVE  Cache'
<1> USE DEF Cache
<1>1. CASE \E rows \in Tables : Load(rows)
  BY <1>1 DEF Load, TypeInv, EntriesOK, UnitsSorted, AllCached, Running
<1>2. CASE FetchUnit
  <2>1. PICK u \in Units(table), lo \in table, hi \in table :
          /\ ~Cached(u)
          /\ IsMin(lo, RowsOf(table, u)) /\ IsMax(hi, RowsOf(table, u))
          /\ \A q \in table : Cached(q.unit) \/ lo.addr <= q.addr
          /\ instr_cache' = Append(instr_cache,
               [unit |-> u, start |-> lo.addr, end |-> hi.addr, lines |-> <<>>])
    BY <1>2 DEF FetchUnit, RowsOf
  <2> DEFINE e == [unit |-> u, start |-> lo.addr, end |-> hi.addr, lines |-> <<>>]
  <2>2. table' = table /\ pc = "units" /\ pc' = "lines"  BY <1>2 DEF FetchUnit, inputVars
  <2>3. e.unit = u /\ e.start = lo.addr /\ e.end = hi.addr /\ e.lines = <<>>  OBVIOUS
  <2>4. e \in EntrySet
    <3>1. <<>> \in Seq(LineSet)  OBVIOUS
    <3> QED  BY <3>1 DEF EntrySet, TypeInv
  <2> HIDE DEF e
  <2>5. BoundsExact(table, e)  BY <2>1, <2>3 DEF BoundsExact, IsMin, IsMax
  <2>6. ~HasUnit(instr_cache, e.unit) /\ \A q \in table : HasUnit(instr_cache, q.unit) \/ e.start <= q.addr
    BY <2>1, <2>3 DEF HasUnit, Cached
  <2>7. instr_cache' = Append(instr_cache, e)  BY <2>1 DEF e
  <2>8. EntriesOK(instr_cache, table, TRUE)  BY <2>2
  <2>9. EntriesOK(instr_cache', table, FALSE) /\ UnitsSorted(instr_cache')
    BY <2>3, <2>4, <2>5, <2>6, <2>7, <2>8, AppendUnit, Zenon DEF TypeInv
  <2> QED  BY <2>2, <2>9 DEF AllCached, Running
<1>3. CASE FetchLine
  <2>1. table' = table /\ pc = "lines" /\ EntriesOK(instr_cache, table, FALSE)
    BY <1>3 DEF FetchLine, inputVars
  <2>2. CASE UNCHANGED instr_cache /\ pc' = "failed"
    BY <2>1, <2>2 DEF AllCached, Running
  <2>3. CASE \E r \in Pending : IsMin(r, Pending) /\ \E b : SetBreakpoint(r, b)
    <3>0. PICK r \in Pending : IsMin(r, Pending) /\ \E b : SetBreakpoint(r, b)  BY <2>3
    <3>1. PICK b : r \in Pending /\ IsMin(r, Pending) /\ SetBreakpoint(r, b)  BY <3>0
    <3> DEFINE l == [row |-> r, org_instr_byte |-> code[r.addr + b]]
               n == Len(instr_cache)
               e == instr_cache[n]
               f == [e EXCEPT !.lines = Append(@, l)]
    <3>2. n \in Nat /\ n \in DOMAIN instr_cache /\ instr_cache # <<>>
      BY <2>1 DEF TypeInv
    <3>3. e \in EntrySet /\ e.lines \in Seq(LineSet) /\ l \in LineSet
      BY <3>1, <3>2, EntryType DEF TypeInv, LineSet, SetBreakpoint, Pending, RowsOf
    <3>4. instr_cache' = [instr_cache EXCEPT ![n] = f] /\ pc' = "lines"
      BY <2>1, <3>1 DEF SetBreakpoint
    <3>5. f \in EntrySet /\ f.unit = e.unit /\ f.lines = Append(e.lines, l)
          /\ f.start = e.start /\ f.end = e.end /\ l.row = r
      <4> HIDE DEF e
      <4>1. l.row = r  OBVIOUS
      <4> HIDE DEF l
      <4> QED  BY <3>3, <4>1, ExtendEntry
    <3>6. IsMin(r, RowsOf(table, e.unit) \ Fetched(e.lines))
      BY <3>1 DEF Pending, CurUnit
    <3>7. EntryOK(table, e)  BY <2>1, <3>2 DEF EntriesOK
    <3> HIDE DEF l, f, e
    <3>8. LinesSorted(table, f) /\ LinesBefore(table, f)
      BY <3>3, <3>5, <3>6, <3>7, AppendLine DEF TypeInv, EntryOK
    <3>9. EntryOK(table, f)
      BY <3>5, <3>7, <3>8 DEF EntryOK, BoundsExact
    <3>10. f.unit = instr_cache[n].unit /\ f.start = instr_cache[n].start
      BY <3>5 DEF e
    <3>11. /\ n > 0 /\ DOMAIN instr_cache = 1 .. n
           /\ DOMAIN instr_cache' = 1 .. n /\ Len(instr_cache') = n
           /\ instr_cache'[n] = f
           /\ \A i \in 1 .. n : i # n => instr_cache'[i] = instr_cache[i]
      BY <3>2, <3>4 DEF TypeInv
    <3>12. EntriesOK(instr_cache', table, FALSE) /\ UnitsSorted(instr_cache')
      BY <2>1, <3>2, <3>5, <3>9, <3>10, <3>11, ReplaceLast DEF TypeInv
    <3> QED  BY <2>1, <3>4, <3>12 DEF AllCached, Running
  <2> QED  BY <1>3, <2>2, <2>3 DEF FetchLine
<1>4. ASSUME UNCHANGED <<table, instr_cache>>,
             pc' \in Running => pc \in Running \/ \A u \in Units(table) : Cached(u),
             pc' \notin {"lines", "failed"} =>
               \/ pc \notin {"lines", "failed"}
               \/ instr_cache # <<>> /\ Complete(table, CurUnit)
      PROVE  Cache'
  <2>1. AllCached(instr_cache, table, pc' \in Running)
    BY <1>4 DEF AllCached, Cached, HasUnit
  <2>2. ASSUME NEW i \in DOMAIN instr_cache, pc' \notin {"lines", "failed"} \/ i < Len(instr_cache)
        PROVE  Complete(table, instr_cache[i])
    <3>1. CASE i < Len(instr_cache) \/ pc \notin {"lines", "failed"}  BY <3>1 DEF EntriesOK
    <3>2. CASE ~(i < Len(instr_cache)) /\ pc \in {"lines", "failed"}
      <4>1. i = Len(instr_cache)  BY <3>2 DEF TypeInv
      <4> QED  BY <1>4, <2>2, <3>2, <4>1 DEF CurUnit
    <3> QED  BY <3>1, <3>2
  <2>3. EntriesOK(instr_cache, table, pc' \notin {"lines", "failed"})  BY <2>2 DEF EntriesOK
  <2> QED  BY <1>4, <2>1, <2>3
<1>5. CASE UnitsDone
  BY <1>4, <1>5 DEF UnitsDone, inputVars
<1>6. CASE LinesDone
  BY <1>4, <1>6 DEF LinesDone, inputVars, Pending, Complete, Running, TypeInv
<1>7. CASE FailBreakpoints
  BY <1>4, <1>7 DEF FailBreakpoints, inputVars, Running
<1>8. CASE Lookup \/ SearchUnit \/ UnitNotFound \/ SearchLine \/ LineNotFound \/ UseLine
  BY <1>4, <1>8 DEF Lookup, SearchUnit, UnitNotFound, SearchLine, LineNotFound, UseLine,
                    BeginLines, CompareLine, inputVars, Running
<1>9. CASE UNCHANGED lineVars
  BY <1>4, <1>9 DEF lineVars, Running
<1> QED
  BY <1>1, <1>2, <1>3, <1>5, <1>6, <1>7, <1>8, <1>9 DEF LineNext, LineStep, Search

-----------------------------------------------------------------------------
(* The searches of lookup_cache() *)

\* What the cache says about one entry while the child runs.
LEMMA RunningEntry ==
  ASSUME TypeInv, Cache, pc \in Running, NEW i \in DOMAIN instr_cache
  PROVE  /\ instr_cache[i].start \in Nat /\ instr_cache[i].end \in Nat
         /\ instr_cache[i].unit \in Units(table)
         /\ instr_cache[i].lines \in Seq(LineSet)
         /\ LinesSorted(table, instr_cache[i])
         /\ BoundsExact(table, instr_cache[i])
         /\ Complete(table, instr_cache[i])
<1>1. EntriesOK(instr_cache, table, TRUE)  BY DEF Cache, Running
<1> QED  BY <1>1, EntryType DEF TypeInv, EntriesOK, EntryOK

\* An address of the table that lies within the bounds of an entry belongs to its unit.
LEMMA Owner ==
  ASSUME TypeInv, Cache, pc \in Running, UnitsApart,
         NEW i \in DOMAIN instr_cache, NEW r \in table,
         instr_cache[i].start <= r.addr, r.addr <= instr_cache[i].end
  PROVE  r.unit = instr_cache[i].unit
<1> DEFINE u == instr_cache[i].unit
<1>1. BoundsExact(table, instr_cache[i]) /\ u \in Units(table)  BY RunningEntry
<1>2. PICK lo \in RowsOf(table, u) : lo.addr = instr_cache[i].start  BY <1>1 DEF BoundsExact
<1>3. PICK hi \in RowsOf(table, u) : hi.addr = instr_cache[i].end  BY <1>1 DEF BoundsExact
<1>4. SUFFICES ASSUME r.unit # u PROVE FALSE  OBVIOUS
<1>5. r \in RowsOf(table, r.unit) /\ r.unit \in Units(table)  BY DEF RowsOf, Units
<1>6. Below(r.unit, u) \/ Below(u, r.unit)  BY <1>1, <1>4, <1>5 DEF UnitsApart
<1>7. r.addr < lo.addr \/ hi.addr < r.addr  BY <1>2, <1>3, <1>5, <1>6 DEF Below
<1>8. r.addr \in Nat /\ lo.addr \in Nat /\ hi.addr \in Nat  BY DEF TypeInv, RowsOf
<1> QED  BY <1>2, <1>3, <1>7, <1>8

\* Every address of the table lies within the bounds of some entry.
LEMMA UnitExists ==
  ASSUME TypeInv, Cache, pc \in Running, NEW a \in Addresses(table)
  PROVE  \E i \in DOMAIN instr_cache : instr_cache[i].start <= a /\ a <= instr_cache[i].end
<1>1. PICK r \in table : r.addr = a  BY DEF Addresses
<1>2. PICK i \in DOMAIN instr_cache : instr_cache[i].unit = r.unit
  BY DEF Cache, AllCached, HasUnit, Units
<1>3. r \in RowsOf(table, instr_cache[i].unit)  BY <1>2 DEF RowsOf
<1> QED  BY <1>1, <1>3, RunningEntry DEF BoundsExact

\* The search for the line starts with bounds that bracket the address and differ.
LEMMA BeginInside ==
  ASSUME TypeInv, Cache, pc \in Running, UnitsApart, TwoAddresses,
         NEW a \in Addresses(table), NEW i \in DOMAIN instr_cache,
         instr_cache[i].start <= a, a <= instr_cache[i].end
  PROVE  LET L == instr_cache[i].lines
         IN  /\ Len(L) \in Nat /\ Len(L) > 0
             /\ L[1].row.addr < L[Len(L)].row.addr
             /\ \E k \in 1 .. Len(L) : L[k].row.addr = a
<1> DEFINE L == instr_cache[i].lines
           u == instr_cache[i].unit
<1>1. /\ u \in Units(table) /\ L \in Seq(LineSet)
      /\ LinesSorted(table, instr_cache[i]) /\ RowsOf(table, u) \subseteq Fetched(L)
  BY RunningEntry DEF Complete
<1>2. PICK r \in table : r.addr = a  BY DEF Addresses
<1>3. r \in RowsOf(table, u)  BY <1>2, Owner DEF RowsOf
<1>4. DOMAIN L = 1 .. Len(L) /\ Len(L) \in Nat  BY <1>1
<1>5. PICK k \in DOMAIN L : L[k].row = r  BY <1>1, <1>3 DEF Fetched
<1>6. PICK q1 \in RowsOf(table, u), q2 \in RowsOf(table, u) : q1.addr < q2.addr
  BY <1>1 DEF TwoAddresses
<1>7. PICK j1 \in DOMAIN L : L[j1].row = q1  BY <1>1, <1>6 DEF Fetched
<1>8. PICK j2 \in DOMAIN L : L[j2].row = q2  BY <1>1, <1>6 DEF Fetched
<1>9. /\ Len(L) > 0 /\ 1 \in DOMAIN L /\ Len(L) \in DOMAIN L /\ 1 <= j1 /\ j2 <= Len(L)
  BY <1>4, <1>5, <1>7, <1>8
<1>10. L[1].row.addr <= q1.addr /\ q2.addr <= L[Len(L)].row.addr
  BY <1>1, <1>7, <1>8, <1>9 DEF LinesSorted
<1>11. /\ L[1].row.addr \in Nat /\ L[Len(L)].row.addr \in Nat
       /\ q1.addr \in Nat /\ q2.addr \in Nat
  BY <1>1, <1>6, <1>9 DEF LinesSorted, RowsOf, TypeInv
<1>12. L[1].row.addr < L[Len(L)].row.addr  BY <1>6, <1>10, <1>11
<1> QED  BY <1>2, <1>4, <1>5, <1>9, <1>12

\* The interpolated index (run.c:460) stays between left and right, and is one of them
\* only when it must be.
LEMMA IndexBounds ==
  ASSUME NEW l \in Nat, NEW r \in Nat, l <= r, NEW x \in Nat, NEW y \in Nat, NEW a \in Nat,
         x < y, x <= a, a <= y
  PROVE  LET i == l + ((a - x) * (r - l)) \div (y - x)
         IN  i \in l .. r /\ (a = y => i = r) /\ (a = x => i = l)
<1>1. PICK d \in Nat, n \in Nat, b \in Nat :
        d = a - x /\ n = r - l /\ b = y - x /\ 0 < b /\ d <= b
  OBVIOUS
<1>2. PICK q : q = (d * n) \div b  OBVIOUS
<1>3. q \in Nat /\ q <= n /\ (d = b => q = n) /\ (d = 0 => q = 0)  BY <1>1, <1>2, DivBounds
<1>4. l + q \in l .. r /\ (a = y => l + q = r) /\ (a = x => l + q = l)  BY <1>1, <1>3
<1> QED  BY <1>1, <1>2, <1>4

\* One iteration of the search for the line (run.c:457), on the addresses A of the
\* lines: the interval that is left still has the address, and its ends differ.
LEMMA Interpolation ==
  ASSUME NEW m \in Nat, NEW A, \A x \in 0 .. m - 1 : A[x] \in Nat,
         \A x, y \in 0 .. m - 1 : x <= y => A[x] <= A[y],
         NEW l \in Nat, NEW r \in Nat, r < m,
         NEW k \in l .. r, NEW a \in Nat, A[k] = a,
         NEW i \in l .. r, a = A[r] => i = r, a = A[l] => i = l
  PROVE  /\ a < A[i] => i > 0 /\ k \in l .. i - 1 /\ A[l] < A[i - 1]
         /\ a > A[i] => i + 1 < m /\ k \in i + 1 .. r /\ A[i + 1] < A[r]
<1>1. /\ l \in 0 .. m - 1 /\ r \in 0 .. m - 1 /\ k \in 0 .. m - 1 /\ i \in 0 .. m - 1
      /\ l <= k /\ k <= r
  OBVIOUS
<1>2. A[l] \in Nat /\ A[r] \in Nat /\ A[l] <= a /\ a <= A[r]  BY <1>1
<1>3. ASSUME a < A[i] PROVE i > 0 /\ k \in l .. i - 1 /\ A[l] < A[i - 1]
  <2>1. A[i] \in Nat /\ ~(i <= k)  BY <1>1, <1>3
  <2>2. i > 0 /\ k \in l .. i - 1 /\ i - 1 \in 0 .. m - 1 /\ k <= i - 1  BY <1>1, <2>1
  <2>3. a <= A[i - 1] /\ A[i - 1] \in Nat  BY <1>1, <2>2
  <2>4. a # A[l]  BY <1>1, <2>2
  <2> QED  BY <1>2, <2>2, <2>3, <2>4
<1>4. ASSUME a > A[i] PROVE i + 1 < m /\ k \in i + 1 .. r /\ A[i + 1] < A[r]
  <2>1. A[i] \in Nat /\ ~(k <= i)  BY <1>1, <1>4
  <2>2. i + 1 < m /\ k \in i + 1 .. r /\ i + 1 \in 0 .. m - 1 /\ i + 1 <= k  BY <1>1, <2>1
  <2>3. A[i + 1] <= a /\ A[i + 1] \in Nat  BY <1>1, <2>2
  <2>4. a # A[r]  BY <1>1, <2>2
  <2> QED  BY <1>2, <2>2, <2>3, <2>4
<1> QED  BY <1>3, <1>4

\* One iteration of the search for the unit (run.c:438): the address is in entry k, and
\* the entry that is compared is on the side the code takes it to be.
LEMMA UnitSide ==
  ASSUME TypeInv, Cache, pc \in Running, UnitsApart, NEW r \in table,
         NEW k \in DOMAIN instr_cache, NEW i \in DOMAIN instr_cache,
         instr_cache[k].start <= r.addr, r.addr <= instr_cache[k].end
  PROVE  /\ r.addr < instr_cache[i].start => k < i
         /\ r.addr > instr_cache[i].end => i < k
<1>1. /\ instr_cache[i].start \in Nat /\ instr_cache[i].end \in Nat
      /\ instr_cache[k].start \in Nat /\ instr_cache[k].end \in Nat /\ r.addr \in Nat
      /\ BoundsExact(table, instr_cache[i])
  BY RunningEntry DEF TypeInv
<1>2. k \in Nat /\ i \in Nat  BY DEF TypeInv
<1>3. /\ i < k => instr_cache[i].start <= instr_cache[k].start
      /\ k < i => instr_cache[k].start <= instr_cache[i].start
      /\ k # i => instr_cache[k].unit # instr_cache[i].unit
  BY <1>2 DEF Cache, UnitsSorted
<1>4. ASSUME r.addr < instr_cache[i].start PROVE k < i
  BY <1>1, <1>2, <1>3, <1>4
<1>5. ASSUME r.addr > instr_cache[i].end, k < i PROVE FALSE
  <2>1. PICK hi \in RowsOf(table, instr_cache[i].unit) :
          hi.addr = instr_cache[i].end /\ instr_cache[i].start <= hi.addr
    BY <1>1 DEF BoundsExact
  <2>2. hi \in table /\ hi.unit = instr_cache[i].unit  BY <2>1 DEF RowsOf
  <2>3. instr_cache[k].start <= hi.addr /\ hi.addr <= instr_cache[k].end
    BY <1>1, <1>3, <1>5, <2>1
  <2>4. hi.unit = instr_cache[k].unit  BY <2>2, <2>3, Owner
  <2> QED  BY <1>2, <1>3, <1>5, <2>2, <2>4
<1>6. ASSUME r.addr > instr_cache[i].end PROVE i < k
  <2>1. k # i  BY <1>1, <1>6
  <2> QED  BY <1>2, <1>5, <1>6, <2>1
<1> QED  BY <1>4, <1>6

\* The search for the line starts well in the entry that has the address.
LEMMA BeginStep ==
  ASSUME TypeInv, Cache, pc \in Running, UnitsApart, TwoAddresses, address' \in Addresses(table),
         NEW u \in Nat, u < Len(instr_cache), BeginLines(u),
         At(instr_cache, u).start <= address', address' <= At(instr_cache, u).end,
         instr_cache' = instr_cache, unit' = u
  PROVE  pc' = "line" /\ LineBracket'
<1> DEFINE L == instr_cache[u + 1].lines
<1>1. u + 1 \in DOMAIN instr_cache  BY DEF TypeInv
<1>2. /\ Len(L) \in Nat /\ Len(L) > 0
      /\ L[1].row.addr < L[Len(L)].row.addr
      /\ \E k \in 1 .. Len(L) : L[k].row.addr = address'
  BY <1>1, BeginInside DEF At
<1>3. /\ pc' = "line" /\ left' = 0 /\ right' = Len(L) - 1
      /\ left_addr' = L[1].row.addr /\ right_addr' = L[Len(L)].row.addr
  BY DEF BeginLines, At
<1>4. Lines' = L /\ unit' < Len(instr_cache')  BY DEF Lines, At
<1> HIDE DEF L
<1>5. PICK k \in 1 .. Len(L) : L[k].row.addr = address'  BY <1>2
<1>6. Addr(left)' = L[1].row.addr /\ Addr(right)' = L[Len(L)].row.addr
  <2>1. left' + 1 = 1 /\ right' + 1 = Len(L)  BY <1>2, <1>3
  <2> QED  BY <1>4, <2>1 DEF Addr, At
<1>7. \E j \in left' .. right' : L[j + 1].row.addr = address'
  <2>1. k - 1 \in left' .. right' /\ (k - 1) + 1 = k  BY <1>2, <1>3
  <2> QED  BY <1>5, <2>1
<1>8. left' \in Nat /\ right' \in Nat /\ right' < Len(L)  BY <1>2, <1>3
<1> QED  BY <1>2, <1>3, <1>4, <1>6, <1>7, <1>8 DEF LineBracket, Addr, At

\* lookup_cache() is called (run.c:430).
LEMMA LookupStep ==
  ASSUME TypeInv, Cache, Lookup, Wanted'
  PROVE  Bracket'
<1>1. /\ pc = "run" /\ pc \in Running /\ UNCHANGED <<table, unit_count, instr_cache, unit>>
  BY DEF Lookup, Running, inputVars
<1>2. /\ unit_count = Len(instr_cache) /\ UnitsApart /\ TwoAddresses
      /\ address' \in Addresses(table)
  BY <1>1 DEF Wanted, Searchable, Filled, UnitsApart, TwoAddresses, Below
<1>3. PICK i \in DOMAIN instr_cache :
        instr_cache[i].start <= address' /\ address' <= instr_cache[i].end
  BY <1>1, <1>2, UnitExists
<1>4. Len(instr_cache) \in Nat /\ i \in 1 .. Len(instr_cache)  BY DEF TypeInv
<1>5. unit \in Nat /\ unit < Len(instr_cache)  BY <1>1, <1>4 DEF TypeInv
<1>6. CASE BeginLines(unit) /\ Inside(address', At(instr_cache, unit))
  <2>1. pc' = "line" /\ LineBracket'
    BY <1>1, <1>2, <1>5, <1>6, BeginStep DEF Inside
  <2> QED  BY <2>1 DEF Bracket
<1>7. CASE left' = 0 /\ right' = unit_count /\ index' = unit_count \div 2 /\ pc' = "unit"
  <2>1. i - 1 \in left' .. right' - 1 /\ (i - 1) + 1 = i  BY <1>2, <1>4, <1>7
  <2>2. \E k \in left' .. right' - 1 :
          At(instr_cache, k).start <= address' /\ address' <= At(instr_cache, k).end
    BY <1>3, <2>1 DEF At
  <2>3. index' = (left' + right') \div 2 /\ right' <= Len(instr_cache)  BY <1>2, <1>4, <1>7
  <2> QED  BY <1>1, <1>7, <2>2, <2>3 DEF Bracket, UnitBracket
<1>8. Entries(unit) = {[start |-> At(instr_cache, unit).start, end |-> At(instr_cache, unit).end]}
  BY <1>5 DEF Entries
<1> QED  BY <1>6, <1>7, <1>8 DEF Lookup, Inside

\* An iteration of the search for the unit (run.c:438).
LEMMA UnitStep ==
  ASSUME TypeInv, Cache, Bracket, SearchUnit, Wanted'
  PROVE  Bracket'
<1>1. /\ pc = "unit" /\ pc \in Running /\ right > left
      /\ UNCHANGED <<table, unit_count, instr_cache, address>>
  BY DEF SearchUnit, Running, inputVars
<1>2. /\ UnitsApart /\ TwoAddresses /\ address \in Addresses(table) /\ UnitBracket
  BY <1>1 DEF Wanted, Searchable, Filled, UnitsApart, TwoAddresses, Below, Bracket
<1>3. PICK k \in left .. right - 1 :
        At(instr_cache, k).start <= address /\ address <= At(instr_cache, k).end
  BY <1>2 DEF UnitBracket
<1>4. /\ left \in Nat /\ right \in Nat /\ right <= Len(instr_cache) /\ Len(instr_cache) \in Nat
      /\ index = (left + right) \div 2
  BY <1>1, <1>2 DEF TypeInv, UnitBracket
<1>5. index \in left .. right - 1  BY <1>1, <1>4
<1>6. /\ k + 1 \in DOMAIN instr_cache /\ index + 1 \in DOMAIN instr_cache
      /\ index < Len(instr_cache) /\ k \in Nat /\ index \in Nat
  <2>1. DOMAIN instr_cache = 1 .. Len(instr_cache)  BY DEF TypeInv
  <2> QED  BY <1>4, <1>5, <2>1
<1>7. PICK r \in table : r.addr = address  BY <1>2 DEF Addresses
<1>8. /\ address < At(instr_cache, index).start => k < index
      /\ address > At(instr_cache, index).end => index < k
  <2>1. /\ address < At(instr_cache, index).start => k + 1 < index + 1
        /\ address > At(instr_cache, index).end => index + 1 < k + 1
    BY <1>1, <1>2, <1>3, <1>6, <1>7, UnitSide DEF At
  <2> QED  BY <1>6, <2>1
<1>9. Entries(index) = {[start |-> At(instr_cache, index).start, end |-> At(instr_cache, index).end]}
  BY <1>6 DEF Entries
<1>10. \/ /\ address < At(instr_cache, index).start
          /\ right' = index /\ index' = (left + index) \div 2 /\ left' = left /\ pc' = pc
       \/ /\ address > At(instr_cache, index).end
          /\ left' = index + 1 /\ index' = (index + 1 + right) \div 2 /\ right' = right /\ pc' = pc
       \/ /\ Inside(address, At(instr_cache, index))
          /\ unit' = index /\ BeginLines(index)
  BY <1>9 DEF SearchUnit, Inside
<1>11. CASE Inside(address, At(instr_cache, index)) /\ unit' = index /\ BeginLines(index)
  <2>1. pc' = "line" /\ LineBracket'
    BY <1>1, <1>2, <1>6, <1>11, BeginStep DEF Inside
  <2> QED  BY <2>1 DEF Bracket
<1>12. CASE /\ pc' = pc /\ index' = (left' + right') \div 2
            /\ k \in left' .. right' - 1 /\ right' <= Len(instr_cache)
  <2>1. UnitBracket'  BY <1>1, <1>3, <1>12 DEF UnitBracket, At
  <2> QED  BY <1>1, <1>12, <2>1 DEF Bracket
<1>13. CASE address < At(instr_cache, index).start
  BY <1>4, <1>5, <1>6, <1>8, <1>10, <1>11, <1>12, <1>13 DEF Inside
<1>14. CASE address > At(instr_cache, index).end
  BY <1>4, <1>5, <1>6, <1>8, <1>10, <1>11, <1>12, <1>14 DEF Inside
<1> QED  BY <1>10, <1>11, <1>13, <1>14

\* An iteration of the search for the line (run.c:457).
LEMMA LineIteration ==
  ASSUME TypeInv, Cache, Bracket, SearchLine, Wanted'
  PROVE  Bracket'
<1>1. /\ pc = "line" /\ pc \in Running
      /\ UNCHANGED <<table, unit_count, instr_cache, unit, address>>
  BY DEF SearchLine, Running, inputVars
<1>2. address \in Addresses(table) /\ LineBracket
  BY <1>1 DEF Wanted, Searchable, Filled, UnitsApart, TwoAddresses, Below, Bracket
<1>3. PICK k \in left .. right : Addr(k) = address  BY <1>2 DEF LineBracket
<1> DEFINE m == Len(Lines)
           A == [x \in 0 .. m - 1 |-> Addr(x)]
<1>4. unit + 1 \in DOMAIN instr_cache  BY <1>2 DEF LineBracket, TypeInv
<1>5. Lines \in Seq(LineSet) /\ LinesSorted(table, instr_cache[unit + 1])
  BY <1>1, <1>4, RunningEntry DEF Lines, At
<1>6. m \in Nat /\ DOMAIN Lines = 1 .. m  BY <1>5
<1>7. \A x \in 0 .. m - 1 : x + 1 \in DOMAIN Lines /\ Addr(x) = Lines[x + 1].row.addr
  BY <1>6 DEF Addr, At
<1>8. /\ \A x \in DOMAIN Lines : Lines[x].row.addr \in Nat
      /\ \A x, y \in DOMAIN Lines : x <= y => Lines[x].row.addr <= Lines[y].row.addr
  BY <1>5 DEF LinesSorted, RowsOf, TypeInv, Lines, At
<1>9. \A x \in 0 .. m - 1 : Addr(x) \in Nat  BY <1>7, <1>8
<1>10. \A x, y \in 0 .. m - 1 : x <= y => Addr(x) <= Addr(y)
  <2> TAKE x, y \in 0 .. m - 1
  <2> HAVE x <= y
  <2>1. x + 1 <= y + 1  OBVIOUS
  <2> QED  BY <1>7, <1>8, <2>1
<1>11. /\ left \in Nat /\ right \in Nat /\ right < m /\ left <= right
       /\ left_addr = Addr(left) /\ right_addr = Addr(right) /\ left_addr < right_addr
       /\ left \in 0 .. m - 1 /\ right \in 0 .. m - 1 /\ k \in 0 .. m - 1
       /\ unit < Len(instr_cache)
  BY <1>2, <1>3, <1>6 DEF LineBracket
<1>12. /\ left_addr \in Nat /\ right_addr \in Nat /\ address \in Nat
       /\ left_addr <= address /\ address <= right_addr
  BY <1>3, <1>9, <1>10, <1>11
<1>13. PICK i : i = Interpolated  OBVIOUS
<1>14. i \in left .. right /\ (address = right_addr => i = right) /\ (address = left_addr => i = left)
  <2>1. PICK l \in Nat, r \in Nat, x \in Nat, y \in Nat, a \in Nat :
          l = left /\ r = right /\ x = left_addr /\ y = right_addr /\ a = address
    BY <1>11, <1>12
  <2>2. l <= r /\ x < y /\ x <= a /\ a <= y  BY <1>11, <1>12, <2>1
  <2>3. PICK j : j = l + ((a - x) * (r - l)) \div (y - x)  OBVIOUS
  <2>4. j \in l .. r /\ (a = y => j = r) /\ (a = x => j = l)
    BY <2>2, <2>3, IndexBounds
  <2>5. i = j  BY <1>13, <2>1, <2>3 DEF Interpolated
  <2> QED  BY <2>1, <2>4, <2>5
<1>15. i \in 0 .. m - 1 /\ i \in Nat /\ i < m  BY <1>6, <1>11, <1>14
<1>16. CompareLine(i)  BY <1>11, <1>12, <1>13, <1>15 DEF SearchLine, Defined
<1>17. /\ \A x \in 0 .. m - 1 : A[x] \in Nat
       /\ \A x \in 0 .. m - 1 : A[x] = Addr(x)  BY <1>9
<1> HIDE DEF A, m
<1>18. /\ address < A[i] => i > 0 /\ k \in left .. i - 1 /\ A[left] < A[i - 1]
       /\ address > A[i] => i + 1 < m /\ k \in i + 1 .. right /\ A[i + 1] < A[right]
  <2>1. /\ \A x, y \in 0 .. m - 1 : x <= y => A[x] <= A[y]
        /\ A[k] = address /\ (address = A[right] => i = right) /\ (address = A[left] => i = left)
    BY <1>3, <1>10, <1>11, <1>14, <1>17
  <2>2. /\ m \in Nat /\ (\A x \in 0 .. m - 1 : A[x] \in Nat) /\ left \in Nat /\ right \in Nat /\ right < m
        /\ address \in Nat /\ i \in left .. right
    BY <1>6, <1>11, <1>12, <1>14, <1>17
  <2> QED  BY <2>1, <2>2, Interpolation
<1>19. Lines' = Lines /\ \A x : Addr(x)' = Addr(x)  BY <1>1 DEF Lines, Addr, At
<1>20. ASSUME address < Addr(i) PROVE Bracket'
  <2>1. /\ right' = i - 1 /\ left' = left /\ left_addr' = left_addr /\ pc' = pc
        /\ i > 0 => right_addr' = Addr(i - 1)
    BY <1>9, <1>12, <1>16, <1>15, <1>20 DEF CompareLine
  <2>2. /\ i > 0 /\ k \in left .. i - 1 /\ Addr(left) < Addr(i - 1)
        /\ i - 1 \in 0 .. m - 1
    <3>1. i > 0 /\ k \in left .. i - 1 /\ A[left] < A[i - 1]  BY <1>15, <1>17, <1>18, <1>20
    <3>2. i - 1 \in 0 .. m - 1  BY <1>6, <1>15, <3>1
    <3> QED  BY <1>11, <1>17, <3>1, <3>2
  <2>3. i - 1 \in Nat /\ i - 1 < m  BY <1>6, <2>2
  <2>4. LineBracket'
    BY <1>1, <1>3, <1>11, <1>19, <2>1, <2>2, <2>3 DEF LineBracket, m
  <2> QED  BY <1>1, <2>1, <2>4 DEF Bracket
<1>21. ASSUME address > Addr(i) PROVE Bracket'
  <2>1. /\ left' = i + 1 /\ right' = right /\ right_addr' = right_addr /\ pc' = pc
        /\ i + 1 < m => left_addr' = Addr(i + 1)
    BY <1>9, <1>12, <1>16, <1>15, <1>21 DEF CompareLine, m
  <2>2. i + 1 < m /\ k \in i + 1 .. right /\ Addr(i + 1) < Addr(right) /\ i + 1 \in Nat
    BY <1>6, <1>11, <1>15, <1>17, <1>18, <1>21
  <2>3. LineBracket'
    BY <1>1, <1>3, <1>11, <1>19, <2>1, <2>2 DEF LineBracket, m
  <2> QED  BY <1>1, <2>1, <2>3 DEF Bracket
<1>22. ASSUME address = Addr(i) PROVE Bracket'
  <2>1. pc' = "found" /\ index' = i  BY <1>9, <1>12, <1>16, <1>15, <1>22 DEF CompareLine
  <2>2. Found'  BY <1>1, <1>11, <1>15, <1>19, <1>22, <2>1 DEF Found, m
  <2> QED  BY <2>1, <2>2 DEF Bracket
<1> QED  BY <1>9, <1>12, <1>15, <1>20, <1>21, <1>22

\* Every step keeps the address that is looked for within the interval of the search.
LEMMA BracketStep ==
  ASSUME TypeInv, Cache, Bracket, [LineNext]_lineVars
  PROVE  Bracket'
<1> SUFFICES ASSUME Wanted' PROVE Bracket'  BY DEF Bracket
<1>1. CASE \E rows \in Tables : Load(rows)
  BY <1>1 DEF Load, Bracket
<1>2. CASE FetchUnit \/ UnitsDone \/ LinesDone \/ FailBreakpoints \/ UseLine
  BY <1>2 DEF FetchUnit, UnitsDone, LinesDone, FailBreakpoints, UseLine, Bracket
<1>3. CASE FetchLine
  BY <1>3 DEF FetchLine, SetBreakpoint, Bracket
<1>4. CASE Lookup  BY <1>4, LookupStep
<1>5. CASE SearchUnit  BY <1>5, UnitStep
<1>6. CASE SearchLine  BY <1>6, LineIteration
<1>7. ASSUME UNCHANGED <<table, unit_count, instr_cache, address>>
      PROVE  Wanted
  BY <1>7 DEF Wanted, Searchable, Filled, UnitsApart, TwoAddresses, Below
<1>8. CASE UnitNotFound
  <2>1. Wanted /\ pc = "unit" /\ right <= left  BY <1>7, <1>8 DEF UnitNotFound, inputVars, searchVars
  <2>2. left \in Nat /\ right \in Nat /\ \E k \in left .. right - 1 : TRUE
    BY <2>1 DEF Bracket, UnitBracket, TypeInv
  <2> QED  BY <2>1, <2>2
<1>9. CASE LineNotFound
  <2>1. Wanted /\ pc = "line" /\ right < left  BY <1>7, <1>9 DEF LineNotFound, inputVars, searchVars
  <2>2. left \in Nat /\ right \in Nat /\ \E k \in left .. right : TRUE
    BY <2>1 DEF Bracket, LineBracket
  <2> QED  BY <2>1, <2>2
<1>10. CASE UNCHANGED lineVars
  <2>1. Wanted  BY <1>7, <1>10 DEF lineVars
  <2> QED  BY <1>10, <2>1 DEF lineVars, Bracket, UnitBracket, LineBracket, Found, Lines, Addr, At
<1> QED
  BY <1>1, <1>2, <1>3, <1>4, <1>5, <1>6, <1>8, <1>9, <1>10 DEF LineNext, LineStep, Search

\* The invariant is inductive.
LEMMA InvStep ==
  ASSUME Typed, Inv, [LineNext]_lineVars
  PROVE  Inv'
<1>1. TypeInv /\ Cache /\ Bracket  BY DEF Inv
<1>2. TypeInv'  BY <1>1, TypeStep
<1>3. Cache'  BY <1>1, <1>2, CacheStep
<1>4. Bracket'  BY <1>1, BracketStep
<1> QED  BY <1>2, <1>3, <1>4 DEF Inv

\* The invariant says that the searches are exact.
LEMMA InvExact == Inv => LookupExact
<1> SUFFICES ASSUME Inv, pc \in {"unit", "line", "found", "null", "crashed"}, Wanted
             PROVE  /\ pc \notin {"null", "crashed"}
                    /\ pc = "found" => Addr(index) = address /\ At(Lines, index).row \in table
  BY DEF LookupExact, Wanted
<1>1. pc \notin {"null", "crashed"} /\ (pc = "found" => Found)  BY DEF Inv, Bracket
<1>2. ASSUME pc = "found" PROVE Addr(index) = address /\ At(Lines, index).row \in table
  <2>1. unit + 1 \in DOMAIN instr_cache /\ pc \in Running
    BY <1>1, <1>2 DEF Inv, TypeInv, Found, Running
  <2>2. Lines \in Seq(LineSet)  BY <2>1, RunningEntry DEF Inv, Lines, At
  <2>3. index + 1 \in DOMAIN Lines  BY <1>1, <1>2, <2>2 DEF Found
  <2>4. Lines[index + 1] \in LineSet  BY <2>2, <2>3
  <2> QED  BY <1>1, <1>2, <2>4 DEF Found, LineSet, At
<1> QED  BY <1>1, <1>2

\* lookup_cache() (run.c:429) finds every statement at its own entry, without dividing
\* by zero or leaving the arrays, for every table whose units are apart and have two
\* addresses at least.
THEOREM LookupIsExact ==
  ASSUME Typed
  PROVE  LineSpec => []LookupExact
<1>1. LineInit => Inv  BY InitInv
<1>2. Inv /\ [LineNext]_lineVars => Inv'  BY InvStep
<1>3. Inv => LookupExact  BY InvExact
<1> QED  BY <1>1, <1>2, <1>3, PTL DEF LineSpec
-----------------------------------------------------------------------------
(* The breakpoints that set_breakpoints() places.  Unlike Bracket, what follows *)
(* holds whatever address is looked up and whatever table was loaded.           *)

TypedImages == \A im \in Images : im.load \in Nat /\ im.text \in Nat /\ im.size \in Nat

\* The child's code stays where it was mapped, and the running search reads and
\* returns entries inside the arrays.
Mapping ==
  /\ image.load \in Nat /\ image.text \in Nat /\ image.size \in Nat
  /\ DOMAIN code = Text(image)
  /\ base_address \in Nat /\ address \in Int
  /\ pc = "load" => base_address = 0
Within ==
  /\ pc = "line" => /\ unit < Len(instr_cache)
                    /\ left \in Nat /\ right \in Int
                    /\ left_addr \in Nat /\ right_addr \in Nat
  /\ pc = "found" => Found

\* r has an entry in the cache c; no other row has the address of r.
InCache(c, r) == \E i \in DOMAIN c : r \in Fetched(c[i].lines)
Sole(rows, r) == \A q \in rows : q.addr = r.addr => q = r

\* INT 3 is where a fetched statement is, and the byte kept is the original one
\* unless two statements share the address.
Bytes ==
  Placed =>
    /\ \A p \in DOMAIN code :
         code[p] = INT3 <=> \E r \in table : InCache(instr_cache, r) /\ p = r.addr + image.load
    /\ base_address \in {0, image.load}
    /\ (\E r \in table : InCache(instr_cache, r)) => base_address = image.load
    /\ \A i \in DOMAIN instr_cache : \A a \in DOMAIN instr_cache[i].lines :
         Sole(table, instr_cache[i].lines[a].row) => instr_cache[i].lines[a].org_instr_byte = ORG

PlaceInv == Inv /\ Mapping /\ Within /\ Bytes
\* Nothing is mapped and nothing is placed before set_breakpoints() is called.
LEMMA PlaceInit == LineInit => PlaceInv
<1> SUFFICES ASSUME LineInit PROVE PlaceInv  OBVIOUS
<1>1. Inv  BY InitInv
<1> USE DEF LineInit
<1>2. Mapping  BY DEF Mapping, Text, NoImage
<1>3. Within  BY DEF Within
<1>4. Bytes  BY DEF Bytes, InCache
<1> QED  BY <1>1, <1>2, <1>3, <1>4 DEF PlaceInv

\* The code of the child stays mapped where record() started it (run.c:128).
LEMMA MappingStep ==
  ASSUME TypedImages, Mapping, [LineNext]_lineVars
  PROVE  Mapping'
<1> USE DEF Mapping
<1>1. CASE \E rows \in Tables : Load(rows)
  BY <1>1 DEF Load, searchVars, TypedImages
<1>2. ASSUME UNCHANGED <<image, code, base_address, address>>, pc' # "load" \/ pc' = pc
      PROVE  Mapping'
  BY <1>2 DEF Text
<1>3. CASE FetchUnit \/ UnitsDone \/ LinesDone \/ FailBreakpoints \/ UseLine
  BY <1>2, <1>3 DEF FetchUnit, UnitsDone, LinesDone, FailBreakpoints, UseLine, inputVars, searchVars
<1>4. CASE SearchUnit \/ UnitNotFound \/ SearchLine \/ LineNotFound
  BY <1>2, <1>4 DEF SearchUnit, UnitNotFound, SearchLine, LineNotFound, CompareLine, BeginLines,
                    inputVars, searchVars
<1>5. CASE FetchLine
  <2>1. pc = "lines" /\ image' = image /\ address' = address
    BY <1>5 DEF FetchLine, inputVars, searchVars
  <2>2. ASSUME NEW r, NEW b \in Nat, SetBreakpoint(r, b)
        PROVE  Mapping'
    BY <2>1, <2>2 DEF SetBreakpoint, Text
  <2>3. FoundBase \in Nat  BY DEF FoundBase
  <2>4. CASE pc' = "failed" /\ UNCHANGED <<code, base_address>>
    BY <1>2, <2>1, <2>4
  <2> QED  BY <1>5, <2>2, <2>3, <2>4 DEF FetchLine
<1>6. CASE Lookup
  <2>1. UNCHANGED <<image, code, base_address>> /\ pc' # "load"
    BY <1>6 DEF Lookup, BeginLines, inputVars
  <2>2. PICK p \in DOMAIN code : address' = (p - base_address) % WORD  BY <1>6 DEF Lookup
  <2>3. p \in Int  BY DEF Text
  <2>4. address' \in Int  BY <2>2, <2>3 DEF WORD
  <2> QED  BY <2>1, <2>4 DEF Text
<1>7. CASE UNCHANGED lineVars
  BY <1>2, <1>7 DEF lineVars
<1> QED
  BY <1>1, <1>3, <1>4, <1>5, <1>6, <1>7 DEF LineNext, LineStep, Search

\* The lines of a unit that was cached: lookup_cache() starts with the addresses of
\* the first and of the last one (run.c:453), so there must be one.
LEMMA LinesOf ==
  ASSUME TypeInv, Cache, pc \in Running, NEW u \in Nat, u < Len(instr_cache)
  PROVE  LET L == At(instr_cache, u).lines
         IN  /\ u + 1 \in DOMAIN instr_cache
             /\ L \in Seq(LineSet) /\ Len(L) \in Nat /\ Len(L) > 0
             /\ \A x \in 0 .. Len(L) - 1 : /\ At(L, x) \in LineSet
                                          /\ At(L, x).row \in table
                                          /\ At(L, x).row.addr \in Nat
<1> DEFINE L == instr_cache[u + 1].lines
<1>1. u + 1 \in DOMAIN instr_cache  BY DEF TypeInv
<1>2. /\ L \in Seq(LineSet) /\ BoundsExact(table, instr_cache[u + 1])
      /\ Complete(table, instr_cache[u + 1])
  BY <1>1, RunningEntry
<1>3. PICK q : q \in RowsOf(table, instr_cache[u + 1].unit)  BY <1>2 DEF BoundsExact
<1>4. \E a \in DOMAIN L : TRUE  BY <1>2, <1>3 DEF Complete, Fetched
<1>5. Len(L) \in Nat /\ Len(L) > 0 /\ DOMAIN L = 1 .. Len(L)  BY <1>2, <1>4
<1>6. ASSUME NEW x \in 0 .. Len(L) - 1
      PROVE  L[x + 1] \in LineSet /\ L[x + 1].row \in table /\ L[x + 1].row.addr \in Nat
  <2>1. L[x + 1] \in LineSet  BY <1>2, <1>5
  <2> QED  BY <2>1 DEF LineSet, TypeInv
<1> QED  BY <1>1, <1>2, <1>5, <1>6 DEF At

\* The search of a unit's lines begins inside the array.
LEMMA BeginWithin ==
  ASSUME TypeInv, Cache, pc \in Running, NEW u \in Nat, BeginLines(u),
         unit' = u, instr_cache' = instr_cache
  PROVE  Within'
<1>1. CASE u < Len(instr_cache)
  <2>0. PICK L : L = At(instr_cache, u).lines  OBVIOUS
  <2>1. PICK m \in Nat : L = At(instr_cache, u).lines /\ m = Len(L) /\ m > 0
    BY <1>1, <2>0, LinesOf
  <2>2. L[1].row.addr \in Nat /\ L[m].row.addr \in Nat
    <3>1. 0 \in 0 .. m - 1 /\ m - 1 \in 0 .. m - 1 /\ 0 + 1 = 1 /\ (m - 1) + 1 = m  BY <2>1
    <3> QED  BY <1>1, <2>1, <3>1, LinesOf DEF At
  <2>3. /\ pc' = "line" /\ left' = 0 /\ right' = m - 1
        /\ left_addr' = L[1].row.addr /\ right_addr' = L[m].row.addr
    BY <1>1, <2>1 DEF BeginLines
  <2> QED  BY <1>1, <2>1, <2>2, <2>3 DEF Within
<1>2. CASE ~(u < Len(instr_cache))  BY <1>2 DEF BeginLines, Within
<1> QED  BY <1>1, <1>2

\* The interpolated index of lookup_cache() (run.c:460) is not negative once the
\* divisions are defined, even for an address that is not among the lines.
LEMMA IndexNatural ==
  ASSUME NEW l \in Nat, NEW r \in Int, l <= r, NEW x \in Nat, NEW y \in Nat, NEW a \in Int,
         x < y, x <= a
  PROVE  l + ((a - x) * (r - l)) \div (y - x) \in Nat
<1>1. PICK d \in Nat, n \in Nat, b \in Nat : d = a - x /\ n = r - l /\ b = y - x /\ 0 < b
  OBVIOUS
<1>2. PICK z \in Nat : z = d * n  OBVIOUS
<1>3. z \div b \in Nat  BY <1>1, <1>2
<1> QED  BY <1>1, <1>2, <1>3

\* Every step keeps the running search inside the arrays.
LEMMA WithinStep ==
  ASSUME TypeInv, Cache, Mapping, Within, [LineNext]_lineVars
  PROVE  Within'
<1>1. CASE \E rows \in Tables : Load(rows)
  BY <1>1 DEF Load, Within
<1>2. CASE FetchUnit \/ UnitsDone \/ LinesDone \/ FailBreakpoints \/ UseLine \/ UnitNotFound \/ LineNotFound
  BY <1>2 DEF FetchUnit, UnitsDone, LinesDone, FailBreakpoints, UseLine, UnitNotFound, LineNotFound, Within
<1>3. CASE FetchLine
  BY <1>3 DEF FetchLine, SetBreakpoint, Within
<1>4. CASE Lookup
  <2>1. /\ pc = "run" /\ pc \in Running /\ unit \in Nat
        /\ UNCHANGED <<instr_cache, unit>>
        /\ BeginLines(unit) \/ pc' = "unit"
    BY <1>4 DEF Lookup, Running, TypeInv
  <2>2. CASE pc' = "unit"  BY <2>2 DEF Within
  <2> QED  BY <2>1, <2>2, BeginWithin
<1>5. CASE SearchUnit
  <2>1. /\ pc = "unit" /\ pc \in Running /\ index \in Nat
        /\ instr_cache' = instr_cache
        /\ (unit' = index /\ BeginLines(index)) \/ pc' = pc
    BY <1>5 DEF SearchUnit, Running, TypeInv
  <2>2. CASE pc' = pc  BY <2>1, <2>2 DEF Within
  <2> QED  BY <2>1, <2>2, BeginWithin
<1>6. CASE SearchLine
  <2>1. /\ pc = "line" /\ pc \in Running /\ right >= left
        /\ UNCHANGED <<table, instr_cache, unit, address>>
        /\ pc' = "crashed" \/ (Defined /\ CompareLine(Interpolated))
    BY <1>6 DEF SearchLine, Running, inputVars
  <2>2. CASE pc' = "crashed"  BY <2>2 DEF Within
  <2>3. CASE Defined /\ CompareLine(Interpolated)
    <3>1. PICK l \in Nat, r \in Int, x \in Nat, y \in Nat, a \in Int :
            l = left /\ r = right /\ x = left_addr /\ y = right_addr /\ a = address
      BY <2>1 DEF Within, Mapping
    <3>2. PICK i : i = Interpolated  OBVIOUS
    <3>3. i \in Nat
      <4>1. l <= r /\ x < y /\ x <= a  BY <2>1, <2>3, <3>1 DEF Defined
      <4>2. l + ((a - x) * (r - l)) \div (y - x) \in Nat  BY <4>1, IndexNatural
      <4> QED  BY <3>1, <3>2, <4>2 DEF Interpolated
    <3>4. unit \in Nat /\ unit < Len(instr_cache)  BY <2>1 DEF Within, TypeInv
    <3>5. PICK m \in Nat : m = Len(Lines) /\ \A k \in 0 .. m - 1 : Addr(k) \in Nat
      BY <2>1, <3>4, LinesOf DEF Lines, Addr
    <3>6. i < m  BY <2>3, <3>2, <3>5 DEF Defined
    <3>7. Lines' = Lines /\ \A k : Addr(k)' = Addr(k)  BY <2>1 DEF Lines, Addr, At
    <3>8. CompareLine(i)  BY <2>3, <3>2
    <3>9. CASE address < Addr(i) /\ right' = i - 1 /\ pc' = pc /\ left' = left /\ left_addr' = left_addr
               /\ right_addr' = IF i > 0 THEN Addr(i - 1) ELSE right_addr
      <4>1. i > 0 => i - 1 \in 0 .. m - 1  BY <3>3, <3>6
      <4>2. right_addr' \in Nat  BY <3>1, <3>5, <3>9, <4>1
      <4>3. right' \in Int  BY <3>3, <3>9
      <4> QED  BY <2>1, <3>1, <3>4, <3>9, <4>2, <4>3 DEF Within
    <3>10. CASE left' = i + 1 /\ pc' = pc /\ right' = right /\ right_addr' = right_addr
                /\ left_addr' = IF i + 1 < Len(Lines) THEN Addr(i + 1) ELSE left_addr
      <4>1. i + 1 < m => i + 1 \in 0 .. m - 1  BY <3>3
      <4>2. left_addr' \in Nat  BY <3>1, <3>5, <3>10, <4>1
      <4>3. left' \in Nat  BY <3>3, <3>10
      <4> QED  BY <2>1, <3>1, <3>4, <3>10, <4>2, <4>3 DEF Within
    <3>11. CASE address = Addr(i) /\ pc' = "found" /\ index' = i
      <4>1. Addr(index)' = Addr(i)  BY <3>7, <3>11 DEF Addr, At
      <4> QED  BY <2>1, <3>3, <3>4, <3>5, <3>6, <3>7, <3>11, <4>1 DEF Within, Found
    <3> QED  BY <3>8, <3>9, <3>10, <3>11 DEF CompareLine
  <2> QED  BY <2>1, <2>2, <2>3
<1>7. CASE UNCHANGED lineVars
  BY <1>7 DEF lineVars, Within, Found, Lines, Addr, At
<1> QED
  BY <1>1, <1>2, <1>3, <1>4, <1>5, <1>6, <1>7 DEF LineNext, LineStep, Search
\* The cache d has one more line than c, l, and nothing else.
GrownBy(c, d, l) ==
  /\ \A r : InCache(d, r) <=> (InCache(c, r) \/ r = l.row)
  /\ \A i \in DOMAIN d : \A a \in DOMAIN d[i].lines :
       \/ d[i].lines[a] = l
       \/ i \in DOMAIN c /\ a \in DOMAIN c[i].lines /\ d[i].lines[a] = c[i].lines[a]

\* A line cursor's row goes to the last entry of the cache (run.c:357).
LEMMA CacheGrows ==
  ASSUME NEW S, NEW n \in Nat, n > 0, NEW c, NEW d, NEW f, NEW l,
         DOMAIN c = 1 .. n, DOMAIN d = 1 .. n, d[n] = f,
         \A i \in 1 .. n : i # n => d[i] = c[i],
         c[n].lines \in Seq(S), f.lines = Append(c[n].lines, l), l \in S
  PROVE  GrownBy(c, d, l)
<1>1. PICK L \in Seq(S) : L = c[n].lines  OBVIOUS
<1>2. PICK m \in Nat : m = Len(L) /\ DOMAIN L = 1 .. m  OBVIOUS
<1>3. PICK K : K = Append(L, l)  OBVIOUS
<1>4. DOMAIN K = 1 .. m + 1 /\ K[m + 1] = l /\ \A a \in 1 .. m : K[a] = L[a]
  BY <1>2, <1>3
<1>5. n \in 1 .. n /\ d[n].lines = K  BY <1>1, <1>3
<1>6. \A r : r \in Fetched(K) <=> (r \in Fetched(L) \/ r = l.row)
  <2>1. m + 1 \in 1 .. m + 1 /\ \A a \in 1 .. m + 1 : a \in 1 .. m \/ a = m + 1  OBVIOUS
  <2>2. \A a \in 1 .. m : a \in 1 .. m + 1  OBVIOUS
  <2> QED  BY <1>2, <1>4, <2>1, <2>2 DEF Fetched
<1>7. \A r : InCache(d, r) <=> (InCache(c, r) \/ r = l.row)
  BY <1>1, <1>5, <1>6 DEF InCache
<1>8. ASSUME NEW i \in 1 .. n, NEW a \in DOMAIN d[i].lines
      PROVE  \/ d[i].lines[a] = l
             \/ a \in DOMAIN c[i].lines /\ d[i].lines[a] = c[i].lines[a]
  <2>1. CASE i # n  BY <2>1
  <2>2. CASE i = n
    <3>1. a \in 1 .. m \/ a = m + 1  BY <1>4, <1>5, <2>2
    <3> QED  BY <1>1, <1>2, <1>4, <1>5, <2>2, <3>1
  <2> QED  BY <2>1, <2>2
<1> QED  BY <1>7, <1>8 DEF GrownBy

\* A row that is still to be fetched is in no entry: the rows of other units are in
\* other entries.
LEMMA PendingIsNew ==
  ASSUME TypeInv, Cache, pc = "lines", NEW r \in Pending
  PROVE  r \in table /\ ~InCache(instr_cache, r)
<1>1. PICK n \in Nat : n = Len(instr_cache) /\ n > 0 /\ DOMAIN instr_cache = 1 .. n
  BY DEF TypeInv
<1>2. /\ r \in table /\ r.unit = instr_cache[n].unit
      /\ r \notin Fetched(instr_cache[n].lines)
  BY <1>1 DEF Pending, RowsOf, CurUnit
<1>3. ASSUME NEW i \in 1 .. n, r \in Fetched(instr_cache[i].lines)
      PROVE  FALSE
  <2>1. LinesSorted(table, instr_cache[i])  BY <1>1 DEF Cache, EntriesOK, EntryOK
  <2>2. r.unit = instr_cache[i].unit  BY <1>3, <2>1 DEF Fetched, LinesSorted, RowsOf
  <2>3. i < n  BY <1>1, <1>2, <1>3
  <2>4. instr_cache[i].unit # instr_cache[n].unit  BY <1>1, <2>3 DEF Cache, UnitsSorted
  <2> QED  BY <1>2, <2>2, <2>4
<1> QED  BY <1>1, <1>2, <1>3 DEF InCache

\* What one PTRACE_POKEDATA with the right base address adds to the breakpoints.
LEMMA PlaceOne ==
  ASSUME TypeInv, Cache, Mapping, Bytes, Placed', pc = "lines", UNCHANGED <<table, image>>,
         NEW r \in Pending, SetBreakpoint(r, image.load)
  PROVE  Bytes'
<1>1. r \in table /\ ~InCache(instr_cache, r) /\ r.addr \in Nat
  BY PendingIsNew DEF TypeInv
<1>2. PICK k : k = r.addr + image.load /\ k \in DOMAIN code  BY DEF SetBreakpoint
<1>3. PICK l : l = [row |-> r, org_instr_byte |-> code[k]]  OBVIOUS
<1>4. PICK n \in Nat : n = Len(instr_cache) /\ n > 0 /\ DOMAIN instr_cache = 1 .. n
  BY DEF TypeInv
<1>5. PICK e : e = instr_cache[n]  OBVIOUS
<1>6. PICK f : f = [e EXCEPT !.lines = Append(@, l)]  OBVIOUS
<1>7. /\ instr_cache' = [instr_cache EXCEPT ![n] = f]
      /\ code' = [code EXCEPT ![k] = INT3] /\ base_address' = image.load
  BY <1>2, <1>3, <1>4, <1>5, <1>6 DEF SetBreakpoint
<1>8. /\ l \in LineSet /\ l.row = r /\ l.org_instr_byte = code[k] /\ e \in EntrySet
      /\ e.lines \in Seq(LineSet)
  <2>1. code[k] \in {ORG, INT3}  BY <1>2 DEF TypeInv
  <2>2. l \in LineSet /\ l.row = r /\ l.org_instr_byte = code[k]  BY <1>1, <1>3, <2>1 DEF LineSet
  <2>3. n \in DOMAIN instr_cache  BY <1>4
  <2> QED  BY <1>5, <2>2, <2>3, EntryType DEF TypeInv
<1>9. f.lines = Append(e.lines, l)  BY <1>6, <1>8, ExtendEntry
<1>10. PICK d : d = instr_cache' /\ DOMAIN d = 1 .. n /\ d[n] = f
            /\ \A i \in 1 .. n : i # n => d[i] = instr_cache[i]
  BY <1>4, <1>7
<1>11. /\ \A q : InCache(d, q) <=> (InCache(instr_cache, q) \/ q = r)
       /\ \A i \in DOMAIN d : \A a \in DOMAIN d[i].lines :
            \/ d[i].lines[a] = l
            \/ /\ i \in DOMAIN instr_cache /\ a \in DOMAIN instr_cache[i].lines
               /\ d[i].lines[a] = instr_cache[i].lines[a]
  <2>1. PICK c : c = instr_cache  OBVIOUS
  <2>2. /\ DOMAIN c = 1 .. n /\ c[n].lines \in Seq(LineSet) /\ f.lines = Append(c[n].lines, l)
        /\ \A i \in 1 .. n : i # n => d[i] = c[i]
    BY <1>4, <1>5, <1>8, <1>9, <1>10, <2>1
  <2>3. GrownBy(c, d, l)
    <3>1. l \in LineSet /\ DOMAIN d = 1 .. n /\ d[n] = f /\ n > 0  BY <1>4, <1>8, <1>10
    <3> QED  BY <2>2, <3>1, CacheGrows
  <2> QED  BY <1>8, <2>1, <2>3 DEF GrownBy
<1>12. DOMAIN code' = DOMAIN code /\ Placed  BY <1>7 DEF Placed, TypeInv
<1>13. /\ \A p \in DOMAIN code :
            code[p] = INT3 <=> \E q \in table : InCache(instr_cache, q) /\ p = q.addr + image.load
       /\ \A i \in DOMAIN instr_cache : \A a \in DOMAIN instr_cache[i].lines :
            Sole(table, instr_cache[i].lines[a].row) => instr_cache[i].lines[a].org_instr_byte = ORG
  BY <1>12 DEF Bytes
<1>14. Sole(table, r) => l.org_instr_byte = ORG
  <2>1. SUFFICES ASSUME Sole(table, r), code[k] # ORG PROVE FALSE  BY <1>8
  <2>2. code[k] = INT3  BY <1>2, <2>1 DEF TypeInv
  <2>3. PICK q \in table : InCache(instr_cache, q) /\ k = q.addr + image.load  BY <1>2, <1>13, <2>2
  <2>4. q.addr \in Nat /\ image.load \in Nat  BY DEF TypeInv, Mapping
  <2>5. q.addr = r.addr  BY <1>1, <1>2, <2>3, <2>4
  <2> QED  BY <1>1, <2>1, <2>3, <2>5 DEF Sole
<1>15. \A p \in DOMAIN code :
         code'[p] = INT3 <=> \E q \in table : InCache(d, q) /\ p = q.addr + image.load
  <2> TAKE p \in DOMAIN code
  <2>1. CASE p = k
    <3>1. code'[p] = INT3  BY <1>7, <2>1
    <3> QED  BY <1>1, <1>2, <1>11, <2>1, <3>1
  <2>2. CASE p # k
    <3>1. code'[p] = code[p]  BY <1>7, <2>2
    <3> QED  BY <1>2, <1>11, <1>13, <2>2, <3>1
  <2> QED  BY <2>1, <2>2
<1>16. \A i \in DOMAIN d : \A a \in DOMAIN d[i].lines :
         Sole(table, d[i].lines[a].row) => d[i].lines[a].org_instr_byte = ORG
  BY <1>8, <1>11, <1>13, <1>14
<1>17. /\ \A q : InCache(instr_cache, q)' <=> InCache(d, q)
       /\ \A q : Sole(table, q)' <=> Sole(table, q)
  BY <1>10 DEF InCache, Sole
<1>18. \A i \in DOMAIN instr_cache' : \A a \in DOMAIN instr_cache'[i].lines :
         Sole(table, instr_cache'[i].lines[a].row) => instr_cache'[i].lines[a].org_instr_byte = ORG
  BY <1>10, <1>16
<1> QED  BY <1>7, <1>12, <1>15, <1>17, <1>18, Zenon DEF Bytes, Sole

\* Every step keeps the breakpoints where the fetched statements are.
LEMMA BytesStep ==
  ASSUME TypeInv, Cache, Mapping, Bytes, [LineNext]_lineVars
  PROVE  Bytes'
<1> SUFFICES ASSUME Placed' PROVE Bytes'  BY DEF Bytes
<1>1. CASE \E rows \in Tables : Load(rows)
  <2>1. /\ base_address' = 0 /\ instr_cache' = <<>>
        /\ code' = [p \in Text(image') |-> ORG]
    BY <1>1 DEF Load, TypeInv, Mapping
  <2>2. \A r : ~InCache(instr_cache', r)  BY <2>1 DEF InCache
  <2>3. \A p \in DOMAIN code' : code'[p] # INT3  BY <2>1 DEF ORG, INT3
  <2>4. \A r : ~InCache(instr_cache, r)'  BY <2>1 DEF InCache
  <2> QED  BY <2>1, <2>3, <2>4 DEF Bytes
<1>2. ASSUME UNCHANGED <<table, image, code, base_address, instr_cache>>
      PROVE  Bytes'
  <2>1. Placed  BY <1>2 DEF Placed
  <2> QED  BY <1>2, <2>1 DEF Bytes, InCache, Sole
<1>3. CASE FetchUnit
  <2>1. UNCHANGED <<table, image, code, base_address>>  BY <1>3 DEF FetchUnit, inputVars
  <2>2. PICK e : instr_cache' = Append(instr_cache, e) /\ e.lines = <<>> /\ e \in EntrySet
    <3>1. PICK u \in Units(table), lo \in table, hi \in table :
            instr_cache' = Append(instr_cache,
              [unit |-> u, start |-> lo.addr, end |-> hi.addr, lines |-> <<>>])
      BY <1>3 DEF FetchUnit, RowsOf
    <3>2. <<>> \in Seq(LineSet) /\ lo.addr \in Nat /\ hi.addr \in Nat  BY DEF TypeInv
    <3>3. [unit |-> u, start |-> lo.addr, end |-> hi.addr, lines |-> <<>>] \in EntrySet
      BY <3>2 DEF EntrySet
    <3> QED  BY <3>1, <3>3
  <2>3. PICK n \in Nat : n = Len(instr_cache) /\ DOMAIN instr_cache = 1 .. n  BY DEF TypeInv
  <2>4. /\ DOMAIN instr_cache' = 1 .. n + 1 /\ instr_cache'[n + 1] = e
        /\ \A i \in 1 .. n : instr_cache'[i] = instr_cache[i]
    BY <2>2, <2>3 DEF TypeInv
  <2>5. \A i \in 1 .. n + 1 : i \in 1 .. n \/ (i = n + 1 /\ DOMAIN instr_cache'[i].lines = {})
    BY <2>2, <2>4
  <2>6. \A i \in 1 .. n : i \in 1 .. n + 1  OBVIOUS
  <2>7. \A r : InCache(instr_cache', r) <=> InCache(instr_cache, r)
    BY <2>3, <2>4, <2>5, <2>6 DEF InCache, Fetched
  <2>8. \A r : InCache(instr_cache, r)' <=> InCache(instr_cache, r)  BY <2>7 DEF InCache
  <2>9. Placed  BY <2>1 DEF Placed
  <2>10. \A i \in DOMAIN instr_cache' : \A a \in DOMAIN instr_cache'[i].lines :
           Sole(table, instr_cache'[i].lines[a].row) => instr_cache'[i].lines[a].org_instr_byte = ORG
    BY <2>3, <2>4, <2>5, <2>9 DEF Bytes
  <2> QED  BY <2>1, <2>8, <2>9, <2>10 DEF Bytes, Sole
<1>4. CASE FetchLine
  <2>1. UNCHANGED <<table, image>> /\ pc = "lines"  BY <1>4 DEF FetchLine, inputVars
  <2>2. CASE UNCHANGED <<code, base_address, instr_cache>>  BY <1>2, <2>1, <2>2
  <2>3. ASSUME NEW r \in Pending, NEW b, SetBreakpoint(r, b), b \in {base_address, FoundBase},
               b # base_address => base_address = 0 /\ r.addr + base_address \notin DOMAIN code
        PROVE  Bytes'
    <3>1. DOMAIN code' = DOMAIN code  BY <2>3 DEF SetBreakpoint, TypeInv
    <3>2. Placed  BY <2>1, <3>1 DEF Placed
    <3>3. r \in table /\ r.addr \in Nat /\ image.load \in Nat /\ image.text \in Nat
      BY <2>1, PendingIsNew DEF TypeInv, Mapping
    <3>4. base_address \in {0, image.load}  BY <3>2 DEF Bytes
    <3>5. /\ r.addr + image.load \in DOMAIN code
          /\ image.load # 0 => image.text = 0 /\ r.addr \notin DOMAIN code
      BY <3>2, <3>3 DEF Placed
    <3>6. r.addr + 0 = r.addr /\ image.load + 0 = image.load  BY <3>3
    <3>7. b = image.load
      <4>1. CASE b = base_address  BY <2>3, <3>4, <3>5, <3>6, <4>1 DEF SetBreakpoint
      <4>2. CASE b # base_address  BY <2>3, <3>4, <3>5, <3>6, <4>2 DEF FoundBase
      <4> QED  BY <4>1, <4>2
    <3> QED  BY <2>1, <2>3, <3>7, PlaceOne
  <2> QED  BY <1>4, <2>2, <2>3 DEF FetchLine
<1>5. CASE UnitsDone \/ LinesDone \/ FailBreakpoints \/ UseLine \/ Lookup
  BY <1>2, <1>5 DEF UnitsDone, LinesDone, FailBreakpoints, UseLine, Lookup, inputVars
<1>6. CASE SearchUnit \/ UnitNotFound \/ SearchLine \/ LineNotFound
  BY <1>2, <1>6 DEF SearchUnit, UnitNotFound, SearchLine, LineNotFound, inputVars
<1>7. CASE UNCHANGED lineVars  BY <1>2, <1>7 DEF lineVars
<1> QED
  BY <1>1, <1>3, <1>4, <1>5, <1>6, <1>7 DEF LineNext, LineStep, Search

\* The invariant is inductive.
LEMMA PlaceStep ==
  ASSUME Typed, TypedImages, PlaceInv, [LineNext]_lineVars
  PROVE  PlaceInv'
<1>1. Inv /\ TypeInv /\ Cache /\ Mapping /\ Within /\ Bytes  BY DEF PlaceInv, Inv
<1>2. Inv'  BY <1>1, InvStep
<1>3. Mapping'  BY <1>1, MappingStep
<1>4. Within'  BY <1>1, WithinStep
<1>5. Bytes'  BY <1>1, BytesStep
<1> QED  BY <1>2, <1>3, <1>4, <1>5 DEF PlaceInv

\* Once every unit and every line has been fetched (run.c:405), the fetched statements
\* are the statements of the table.
LEMMA AllFetched ==
  ASSUME TypeInv, Cache, pc \in Running, NEW r \in table
  PROVE  InCache(instr_cache, r)
<1>1. PICK i \in DOMAIN instr_cache : instr_cache[i].unit = r.unit
  BY DEF Cache, AllCached, HasUnit, Units
<1>2. r \in RowsOf(table, instr_cache[i].unit)  BY <1>1 DEF RowsOf
<1> QED  BY <1>1, <1>2, RunningEntry DEF Complete, InCache

\* The invariant says that the breakpoints are placed.
LEMMA PlaceExact == PlaceInv => BreakpointsPlaced
<1> SUFFICES ASSUME PlaceInv, Placed, pc \in Running
             PROVE  /\ {p \in DOMAIN code : code[p] = INT3} = {r.addr + image.load : r \in table}
                    /\ table # {} => base_address = image.load
                    /\ pc = "found" /\ (\A q, r \in table : q.addr = address /\ r.addr = address => q = r)
                         => At(Lines, index).org_instr_byte = ORG
  BY DEF BreakpointsPlaced, Running
<1>1. TypeInv /\ Cache /\ Within /\ Bytes  BY DEF PlaceInv, Inv
<1>2. \A r \in table : InCache(instr_cache, r) /\ r.addr + image.load \in DOMAIN code
  BY <1>1, AllFetched DEF Placed
<1>3. {p \in DOMAIN code : code[p] = INT3} = {r.addr + image.load : r \in table}
  BY <1>1, <1>2 DEF Bytes
<1>4. table # {} => base_address = image.load  BY <1>1, <1>2 DEF Bytes
<1>5. ASSUME pc = "found", \A q, r \in table : q.addr = address /\ r.addr = address => q = r
      PROVE  At(Lines, index).org_instr_byte = ORG
  <2>1. unit \in Nat /\ unit < Len(instr_cache) /\ index \in Nat /\ index < Len(Lines) /\ Addr(index) = address
    BY <1>1, <1>5 DEF Within, Found, TypeInv
  <2>2. PICK m \in Nat : m = Len(Lines) /\ Lines \in Seq(LineSet) /\ unit + 1 \in DOMAIN instr_cache
                         /\ \A x \in 0 .. m - 1 : At(Lines, x).row \in table
    BY <1>1, <2>1, LinesOf DEF Lines
  <2>3. index \in 0 .. m - 1 /\ index + 1 \in DOMAIN Lines  BY <2>1, <2>2
  <2>4. Sole(table, Lines[index + 1].row)  BY <1>5, <2>1, <2>2, <2>3 DEF Sole, Addr, At
  <2> QED  BY <1>1, <2>2, <2>3, <2>4 DEF Bytes, Lines, At
<1> QED  BY <1>3, <1>4, <1>5

\* set_breakpoints() (run.c:306) leaves an INT 3 at every statement of the child and
\* nowhere else, and lookup_cache() hands process_breakpoint() the byte that was there:
\* for every table, every number of units and every image it can handle.
THEOREM BreakpointsArePlaced ==
  ASSUME Typed, TypedImages
  PROVE  LineSpec => []BreakpointsPlaced
<1>1. LineInit => PlaceInv  BY PlaceInit
<1>2. PlaceInv /\ [LineNext]_lineVars => PlaceInv'  BY PlaceStep
<1>3. PlaceInv => BreakpointsPlaced  BY PlaceExact
<1> QED  BY <1>1, <1>2, <1>3, PTL DEF LineSpec


-----------------------------------------------------------------------------
(* One UPDATE over the table of types.                                     *)

TypeRowSet ==
  [unit : Nat, off : Nat \ {0}, size : Int, dim : Int, parent : Nat, kind : TypeTags \cup Encodings,
   attrs : SUBSET Propagating, indirect : Int]

\* The rows before i as they are in B, the others as they are in A.
Mixed(B, A, i) == [j \in DOMAIN A |-> IF j < i THEN B[j] ELSE A[j]]

\* Tables with the same keys as A.
SameKeys(A) ==
  {B \in [DOMAIN A -> TypeRowSet] : \A i \in DOMAIN A : B[i].off = A[i].off /\ B[i].parent = A[i].parent}

\* A pass over table A sets row n in its n-th step, to R[n].
Pass(N, A, R, t) ==
  /\ A = [i \in 1 .. N |-> A[i]] /\ t[0] = A
  /\ \A n \in 1 .. N : t[n] = [t[n - 1] EXCEPT ![n] = R[n]]

\* The table after each step of a pass.
LEMMA PassRows ==
  ASSUME NEW N \in Nat, NEW A, NEW R, NEW t, Pass(N, A, R, t)
  PROVE  \A k \in 0 .. N : t[k] = [i \in 1 .. N |-> IF i <= k THEN R[i] ELSE A[i]]
<1> DEFINE T(k) == [i \in 1 .. N |-> IF i <= k THEN R[i] ELSE A[i]]
           S == {k \in 0 .. N : t[k] = T(k)}
<1>1. 0 \in S
  <2>1. A = T(0)  BY DEF Pass
  <2> QED  BY <2>1 DEF Pass
<1>2. ASSUME NEW k \in 0 .. N - 1, k \in S  PROVE k + 1 \in S
  <2>1. k \in Nat /\ k + 1 \in 1 .. N /\ (k + 1) - 1 = k  OBVIOUS
  <2>2. t[k + 1] = [T(k) EXCEPT ![k + 1] = R[k + 1]]  BY <1>2, <2>1 DEF Pass
  <2>3. \A i \in 1 .. N : i # k + 1 => (i <= k + 1 <=> i <= k)  BY <2>1
  <2>4. [T(k) EXCEPT ![k + 1] = R[k + 1]] = [i \in 1 .. N |-> IF i = k + 1 THEN R[k + 1] ELSE T(k)[i]]
    OBVIOUS
  <2>5. \A i \in 1 .. N : (IF i = k + 1 THEN R[k + 1] ELSE T(k)[i]) = (IF i <= k + 1 THEN R[i] ELSE A[i])
    BY <2>1, <2>3
  <2>6. t[k + 1] = T(k + 1)
    <3>1. T(k + 1) = [i \in 1 .. N |-> IF i <= k + 1 THEN R[i] ELSE A[i]]  OBVIOUS
    <3> HIDE DEF T
    <3> QED  BY <2>2, <2>4, <2>5, <3>1
  <2> HIDE DEF T
  <2> QED  BY <2>1, <2>6
<1> HIDE DEF S
<1>3. 0 .. N \subseteq S  BY <1>1, <1>2, InductionUpTo
<1> QED  BY <1>3 DEF S

\* The result of a pass is its own rows: each was computed with the rows before
\* it as they are in the result.
LEMMA PassResult ==
  ASSUME NEW N \in Nat, NEW A, NEW R, NEW t, Pass(N, A, R, t)
  PROVE  \A n \in 1 .. N : t[N][n] = R[n] /\ t[n - 1] = Mixed(t[N], A, n)
<1>1. \A k \in 0 .. N : t[k] = [i \in 1 .. N |-> IF i <= k THEN R[i] ELSE A[i]]  BY PassRows
<1> SUFFICES ASSUME NEW n \in 1 .. N  PROVE t[N][n] = R[n] /\ t[n - 1] = Mixed(t[N], A, n)
  OBVIOUS
<1>2. N \in 0 .. N /\ n - 1 \in 0 .. N /\ \A i \in 1 .. N : i <= N /\ (i <= n - 1 <=> i < n)  OBVIOUS
<1>3. \A i \in 1 .. N : t[N][i] = R[i]  BY <1>1, <1>2
<1>4. t[n - 1] = [i \in 1 .. N |-> IF i <= n - 1 THEN R[i] ELSE A[i]]  BY <1>1, <1>2
<1>5. DOMAIN A = 1 .. N  BY DEF Pass
<1>6. Mixed(t[N], A, n) = [i \in 1 .. N |-> IF i < n THEN t[N][i] ELSE A[i]]  BY <1>5 DEF Mixed
<1>7. \A i \in 1 .. N : (IF i < n THEN t[N][i] ELSE A[i]) = (IF i <= n - 1 THEN R[i] ELSE A[i])
  BY <1>2, <1>3
<1> QED  BY <1>3, <1>4, <1>6, <1>7

\* ParentOf() depends on the keys only as to which rows it finds.
LEMMA ParentRows ==
  ASSUME NEW ts, NEW r, NEW p
  PROVE  p \in ParentOf(ts, r) <=> \E j \in DOMAIN ts : ts[j].off = r.parent /\ p = ts[j]
BY DEF ParentOf

\* Setting one row of a table of the same keys.
LEMMA SetRow ==
  ASSUME NEW A, NEW B \in SameKeys(A), NEW n \in DOMAIN A, NEW r \in TypeRowSet,
         r.off = A[n].off, r.parent = A[n].parent
  PROVE  [B EXCEPT ![n] = r] \in SameKeys(A)
<1> DEFINE C == [B EXCEPT ![n] = r]
<1>1. B \in [DOMAIN A -> TypeRowSet] /\ \A i \in DOMAIN A : B[i].off = A[i].off /\ B[i].parent = A[i].parent
  BY DEF SameKeys
<1>2. C \in [DOMAIN A -> TypeRowSet]  BY <1>1
<1>3. \A i \in DOMAIN A : C[i] = IF i = n THEN r ELSE B[i]  BY <1>1
<1> HIDE DEF C
<1>4. \A i \in DOMAIN A : C[i].off = A[i].off /\ C[i].parent = A[i].parent  BY <1>1, <1>3
<1> QED  BY <1>2, <1>4 DEF SameKeys, C

\* One step of each UPDATE keeps the keys.
LEMMA FlagsRowTyped ==
  ASSUME NEW A, NEW B \in SameKeys(A), NEW n \in DOMAIN A,
         A[n].kind = NOKIND => \E j \in DOMAIN A : A[j].off = A[n].parent,
         B[n].kind = NOKIND => A[n].kind = NOKIND
  PROVE  /\ FlagsRow(B, n) \in TypeRowSet
         /\ FlagsRow(B, n).off = A[n].off /\ FlagsRow(B, n).parent = A[n].parent
<1>1. /\ B \in [DOMAIN A -> TypeRowSet] /\ DOMAIN B = DOMAIN A
      /\ \A i \in DOMAIN A : B[i].off = A[i].off /\ B[i].parent = A[i].parent
  BY DEF SameKeys
<1>2. CASE B[n].kind # NOKIND
  <2>1. FlagsRow(B, n) = B[n]  BY <1>2 DEF FlagsRow
  <2> QED  BY <1>1, <2>1
<1>3. CASE B[n].kind = NOKIND
  <2>1. PICK j \in DOMAIN A : A[j].off = A[n].parent  BY <1>3
  <2>2. B[j] \in ParentOf(B, B[n])  BY <1>1, <2>1, ParentRows
  <2>3. PICK p : p = (CHOOSE x \in ParentOf(B, B[n]) : TRUE) /\ p \in ParentOf(B, B[n])  BY <2>2
  <2>4. p \in TypeRowSet  BY <1>1, <2>3, ParentRows
  <2>5. FlagsRow(B, n) = [B[n] EXCEPT !.kind = p.kind, !.attrs = B[n].attrs \cup p.attrs]
    BY <1>3, <2>3 DEF FlagsRow
  <2>6. B[n] \in TypeRowSet  BY <1>1
  <2> QED  BY <1>1, <2>4, <2>5, <2>6 DEF TypeRowSet
<1> QED  BY <1>2, <1>3

\* A size looked up is a number.
LEMMA SizeOfTyped ==
  ASSUME NEW P, P \subseteq TypeRowSet
  PROVE  SizeOf(P) \in Int
<1>1. CASE P = {}  BY <1>1 DEF SizeOf, NULL
<1>2. CASE P # {}
  <2>1. PICK p : p = (CHOOSE x \in P : TRUE) /\ p \in P  BY <1>2
  <2> QED  BY <1>2, <2>1 DEF SizeOf, TypeRowSet
<1> QED  BY <1>1, <1>2

\* One step of the UPDATE of sizes keeps the keys.
LEMMA SizeRowTyped ==
  ASSUME NEW A, NEW B \in SameKeys(A), NEW n \in DOMAIN A
  PROVE  /\ SizeRow(B, n) \in TypeRowSet
         /\ SizeRow(B, n).off = A[n].off /\ SizeRow(B, n).parent = A[n].parent
<1>1. /\ B \in [DOMAIN A -> TypeRowSet] /\ DOMAIN B = DOMAIN A
      /\ \A i \in DOMAIN A : B[i].off = A[i].off /\ B[i].parent = A[i].parent
  BY DEF SameKeys
<1>2. PICK s : s = SizeOf(ParentOf(B, B[n])) /\ s \in Int
  <2>1. ParentOf(B, B[n]) \subseteq TypeRowSet  BY <1>1, ParentRows
  <2> QED  BY <2>1, SizeOfTyped
<1>3. SizeRow(B, n) = IF B[n].size # 0 THEN B[n] ELSE [B[n] EXCEPT !.size = s]  BY <1>2 DEF SizeRow
<1>4. B[n] \in TypeRowSet  BY <1>1
<1>5. [B[n] EXCEPT !.size = s] \in TypeRowSet /\ [B[n] EXCEPT !.size = s].off = B[n].off
      /\ [B[n] EXCEPT !.size = s].parent = B[n].parent
  BY <1>2, <1>4 DEF TypeRowSet
<1> QED  BY <1>1, <1>3, <1>4, <1>5

\* One step of the UPDATE of array sizes keeps the keys.
LEMMA ArrayRowTyped ==
  ASSUME NEW A, NEW B \in SameKeys(A), NEW n \in DOMAIN A
  PROVE  /\ ArrayRow(B, n) \in TypeRowSet
         /\ ArrayRow(B, n).off = A[n].off /\ ArrayRow(B, n).parent = A[n].parent
<1>1. /\ B \in [DOMAIN A -> TypeRowSet] /\ DOMAIN B = DOMAIN A
      /\ \A i \in DOMAIN A : B[i].off = A[i].off /\ B[i].parent = A[i].parent
  BY DEF SameKeys
<1>2. PICK s : s = SizeOf({p \in ParentOf(B, B[n]) : p.size > 0}) /\ s \in Int
  <2>1. {p \in ParentOf(B, B[n]) : p.size > 0} \subseteq TypeRowSet  BY <1>1, ParentRows
  <2> QED  BY <2>1, SizeOfTyped
<1>3. PICK m : m = (IF s = NULL THEN NULL ELSE B[n].dim * s)  OBVIOUS
<1>4. B[n] \in TypeRowSet  BY <1>1
<1>5. m \in Int
  <2>1. B[n].dim \in Int  BY <1>4 DEF TypeRowSet
  <2> QED  BY <1>2, <1>3, <2>1 DEF NULL
<1>6. ArrayRow(B, n) = IF B[n].size # 0 \/ B[n].kind # "array" THEN B[n] ELSE [B[n] EXCEPT !.size = m]
  BY <1>2, <1>3 DEF ArrayRow
<1>7. [B[n] EXCEPT !.size = m] \in TypeRowSet /\ [B[n] EXCEPT !.size = m].off = B[n].off
      /\ [B[n] EXCEPT !.size = m].parent = B[n].parent
  BY <1>4, <1>5 DEF TypeRowSet
<1> QED  BY <1>1, <1>4, <1>6, <1>7

\* The UPDATE that propagates kinds and attributes (db.c:293).
LEMMA FlagsPass ==
  ASSUME NEW N \in Nat, NEW A \in [1 .. N -> TypeRowSet],
         \A n \in 1 .. N : A[n].kind = NOKIND => \E j \in 1 .. N : A[j].off = A[n].parent
  PROVE  /\ PropagateFlags(A) \in SameKeys(A)
         /\ \A n \in 1 .. N : PropagateFlags(A)[n] = FlagsRow(Mixed(PropagateFlags(A), A, n), n)
<1> DEFINE V == {B \in SameKeys(A) : \A i \in DOMAIN A : A[i].kind # NOKIND => B[i].kind = A[i].kind}
           Step(B, n) == [B EXCEPT ![n] = FlagsRow(B, n)]
           F == [n \in 1 .. N |-> [B \in V |-> Step(B, n)]]
           Body(g) == [n \in 0 .. N |-> IF n = 0 THEN A ELSE Step(g[n - 1], n)]
<1>0. A \in Seq(TypeRowSet) /\ Len(A) = N /\ DOMAIN A = 1 .. N  OBVIOUS
<1>1. A \in V  BY <1>0 DEF SameKeys
<1>2. ASSUME NEW n \in 1 .. N, NEW B \in V  PROVE Step(B, n) \in V
  <2>1. B \in SameKeys(A) /\ (B[n].kind = NOKIND => A[n].kind = NOKIND)  OBVIOUS
  <2>2. n \in DOMAIN A /\ (A[n].kind = NOKIND => \E j \in DOMAIN A : A[j].off = A[n].parent)  BY <1>0
  <2>3. PICK r : r = FlagsRow(B, n)  OBVIOUS
  <2>4. r \in TypeRowSet /\ r.off = A[n].off /\ r.parent = A[n].parent  BY <2>1, <2>2, <2>3, FlagsRowTyped
  <2>5. [B EXCEPT ![n] = r] \in SameKeys(A)  BY <2>1, <2>2, <2>4, SetRow
  <2>6. A[n].kind # NOKIND => r.kind = A[n].kind  BY <1>0, <2>3 DEF FlagsRow
  <2>7. \A i \in DOMAIN A : A[i].kind # NOKIND => [B EXCEPT ![n] = r][i].kind = A[i].kind
    <3>1. DOMAIN B = DOMAIN A  BY <2>1 DEF SameKeys
    <3> QED  BY <2>6, <3>1
  <2> QED  BY <2>3, <2>5, <2>7
<1>3. F \in [1 .. N -> [V -> V]]
  <2> HIDE DEF V, Step
  <2> QED  BY <1>2
<1>4. PICK f \in [0 .. N -> V] : f[0] = A /\ \A n \in 1 .. N : f[n] = F[n][f[n - 1]]
  <2> HIDE DEF F, V
  <2>1. DefinedUpTo(N, V, A, F)  BY <1>1, <1>3, RecursionUpTo
  <2> QED  BY <2>1 DEF DefinedUpTo
<1>5. \A n \in 1 .. N : n - 1 \in 0 .. N /\ f[n - 1] \in V  OBVIOUS
<1>6. \A n \in 1 .. N : f[n] = Step(f[n - 1], n)
  <2> HIDE DEF V, Step
  <2> QED  BY <1>4, <1>5
<1>7. f = Body(f)
  <2> HIDE DEF V, Step
  <2>1. \A n \in 0 .. N : f[n] = IF n = 0 THEN A ELSE Step(f[n - 1], n)
    BY <1>4, <1>6
  <2> QED  BY <2>1
<1>8. PropagateFlags(A) = (CHOOSE g : g = Body(g))[N]  BY <1>0 DEF PropagateFlags, Update
<1>9. PICK t : t = Body(t) /\ PropagateFlags(A) = t[N]
  <2> HIDE DEF Body
  <2> QED  BY <1>7, <1>8
<1>10. t[0] = A /\ \A n \in 1 .. N : t[n] = Step(t[n - 1], n)
  <2> HIDE DEF Step
  <2> QED  BY <1>9
<1> DEFINE R == [n \in 1 .. N |-> FlagsRow(t[n - 1], n)]
<1>11. Pass(N, A, R, t)  BY <1>10 DEF Pass
<1> HIDE DEF Body
<1>12. \A n \in 1 .. N : t[N][n] = FlagsRow(t[n - 1], n) /\ t[n - 1] = Mixed(t[N], A, n)
  <2>1. \A n \in 1 .. N : R[n] = FlagsRow(t[n - 1], n)  OBVIOUS
  <2> HIDE DEF R
  <2> QED  BY <1>11, <2>1, PassResult
<1>13. t[N] \in SameKeys(A)
  <2> DEFINE S == {k \in 0 .. N : t[k] \in V}
  <2>1. 0 \in S  BY <1>1, <1>10
  <2>2. ASSUME NEW k \in 0 .. N - 1, k \in S  PROVE k + 1 \in S
    <3>1. k + 1 \in 1 .. N /\ (k + 1) - 1 = k /\ k + 1 \in 0 .. N  OBVIOUS
    <3>2. t[k + 1] = Step(t[k], k + 1)  BY <1>10, <3>1
    <3>3. t[k + 1] \in V
      <4> HIDE DEF V, Step
      <4> QED  BY <1>2, <2>2, <3>1, <3>2
    <3> QED  BY <3>1, <3>3
  <2> HIDE DEF S, V
  <2>3. 0 .. N \subseteq S  BY <2>1, <2>2, InductionUpTo
  <2>4. t[N] \in V  BY <2>3 DEF S
  <2> QED  BY <2>4 DEF V
<1> QED  BY <1>9, <1>12, <1>13

\* The UPDATE that propagates sizes (db.c:305).
LEMMA SizePass ==
  ASSUME NEW N \in Nat, NEW A \in [1 .. N -> TypeRowSet]
  PROVE  /\ PropagateSize(A) \in SameKeys(A)
         /\ \A n \in 1 .. N : PropagateSize(A)[n] = SizeRow(Mixed(PropagateSize(A), A, n), n)
<1> DEFINE V == SameKeys(A)
           Step(B, n) == [B EXCEPT ![n] = SizeRow(B, n)]
           F == [n \in 1 .. N |-> [B \in V |-> Step(B, n)]]
           Body(g) == [n \in 0 .. N |-> IF n = 0 THEN A ELSE Step(g[n - 1], n)]
<1>0. A \in Seq(TypeRowSet) /\ Len(A) = N /\ DOMAIN A = 1 .. N  OBVIOUS
<1>1. A \in V  BY <1>0 DEF SameKeys
<1>2. ASSUME NEW n \in 1 .. N, NEW B \in V  PROVE Step(B, n) \in V
  <2>1. n \in DOMAIN A  BY <1>0
  <2>2. PICK r : r = SizeRow(B, n)  OBVIOUS
  <2>3. r \in TypeRowSet /\ r.off = A[n].off /\ r.parent = A[n].parent  BY <2>1, <2>2, SizeRowTyped
  <2> QED  BY <2>1, <2>2, <2>3, SetRow
<1>3. F \in [1 .. N -> [V -> V]]
  <2> HIDE DEF V, Step
  <2> QED  BY <1>2
<1>4. PICK f \in [0 .. N -> V] : f[0] = A /\ \A n \in 1 .. N : f[n] = F[n][f[n - 1]]
  <2> HIDE DEF F, V
  <2>1. DefinedUpTo(N, V, A, F)  BY <1>1, <1>3, RecursionUpTo
  <2> QED  BY <2>1 DEF DefinedUpTo
<1>5. \A n \in 1 .. N : n - 1 \in 0 .. N /\ f[n - 1] \in V  OBVIOUS
<1>6. \A n \in 1 .. N : f[n] = Step(f[n - 1], n)
  <2> HIDE DEF V, Step
  <2> QED  BY <1>4, <1>5
<1>7. f = Body(f)
  <2> HIDE DEF V, Step
  <2>1. \A n \in 0 .. N : f[n] = IF n = 0 THEN A ELSE Step(f[n - 1], n)
    BY <1>4, <1>6
  <2> QED  BY <2>1
<1>8. PropagateSize(A) = (CHOOSE g : g = Body(g))[N]  BY <1>0 DEF PropagateSize, Update
<1>9. PICK t : t = Body(t) /\ PropagateSize(A) = t[N]
  <2> HIDE DEF Body
  <2> QED  BY <1>7, <1>8
<1>10. t[0] = A /\ \A n \in 1 .. N : t[n] = Step(t[n - 1], n)
  <2> HIDE DEF Step
  <2> QED  BY <1>9
<1> DEFINE R == [n \in 1 .. N |-> SizeRow(t[n - 1], n)]
<1>11. Pass(N, A, R, t)  BY <1>10 DEF Pass
<1> HIDE DEF Body
<1>12. \A n \in 1 .. N : t[N][n] = SizeRow(t[n - 1], n) /\ t[n - 1] = Mixed(t[N], A, n)
  <2>1. \A n \in 1 .. N : R[n] = SizeRow(t[n - 1], n)  OBVIOUS
  <2> HIDE DEF R
  <2> QED  BY <1>11, <2>1, PassResult
<1>13. t[N] \in SameKeys(A)
  <2> DEFINE S == {k \in 0 .. N : t[k] \in V}
  <2>1. 0 \in S  BY <1>1, <1>10
  <2>2. ASSUME NEW k \in 0 .. N - 1, k \in S  PROVE k + 1 \in S
    <3>1. k + 1 \in 1 .. N /\ (k + 1) - 1 = k /\ k + 1 \in 0 .. N  OBVIOUS
    <3>2. t[k + 1] = Step(t[k], k + 1)  BY <1>10, <3>1
    <3>3. t[k + 1] \in V
      <4> HIDE DEF V, Step
      <4> QED  BY <1>2, <2>2, <3>1, <3>2
    <3> QED  BY <3>1, <3>3
  <2> HIDE DEF S, V
  <2>3. 0 .. N \subseteq S  BY <2>1, <2>2, InductionUpTo
  <2>4. t[N] \in V  BY <2>3 DEF S
  <2> QED  BY <2>4 DEF V
<1> QED  BY <1>9, <1>12, <1>13

\* The UPDATE that calculates the sizes of arrays (db.c:317).
LEMMA ArrayPass ==
  ASSUME NEW N \in Nat, NEW A \in [1 .. N -> TypeRowSet]
  PROVE  /\ ArraySize(A) \in SameKeys(A)
         /\ \A n \in 1 .. N : ArraySize(A)[n] = ArrayRow(Mixed(ArraySize(A), A, n), n)
<1> DEFINE V == SameKeys(A)
           Step(B, n) == [B EXCEPT ![n] = ArrayRow(B, n)]
           F == [n \in 1 .. N |-> [B \in V |-> Step(B, n)]]
           Body(g) == [n \in 0 .. N |-> IF n = 0 THEN A ELSE Step(g[n - 1], n)]
<1>0. A \in Seq(TypeRowSet) /\ Len(A) = N /\ DOMAIN A = 1 .. N  OBVIOUS
<1>1. A \in V  BY <1>0 DEF SameKeys
<1>2. ASSUME NEW n \in 1 .. N, NEW B \in V  PROVE Step(B, n) \in V
  <2>1. n \in DOMAIN A  BY <1>0
  <2>2. PICK r : r = ArrayRow(B, n)  OBVIOUS
  <2>3. r \in TypeRowSet /\ r.off = A[n].off /\ r.parent = A[n].parent  BY <2>1, <2>2, ArrayRowTyped
  <2> QED  BY <2>1, <2>2, <2>3, SetRow
<1>3. F \in [1 .. N -> [V -> V]]
  <2> HIDE DEF V, Step
  <2> QED  BY <1>2
<1>4. PICK f \in [0 .. N -> V] : f[0] = A /\ \A n \in 1 .. N : f[n] = F[n][f[n - 1]]
  <2> HIDE DEF F, V
  <2>1. DefinedUpTo(N, V, A, F)  BY <1>1, <1>3, RecursionUpTo
  <2> QED  BY <2>1 DEF DefinedUpTo
<1>5. \A n \in 1 .. N : n - 1 \in 0 .. N /\ f[n - 1] \in V  OBVIOUS
<1>6. \A n \in 1 .. N : f[n] = Step(f[n - 1], n)
  <2> HIDE DEF V, Step
  <2> QED  BY <1>4, <1>5
<1>7. f = Body(f)
  <2> HIDE DEF V, Step
  <2>1. \A n \in 0 .. N : f[n] = IF n = 0 THEN A ELSE Step(f[n - 1], n)
    BY <1>4, <1>6
  <2> QED  BY <2>1
<1>8. ArraySize(A) = (CHOOSE g : g = Body(g))[N]  BY <1>0 DEF ArraySize, Update
<1>9. PICK t : t = Body(t) /\ ArraySize(A) = t[N]
  <2> HIDE DEF Body
  <2> QED  BY <1>7, <1>8
<1>10. t[0] = A /\ \A n \in 1 .. N : t[n] = Step(t[n - 1], n)
  <2> HIDE DEF Step
  <2> QED  BY <1>9
<1> DEFINE R == [n \in 1 .. N |-> ArrayRow(t[n - 1], n)]
<1>11. Pass(N, A, R, t)  BY <1>10 DEF Pass
<1> HIDE DEF Body
<1>12. \A n \in 1 .. N : t[N][n] = ArrayRow(t[n - 1], n) /\ t[n - 1] = Mixed(t[N], A, n)
  <2>1. \A n \in 1 .. N : R[n] = ArrayRow(t[n - 1], n)  OBVIOUS
  <2> HIDE DEF R
  <2> QED  BY <1>11, <2>1, PassResult
<1>13. t[N] \in SameKeys(A)
  <2> DEFINE S == {k \in 0 .. N : t[k] \in V}
  <2>1. 0 \in S  BY <1>1, <1>10
  <2>2. ASSUME NEW k \in 0 .. N - 1, k \in S  PROVE k + 1 \in S
    <3>1. k + 1 \in 1 .. N /\ (k + 1) - 1 = k /\ k + 1 \in 0 .. N  OBVIOUS
    <3>2. t[k + 1] = Step(t[k], k + 1)  BY <1>10, <3>1
    <3>3. t[k + 1] \in V
      <4> HIDE DEF V, Step
      <4> QED  BY <1>2, <2>2, <3>1, <3>2
    <3> QED  BY <3>1, <3>3
  <2> HIDE DEF S, V
  <2>3. 0 .. N \subseteq S  BY <2>1, <2>2, InductionUpTo
  <2>4. t[N] \in V  BY <2>3 DEF S
  <2> QED  BY <2>4 DEF V
<1> QED  BY <1>9, <1>12, <1>13

-----------------------------------------------------------------------------
(* What the UPDATEs make of the types.                                     *)

\* Offsets are the identity of types.
Distinct(A) == \A i, j \in DOMAIN A : A[i].off = A[j].off => i = j

\* The parent of a row is one row.
LEMMA UniqueParent ==
  ASSUME NEW T, Distinct(T), NEW r, NEW j \in DOMAIN T, T[j].off = r.parent
  PROVE  ParentOf(T, r) = {T[j]}
BY DEF ParentOf, Distinct

\* The table that a row is computed from.
LEMMA MixedFacts ==
  ASSUME NEW N \in Nat, NEW A \in [1 .. N -> TypeRowSet], Distinct(A), NEW B \in SameKeys(A), NEW n \in 1 .. N
  PROVE  /\ Mixed(B, A, n) \in SameKeys(A) /\ DOMAIN Mixed(B, A, n) = 1 .. N
         /\ Distinct(Mixed(B, A, n))
         /\ Mixed(B, A, n)[n] = A[n]
         /\ \A j \in 1 .. n - 1 : Mixed(B, A, n)[j] = B[j]
<1> DEFINE M == Mixed(B, A, n)
<1>1. DOMAIN A = 1 .. N /\ B \in [1 .. N -> TypeRowSet]  BY DEF SameKeys
<1>2. M = [j \in 1 .. N |-> IF j < n THEN B[j] ELSE A[j]]  BY <1>1 DEF Mixed
<1> HIDE DEF M
<1>3. M \in [1 .. N -> TypeRowSet]  BY <1>1, <1>2
<1>4. \A j \in 1 .. N : M[j].off = A[j].off /\ M[j].parent = A[j].parent  BY <1>1, <1>2 DEF SameKeys
<1>5. M \in SameKeys(A)  BY <1>1, <1>3, <1>4 DEF SameKeys
<1>6. Distinct(M)  BY <1>1, <1>3, <1>4 DEF Distinct
<1>7. M[n] = A[n] /\ \A j \in 1 .. n - 1 : M[j] = B[j]  BY <1>2
<1> QED  BY <1>3, <1>5, <1>6, <1>7 DEF M

\* B is A with the kinds and attributes of the parents, where they come before.
FlagsOf(A, B) ==
  \A i \in DOMAIN A :
    /\ B[i].size = A[i].size
    /\ A[i].kind # NOKIND => B[i].kind = A[i].kind /\ B[i].attrs = A[i].attrs
    /\ A[i].kind = NOKIND => A[i].attrs \subseteq B[i].attrs
    /\ A[i].kind = NOKIND => \A j \in 1 .. i - 1 : A[j].off = A[i].parent =>
                               B[i].kind = B[j].kind /\ B[j].attrs \subseteq B[i].attrs
\* B is A with the sizes of the parents.
SizesOf(A, B) ==
  \A i \in DOMAIN A :
    /\ B[i].kind = A[i].kind /\ B[i].attrs = A[i].attrs
    /\ A[i].size # 0 => B[i].size = A[i].size
    /\ A[i].size = 0 => \A j \in 1 .. i - 1 : A[j].off = A[i].parent => B[i].size = B[j].size
    /\ A[i].size = 0 /\ (\A j \in DOMAIN A : A[j].off # A[i].parent) => B[i].size = NULL
\* B is A where no size is 0.
ArraysOf(A, B) ==
  \A i \in DOMAIN A :
    /\ B[i].kind = A[i].kind /\ B[i].attrs = A[i].attrs
    /\ A[i].size # 0 => B[i].size = A[i].size

\* What the UPDATE of kinds and attributes gives each row.
LEMMA FlagsResult ==
  ASSUME NEW N \in Nat, NEW A \in [1 .. N -> TypeRowSet], Distinct(A),
         \A n \in 1 .. N : A[n].kind = NOKIND => \E j \in 1 .. N : A[j].off = A[n].parent
  PROVE  PropagateFlags(A) \in SameKeys(A) /\ FlagsOf(A, PropagateFlags(A))
<1>1. PICK B : B = PropagateFlags(A)  OBVIOUS
<1>2. B \in SameKeys(A) /\ \A n \in 1 .. N : B[n] = FlagsRow(Mixed(B, A, n), n)  BY <1>1, FlagsPass
<1>3. DOMAIN A = 1 .. N  OBVIOUS
<1>4. ASSUME NEW i \in 1 .. N
      PROVE  /\ B[i].size = A[i].size
             /\ A[i].kind # NOKIND => B[i].kind = A[i].kind /\ B[i].attrs = A[i].attrs
             /\ A[i].kind = NOKIND => A[i].attrs \subseteq B[i].attrs
             /\ A[i].kind = NOKIND => \A j \in 1 .. i - 1 : A[j].off = A[i].parent =>
                                        B[i].kind = B[j].kind /\ B[j].attrs \subseteq B[i].attrs
  <2>1. PICK M : M = Mixed(B, A, i)  OBVIOUS
  <2>2. /\ M \in SameKeys(A) /\ DOMAIN M = 1 .. N /\ Distinct(M) /\ M[i] = A[i]
        /\ \A j \in 1 .. i - 1 : M[j] = B[j]
    BY <1>2, <2>1, MixedFacts
  <2>3. B[i] = FlagsRow(M, i)  BY <1>2, <2>1
  <2>4. CASE A[i].kind # NOKIND
    <3>1. B[i] = A[i]  BY <2>2, <2>3, <2>4 DEF FlagsRow
    <3> QED  BY <2>4, <3>1
  <2>5. CASE A[i].kind = NOKIND
    <3>1. PICK k \in 1 .. N : A[k].off = A[i].parent  BY <2>5
    <3>2. M[k].off = A[i].parent  BY <1>3, <2>2, <3>1 DEF SameKeys
    <3>3. ParentOf(M, A[i]) = {M[k]}  BY <2>2, <3>2, UniqueParent
    <3>4. PICK p : p = (CHOOSE x \in ParentOf(M, A[i]) : TRUE) /\ p = M[k]  BY <3>3
    <3>5. B[i] = [A[i] EXCEPT !.kind = p.kind, !.attrs = A[i].attrs \cup p.attrs]
      BY <2>2, <2>3, <2>5, <3>4 DEF FlagsRow
    <3>6. A[i] \in TypeRowSet  OBVIOUS
    <3>7. B[i].size = A[i].size /\ B[i].kind = p.kind /\ B[i].attrs = A[i].attrs \cup p.attrs
      BY <3>5, <3>6 DEF TypeRowSet
    <3>8. ASSUME NEW j \in 1 .. i - 1, A[j].off = A[i].parent  PROVE p = B[j]
      <4>1. j \in 1 .. N  OBVIOUS
      <4>2. j = k  BY <1>3, <3>1, <3>8, <4>1 DEF Distinct
      <4> QED  BY <2>2, <3>4, <4>2
    <3> QED  BY <2>5, <3>7, <3>8
  <2> QED  BY <2>4, <2>5
<1> QED  BY <1>1, <1>2, <1>3, <1>4 DEF FlagsOf

\* What the UPDATE of sizes gives each row.
LEMMA SizeResult ==
  ASSUME NEW N \in Nat, NEW A \in [1 .. N -> TypeRowSet], Distinct(A)
  PROVE  PropagateSize(A) \in SameKeys(A) /\ SizesOf(A, PropagateSize(A))
<1>1. PICK B : B = PropagateSize(A)  OBVIOUS
<1>2. B \in SameKeys(A) /\ \A n \in 1 .. N : B[n] = SizeRow(Mixed(B, A, n), n)  BY <1>1, SizePass
<1>3. DOMAIN A = 1 .. N  OBVIOUS
<1>4. ASSUME NEW i \in 1 .. N
      PROVE  /\ B[i].kind = A[i].kind /\ B[i].attrs = A[i].attrs
             /\ A[i].size # 0 => B[i].size = A[i].size
             /\ A[i].size = 0 => \A j \in 1 .. i - 1 : A[j].off = A[i].parent => B[i].size = B[j].size
             /\ A[i].size = 0 /\ (\A j \in 1 .. N : A[j].off # A[i].parent) => B[i].size = NULL
  <2>1. PICK M : M = Mixed(B, A, i)  OBVIOUS
  <2>2. /\ M \in SameKeys(A) /\ DOMAIN M = 1 .. N /\ Distinct(M) /\ M[i] = A[i]
        /\ \A j \in 1 .. i - 1 : M[j] = B[j]
    BY <1>2, <2>1, MixedFacts
  <2>3. PICK s : s = SizeOf(ParentOf(M, A[i]))  OBVIOUS
  <2>4. B[i] = IF A[i].size # 0 THEN A[i] ELSE [A[i] EXCEPT !.size = s]
    BY <1>2, <2>1, <2>2, <2>3 DEF SizeRow
  <2>5. A[i] \in TypeRowSet  OBVIOUS
  <2>6. /\ B[i].kind = A[i].kind /\ B[i].attrs = A[i].attrs
        /\ A[i].size # 0 => B[i].size = A[i].size
        /\ A[i].size = 0 => B[i].size = s
    BY <2>4, <2>5 DEF TypeRowSet
  <2>7. ASSUME NEW j \in 1 .. i - 1, A[j].off = A[i].parent  PROVE s = B[j].size
    <3>1. j \in 1 .. N  OBVIOUS
    <3>2. M[j].off = A[i].parent  BY <1>3, <2>2, <2>7, <3>1 DEF SameKeys
    <3>3. ParentOf(M, A[i]) = {M[j]}  BY <2>2, <3>1, <3>2, UniqueParent
    <3>4. SizeOf({M[j]}) = M[j].size  BY DEF SizeOf
    <3> QED  BY <2>2, <2>3, <3>3, <3>4
  <2>8. ASSUME \A j \in 1 .. N : A[j].off # A[i].parent  PROVE s = NULL
    <3>1. \A j \in 1 .. N : M[j].off # A[i].parent  BY <1>3, <2>2, <2>8 DEF SameKeys
    <3>2. ParentOf(M, A[i]) = {}  BY <2>2, <3>1 DEF ParentOf
    <3> QED  BY <2>3, <3>2 DEF SizeOf
  <2> QED  BY <2>6, <2>7, <2>8
<1> QED  BY <1>1, <1>2, <1>3, <1>4 DEF SizesOf

\* The UPDATE of array sizes leaves every size that is not 0.
LEMMA ArrayResult ==
  ASSUME NEW N \in Nat, NEW A \in [1 .. N -> TypeRowSet], Distinct(A)
  PROVE  ArraySize(A) \in SameKeys(A) /\ ArraysOf(A, ArraySize(A))
<1>1. PICK B : B = ArraySize(A)  OBVIOUS
<1>2. B \in SameKeys(A) /\ \A n \in 1 .. N : B[n] = ArrayRow(Mixed(B, A, n), n)  BY <1>1, ArrayPass
<1>3. DOMAIN A = 1 .. N  OBVIOUS
<1>4. ASSUME NEW i \in 1 .. N
      PROVE  /\ B[i].kind = A[i].kind /\ B[i].attrs = A[i].attrs
             /\ A[i].size # 0 => B[i].size = A[i].size
  <2>1. PICK M : M = Mixed(B, A, i) /\ M[i] = A[i]  BY <1>2, MixedFacts
  <2>2. PICK s : B[i] = IF A[i].size # 0 \/ A[i].kind # "array" THEN A[i] ELSE [A[i] EXCEPT !.size = s]
    BY <1>2, <2>1 DEF ArrayRow
  <2>3. A[i] \in TypeRowSet  OBVIOUS
  <2> QED  BY <2>2, <2>3 DEF TypeRowSet
<1> QED  BY <1>1, <1>2, <1>3, <1>4 DEF ArraysOf

\* What the handlers of proc_symbols() store of a type: a qualified type has no
\* kind and no size of its own, an alias has no size, a pointer has one, and the
\* other types but arrays and functions refer to no type.
Collected(r) ==
  /\ r.attrs # {} => r.kind = NOKIND /\ r.size = 0 /\ r.parent # 0
  /\ r.kind = NOKIND /\ r.attrs = {} => r.parent = 0
  /\ r.kind = "alias" => r.size = 0 /\ r.parent # 0
  /\ r.kind = "pointer" => r.size # 0
  /\ r.kind \notin {NOKIND, "alias", "func", "array", "pointer"} => r.parent = 0
CollectedTypes(A) == A \in Seq(TypeRowSet) /\ Distinct(A) /\ \A i \in DOMAIN A : Collected(A[i])

\* Tables that agree on everything but dimensions and indirection.
Alike(A, B) ==
  /\ DOMAIN B = DOMAIN A
  /\ \A i \in DOMAIN A : /\ B[i].off = A[i].off /\ B[i].parent = A[i].parent /\ B[i].size = A[i].size
                         /\ B[i].kind = A[i].kind /\ B[i].attrs = A[i].attrs

\* Backward and the conclusion of TypesResolved, of any table.
RefersBackward(T) ==
  \A i \in DOMAIN T :
    Inherits(T[i]) \/ T[i].kind \in {"array", "func"} =>
      T[i].parent = 0 \/ \E j \in 1 .. i - 1 : T[j].off = T[i].parent
Resolved(T) ==
  \A i \in DOMAIN T : Inherits(T[i]) =>
    \E p \in ParentOf(T, T[i]) :
      /\ p.size = T[i].size
      /\ T[i].kind # "alias" \/ T[i].attrs # {} => (T[i].kind = p.kind /\ p.attrs \subseteq T[i].attrs)

\* No size is 0 after the sizes are propagated, where types refer backward: the
\* first such row would have its size from a row before it.
LEMMA NoSizeZero ==
  ASSUME NEW N \in Nat, NEW A \in [1 .. N -> TypeRowSet], \A i \in 1 .. N : Collected(A[i]),
         NEW B \in SameKeys(A), FlagsOf(A, B), NEW C \in SameKeys(B), SizesOf(B, C),
         \A i \in 1 .. N : ~(A[i].kind = NOKIND /\ A[i].attrs = {}),
         RefersBackward(C)
  PROVE  \A i \in 1 .. N : C[i].size # 0
<1> DEFINE Z == {i \in 1 .. N : C[i].size = 0}
<1> SUFFICES ASSUME Z # {}  PROVE FALSE
  OBVIOUS
<1>1. PICK i \in Z : \A j \in Z : i <= j
  <2>1. Z \in SUBSET Nat  OBVIOUS
  <2> HIDE DEF Z
  <2> QED  BY <2>1, NatHasLeast
<1>2. i \in 1 .. N /\ C[i].size = 0 /\ \A j \in 1 .. i - 1 : C[j].size # 0  BY <1>1
<1>3. DOMAIN A = 1 .. N /\ DOMAIN B = 1 .. N /\ DOMAIN C = 1 .. N  BY DEF SameKeys
<1>4. \A j \in 1 .. N : A[j] \in TypeRowSet /\ B[j].off = A[j].off /\ B[j].parent = A[j].parent
                        /\ C[j].off = A[j].off /\ C[j].parent = A[j].parent
  BY <1>3 DEF SameKeys
<1>5. B[i].size = A[i].size /\ A[i].size = 0  BY <1>2, <1>3 DEF FlagsOf, SizesOf
<1>6. A[i].parent = 0 => C[i].size = NULL
  <2>1. ASSUME A[i].parent = 0  PROVE \A j \in 1 .. N : B[j].off # B[i].parent
    BY <1>2, <1>4, <2>1 DEF TypeRowSet
  <2> QED  BY <1>2, <1>3, <1>5, <2>1 DEF SizesOf
<1>7. A[i].parent # 0  BY <1>2, <1>6 DEF NULL
<1>8. A[i].kind \in {NOKIND, "alias", "func", "array"}  BY <1>2, <1>5, <1>7 DEF Collected
<1>9. Inherits(C[i]) \/ C[i].kind \in {"array", "func"}
  <2>1. CASE A[i].kind # NOKIND
    <3>1. C[i].kind = A[i].kind  BY <1>2, <1>3, <2>1 DEF FlagsOf, SizesOf
    <3> QED  BY <1>8, <2>1, <3>1 DEF Inherits
  <2>2. CASE A[i].kind = NOKIND
    <3>1. A[i].attrs # {}  BY <1>2, <2>2
    <3>2. A[i].attrs \subseteq C[i].attrs  BY <1>2, <1>3, <2>2 DEF FlagsOf, SizesOf
    <3> QED  BY <3>1, <3>2 DEF Inherits
  <2> QED  BY <2>1, <2>2
<1>10. PICK j \in 1 .. i - 1 : C[j].off = C[i].parent  BY <1>2, <1>3, <1>4, <1>7, <1>9 DEF RefersBackward
<1>11. j \in 1 .. N  BY <1>2
<1>12. B[j].off = B[i].parent  BY <1>2, <1>4, <1>10, <1>11
<1>13. C[i].size = C[j].size  BY <1>2, <1>3, <1>5, <1>10, <1>12 DEF SizesOf
<1> QED  BY <1>2, <1>10, <1>13

\* The five UPDATEs resolve types that refer backward.
LEMMA ResolvedTypes ==
  ASSUME NEW N \in Nat, NEW A \in [1 .. N -> TypeRowSet], \A i \in 1 .. N : Collected(A[i]),
         NEW B \in SameKeys(A), FlagsOf(A, B), NEW C \in SameKeys(B), SizesOf(B, C),
         NEW D \in SameKeys(C), ArraysOf(C, D), NEW E, Alike(D, E),
         \A i \in 1 .. N : ~(A[i].kind = NOKIND /\ A[i].attrs = {}),
         RefersBackward(E)
  PROVE  Resolved(E)
<1>1. DOMAIN A = 1 .. N /\ DOMAIN B = 1 .. N /\ DOMAIN C = 1 .. N /\ DOMAIN D = 1 .. N /\ DOMAIN E = 1 .. N
  BY DEF SameKeys, Alike
<1>2. \A j \in 1 .. N : /\ A[j] \in TypeRowSet /\ B[j].off = A[j].off /\ B[j].parent = A[j].parent
                        /\ C[j].off = A[j].off /\ C[j].parent = A[j].parent
                        /\ D[j].off = A[j].off /\ D[j].parent = A[j].parent
                        /\ E[j].off = A[j].off /\ E[j].parent = A[j].parent
  <2>1. \A j \in 1 .. N : A[j] \in TypeRowSet /\ B[j].off = A[j].off /\ B[j].parent = A[j].parent  BY <1>1 DEF SameKeys
  <2>2. \A j \in 1 .. N : C[j].off = B[j].off /\ C[j].parent = B[j].parent  BY <1>1 DEF SameKeys
  <2>3. \A j \in 1 .. N : D[j].off = C[j].off /\ D[j].parent = C[j].parent  BY <1>1 DEF SameKeys
  <2>4. \A j \in 1 .. N : E[j].off = D[j].off /\ E[j].parent = D[j].parent  BY <1>1 DEF Alike
  <2> QED  BY <2>1, <2>2, <2>3, <2>4
<1>3. \A j \in 1 .. N : E[j].kind = B[j].kind /\ E[j].attrs = B[j].attrs /\ C[j].kind = B[j].kind /\ C[j].attrs = B[j].attrs
  BY <1>1 DEF SizesOf, ArraysOf, Alike
<1>4. RefersBackward(C)
  <2> SUFFICES ASSUME NEW i \in 1 .. N, Inherits(C[i]) \/ C[i].kind \in {"array", "func"}
               PROVE  C[i].parent = 0 \/ \E j \in 1 .. i - 1 : C[j].off = C[i].parent
    BY <1>1 DEF RefersBackward
  <2>1. Inherits(E[i]) \/ E[i].kind \in {"array", "func"}  BY <1>3 DEF Inherits
  <2>2. E[i].parent = 0 \/ \E j \in 1 .. i - 1 : E[j].off = E[i].parent  BY <1>1, <2>1 DEF RefersBackward
  <2>3. \A j \in 1 .. i - 1 : j \in 1 .. N  OBVIOUS
  <2> QED  BY <1>2, <2>2, <2>3
<1>5. \A i \in 1 .. N : C[i].size # 0  BY <1>4, NoSizeZero
<1>6. \A i \in 1 .. N : E[i].size = C[i].size  BY <1>1, <1>5 DEF ArraysOf, Alike
<1> SUFFICES ASSUME NEW i \in 1 .. N, Inherits(E[i])
             PROVE  \E p \in ParentOf(E, E[i]) :
                      /\ p.size = E[i].size
                      /\ E[i].kind # "alias" \/ E[i].attrs # {} =>
                           (E[i].kind = p.kind /\ p.attrs \subseteq E[i].attrs)
  BY <1>1 DEF Resolved
<1>7. (A[i].kind = "alias" /\ A[i].attrs = {}) \/ (A[i].kind = NOKIND /\ A[i].attrs # {})
  <2>1. CASE A[i].kind # NOKIND
    <3>1. E[i].kind = A[i].kind /\ E[i].attrs = A[i].attrs  BY <1>1, <1>3, <2>1 DEF FlagsOf
    <3>2. A[i].attrs = {}  BY <2>1 DEF Collected
    <3> QED  BY <3>1, <3>2 DEF Inherits
  <2>2. CASE A[i].kind = NOKIND  BY <2>2
  <2> QED  BY <2>1, <2>2
<1>8. A[i].size = 0 /\ A[i].parent # 0  BY <1>7 DEF Collected
<1>9. PICK j \in 1 .. i - 1 : E[j].off = E[i].parent  BY <1>1, <1>2, <1>8 DEF RefersBackward
<1>10. j \in 1 .. N /\ j \in DOMAIN E  BY <1>1
<1>11. A[j].off = A[i].parent /\ B[j].off = B[i].parent  BY <1>2, <1>9, <1>10
<1>12. E[j].size = E[i].size
  <2>1. B[i].size = 0  BY <1>1, <1>8 DEF FlagsOf
  <2>2. C[i].size = C[j].size  BY <1>1, <1>9, <1>11, <2>1 DEF SizesOf
  <2> QED  BY <1>6, <1>10, <2>2
<1>13. ASSUME E[i].kind # "alias" \/ E[i].attrs # {}
       PROVE  E[i].kind = E[j].kind /\ E[j].attrs \subseteq E[i].attrs
  <2>1. A[i].kind = NOKIND
    <3> SUFFICES ASSUME A[i].kind # NOKIND  PROVE FALSE
      OBVIOUS
    <3>1. E[i].kind = A[i].kind /\ E[i].attrs = A[i].attrs  BY <1>1, <1>3 DEF FlagsOf
    <3> QED  BY <1>7, <1>13, <3>1
  <2>2. B[i].kind = B[j].kind /\ B[j].attrs \subseteq B[i].attrs  BY <1>1, <1>9, <1>11, <2>1 DEF FlagsOf
  <2> QED  BY <1>3, <1>10, <2>2
<1>14. E[j] \in ParentOf(E, E[i])  BY <1>9, <1>10, ParentRows
<1> QED  BY <1>12, <1>13, <1>14

\* SetIndirect() changes nothing but the indirection.
LEMMA SetIndirectAlike ==
  ASSUME NEW N \in Nat, NEW A \in [1 .. N -> TypeRowSet]
  PROVE  Alike(A, SetIndirect(A)) /\ SetIndirect(A) \in [1 .. N -> TypeRowSet]
<1> DEFINE own(i) == IF A[i].kind = "pointer" THEN 1 ELSE 0
           derived(i) == \E j \in DOMAIN A : /\ A[j].kind = "pointer" /\ j # i
                                             /\ A[j].off \in Ancestors(A, A[i].off)
           val(i) == own(i) + (IF derived(i) /\ A[i].kind # "alias" THEN 1 ELSE 0)
<1>1. \A i \in 1 .. N : val(i) \in Int  OBVIOUS
<1>2. SetIndirect(A) = [i \in 1 .. N |-> [A[i] EXCEPT !.indirect = val(i)]]  BY DEF SetIndirect
<1> HIDE DEF val
<1>3. \A i \in 1 .. N : /\ [A[i] EXCEPT !.indirect = val(i)] \in TypeRowSet
                        /\ [A[i] EXCEPT !.indirect = val(i)].off = A[i].off
                        /\ [A[i] EXCEPT !.indirect = val(i)].parent = A[i].parent
                        /\ [A[i] EXCEPT !.indirect = val(i)].size = A[i].size
                        /\ [A[i] EXCEPT !.indirect = val(i)].kind = A[i].kind
                        /\ [A[i] EXCEPT !.indirect = val(i)].attrs = A[i].attrs
  <2> TAKE i \in 1 .. N
  <2>1. A[i] \in TypeRowSet  OBVIOUS
  <2> QED  BY <1>1, <2>1 DEF TypeRowSet
<1>4. PICK F : F = SetIndirect(A)  OBVIOUS
<1>5. DOMAIN F = 1 .. N /\ \A i \in 1 .. N : F[i] = [A[i] EXCEPT !.indirect = val(i)]  BY <1>2, <1>4
<1>6. Alike(A, F)  BY <1>3, <1>5 DEF Alike
<1>7. F \in [1 .. N -> TypeRowSet]  BY <1>2, <1>3, <1>4
<1> QED  BY <1>4, <1>6, <1>7

\* CountMembers() changes nothing but the dimensions.
LEMMA CountMembersAlike ==
  ASSUME NEW N \in Nat, NEW A \in [1 .. N -> TypeRowSet]
  PROVE  Alike(A, CountMembers(A))
<1>1. PICK F : F = CountMembers(A)  OBVIOUS
<1>2. DOMAIN F = 1 .. N  BY <1>1 DEF CountMembers
<1>3. ASSUME NEW i \in 1 .. N
      PROVE  /\ F[i].off = A[i].off /\ F[i].parent = A[i].parent /\ F[i].size = A[i].size
             /\ F[i].kind = A[i].kind /\ F[i].attrs = A[i].attrs
  <2>1. PICK d : d = Cardinality({m \in DOMAIN db.member : db.member[m].off = A[i].off})  OBVIOUS
  <2>2. F[i] = IF A[i].kind \notin {"struct", "union"} THEN A[i] ELSE [A[i] EXCEPT !.dim = d]
    BY <1>1, <2>1 DEF CountMembers
  <2>3. A[i] \in TypeRowSet  OBVIOUS
  <2> QED  BY <2>2, <2>3 DEF TypeRowSet
<1> QED  BY <1>1, <1>2, <1>3 DEF Alike

\* What alter_db() makes of the types collected.
LEMMA DerivedTypes ==
  ASSUME NEW A, CollectedTypes(A), ~Orphan(A)
  PROVE  LET E == CountMembers(ArraySize(PropagateSize(PropagateFlags(SetIndirect(A)))))
         IN  RefersBackward(E) => Resolved(E)
<1>1. PICK N \in Nat : A \in [1 .. N -> TypeRowSet] /\ DOMAIN A = 1 .. N  BY DEF CollectedTypes
<1>2. PICK I : I = SetIndirect(A)  OBVIOUS
<1>3. I \in [1 .. N -> TypeRowSet] /\ DOMAIN I = 1 .. N /\ Alike(A, I)  BY <1>1, <1>2, SetIndirectAlike
<1>4. Distinct(I) /\ \A i \in 1 .. N : Collected(I[i])
  <2>1. Distinct(I)  BY <1>1, <1>3 DEF CollectedTypes, Distinct, Alike
  <2>2. \A i \in 1 .. N : Collected(I[i])  BY <1>1, <1>3 DEF CollectedTypes, Collected, Alike
  <2> QED  BY <2>1, <2>2
<1>5. ASSUME NEW n \in 1 .. N, I[n].kind = NOKIND
      PROVE  (\E j \in 1 .. N : I[j].off = I[n].parent) /\ I[n].attrs # {}
  <2>1. A[n].kind = NOKIND /\ I[n].parent = A[n].parent  BY <1>1, <1>3, <1>5 DEF Alike
  <2>2. PICK p \in ParentOf(A, A[n]) : TRUE  BY <1>1, <2>1 DEF Orphan
  <2>3. PICK j \in 1 .. N : A[j].off = A[n].parent  BY <1>1, <2>2, ParentRows
  <2>4. I[j].off = I[n].parent  BY <1>1, <1>3, <2>1, <2>3 DEF Alike
  <2>5. I[n].parent # 0
    <3>1. I[j] \in TypeRowSet  BY <1>3
    <3> QED  BY <2>4, <3>1 DEF TypeRowSet
  <2> QED  BY <1>4, <1>5, <2>4, <2>5 DEF Collected
<1>6. PICK B : B = PropagateFlags(I)  OBVIOUS
<1>7. B \in SameKeys(I) /\ FlagsOf(I, B)  BY <1>3, <1>4, <1>5, <1>6, FlagsResult
<1>8. B \in [1 .. N -> TypeRowSet] /\ Distinct(B)  BY <1>3, <1>4, <1>7 DEF SameKeys, Distinct
<1>9. PICK C : C = PropagateSize(B)  OBVIOUS
<1>10. C \in SameKeys(B) /\ SizesOf(B, C)  BY <1>8, <1>9, SizeResult
<1>11. C \in [1 .. N -> TypeRowSet] /\ Distinct(C)  BY <1>8, <1>10 DEF SameKeys, Distinct
<1>12. PICK D : D = ArraySize(C)  OBVIOUS
<1>13. D \in SameKeys(C) /\ ArraysOf(C, D)  BY <1>11, <1>12, ArrayResult
<1>14. D \in [1 .. N -> TypeRowSet]  BY <1>11, <1>13 DEF SameKeys
<1>15. PICK E : E = CountMembers(D)  OBVIOUS
<1>16. Alike(D, E)  BY <1>14, <1>15, CountMembersAlike
<1>17. RefersBackward(E) => Resolved(E)
  BY <1>3, <1>4, <1>5, <1>7, <1>10, <1>13, <1>16, ResolvedTypes
<1> QED  BY <1>2, <1>6, <1>9, <1>12, <1>15, <1>17

-----------------------------------------------------------------------------
(* Collecting the types.                                                   *)

\* Every row of type stands for a DIE of a type that the walk has passed.
Passed(u, i) == u < cur \/ (u = cur /\ phase = "symbols" /\ i < pos)
PlacedTypes ==
  \A r \in DOMAIN db.type :
    \E u \in DOMAIN prog : \E i \in DOMAIN prog[u].dies :
      /\ prog[u].dies[i].tag \in TypeTags /\ prog[u].dies[i].off = db.type[r].off
      /\ Passed(u, i)

\* As long as nothing failed: the types are as the handlers store them, each from
\* a DIE of its own, until alter_db() has derived the rest.
TypesInv ==
  /\ phase = "ready" => ret = "SUCCESS"
  /\ ret = "SUCCESS" =>
       /\ prog \in Programs /\ cur \in Nat \ {0} /\ pos \in Nat \ {0}
       /\ "type" \in DOMAIN db
       /\ phase = "symbols" => cur <= Len(prog)
       /\ phase \in {"unit", "symbols"} => PlacedTypes
       /\ phase \in {"unit", "symbols", "scopes", "functions", "flags", "types"} => CollectedTypes(db.type)
       /\ phase \in {"vars", "ready"} => (RefersBackward(db.type) => Resolved(db.type))

\* The unit and the DIE that proc_symbols() is at.
LEMMA AtDie ==
  ASSUME TypesInv, ret = "SUCCESS", phase = "symbols"
  PROVE  /\ cur \in DOMAIN prog /\ Len(Dies) \in Nat /\ DOMAIN Dies = 1 .. Len(Dies) /\ pos \in Nat \ {0}
         /\ pos <= Len(Dies) => pos \in DOMAIN prog[cur].dies /\ (Die.tag \in TypeTags => TypeDie(Die))
<1>1. prog \in Programs /\ cur \in Nat \ {0} /\ cur <= Len(prog) /\ pos \in Nat \ {0}  BY DEF TypesInv
<1>2. WellFormed(prog)  BY <1>1, ProgramsAssumption
<1>3. prog \in Seq(Range(prog))  BY <1>2 DEF WellFormed
<1>4. PICK p, c : p = prog /\ c = cur  OBVIOUS
<1>5. p \in Seq(Range(p)) /\ c \in Nat \ {0} /\ c <= Len(p)  BY <1>1, <1>3, <1>4
<1>6. c \in DOMAIN p  BY <1>5
<1>7. p[c].dies \in Seq(Range(p[c].dies))  BY <1>2, <1>4, <1>6 DEF WellFormed
<1>8. PICK s, S : s = p[c].dies /\ s \in Seq(S)  BY <1>7
<1>9. Len(s) \in Nat /\ DOMAIN s = 1 .. Len(s)  BY <1>8
<1>10. s = Dies  BY <1>4, <1>8 DEF Dies
<1>11. ASSUME pos <= Len(Dies)  PROVE pos \in DOMAIN prog[cur].dies /\ (Die.tag \in TypeTags => TypeDie(Die))
  <2>1. pos \in DOMAIN prog[cur].dies  BY <1>1, <1>9, <1>10, <1>11 DEF Dies
  <2> QED  BY <1>2, <1>4, <1>6, <2>1 DEF WellFormed, Die, Dies
<1> QED  BY <1>1, <1>4, <1>6, <1>9, <1>10, <1>11

\* dwarf_siblingof() goes forward.
LEMMA NextSiblingForward ==
  ASSUME TypesInv, ret = "SUCCESS", phase = "symbols", pos <= Len(Dies)
  PROVE  NextSibling \in Nat /\ NextSibling > pos
<1> DEFINE after == {i \in pos + 1 .. Len(Dies) : Dies[i].lvl <= Die.lvl}
<1>1. PICK n, q : n = Len(Dies) /\ q = pos /\ n \in Nat /\ q \in Nat /\ q <= n  BY AtDie
<1>2. after \subseteq q + 1 .. n  BY <1>1
<1>3. NextSibling = IF after = {} THEN n + 1 ELSE CHOOSE i \in after : \A j \in after : i <= j
  BY <1>1 DEF NextSibling
<1> HIDE DEF after
<1>4. CASE after = {}  BY <1>1, <1>3, <1>4
<1>5. CASE after # {}
  <2>1. after \in SUBSET Nat  BY <1>1, <1>2
  <2>2. \E i \in after : \A j \in after : i <= j  BY <1>5, <2>1, NatHasLeast
  <2>3. NextSibling \in after  BY <1>3, <1>5, <2>2
  <2> QED  BY <1>1, <1>2, <2>3
<1> QED  BY <1>4, <1>5

\* A step of the walk that stores no type.
LEMMA KeepTypes ==
  ASSUME TypesInv, phase = "symbols", phase' = phase, ret' = ret, prog' = prog, cur' = cur,
         ret = "SUCCESS" => pos' \in Nat /\ pos' > pos /\ "type" \in DOMAIN db' /\ db'.type = db.type
  PROVE  TypesInv'
<1> SUFFICES ASSUME ret = "SUCCESS"  PROVE TypesInv'
  BY DEF TypesInv
<1>1. prog \in Programs /\ cur \in Nat \ {0} /\ pos \in Nat \ {0} /\ cur <= Len(prog)  BY DEF TypesInv
<1>2. pos' \in Nat \ {0} /\ \A i \in Nat : i < pos => i < pos'  BY <1>1
<1>3. CollectedTypes(db.type)'  BY DEF TypesInv, CollectedTypes
<1>4. PlacedTypes'
  <2> SUFFICES ASSUME NEW r \in DOMAIN db.type
               PROVE  \E u \in DOMAIN prog : \E i \in DOMAIN prog[u].dies :
                        /\ prog[u].dies[i].tag \in TypeTags /\ prog[u].dies[i].off = db.type[r].off
                        /\ Passed(u, i)'
    BY DEF PlacedTypes
  <2>1. PICK u \in DOMAIN prog : \E i \in DOMAIN prog[u].dies :
          prog[u].dies[i].tag \in TypeTags /\ prog[u].dies[i].off = db.type[r].off /\ Passed(u, i)
    BY DEF TypesInv, PlacedTypes
  <2>2. PICK i \in DOMAIN prog[u].dies :
          prog[u].dies[i].tag \in TypeTags /\ prog[u].dies[i].off = db.type[r].off /\ Passed(u, i)
    BY <2>1
  <2>3. u = cur => i \in Nat  BY <2>2, AtDie DEF Dies
  <2>4. Passed(u, i)'  BY <1>2, <2>2, <2>3 DEF Passed
  <2> QED  BY <2>2, <2>4
<1> QED  BY <1>1, <1>2, <1>3, <1>4 DEF TypesInv

\* A step of the walk that stores the type of its DIE.
LEMMA AddType ==
  ASSUME TypesInv, phase = "symbols", phase' = phase, ret' = ret, prog' = prog, cur' = cur,
         pos <= Len(Dies), Die.tag \in TypeTags, NEW r,
         ret = "SUCCESS" => /\ r \in TypeRowSet /\ Collected(r) /\ r.off = Die.off
                            /\ pos' \in Nat /\ pos' > pos
                            /\ "type" \in DOMAIN db' /\ db'.type = Append(db.type, r)
  PROVE  TypesInv'
<1> SUFFICES ASSUME ret = "SUCCESS"  PROVE TypesInv'
  BY DEF TypesInv
<1>1. prog \in Programs /\ cur \in Nat \ {0} /\ pos \in Nat \ {0} /\ cur <= Len(prog) /\ CollectedTypes(db.type)
  BY DEF TypesInv
<1>2. pos' \in Nat \ {0} /\ \A i \in Nat : i < pos => i < pos'  BY <1>1
<1>3. cur \in DOMAIN prog /\ pos \in DOMAIN prog[cur].dies  BY AtDie
<1>4. PICK A, n : A = db.type /\ A \in Seq(TypeRowSet) /\ n = Len(A) /\ n \in Nat /\ DOMAIN A = 1 .. n
  BY <1>1 DEF CollectedTypes
<1>5. PICK T : T = Append(A, r)  OBVIOUS
<1>6. /\ T \in Seq(TypeRowSet) /\ DOMAIN T = 1 .. n + 1 /\ T[n + 1] = r
      /\ \A k \in 1 .. n : T[k] = A[k]
  BY <1>4, <1>5
<1>7. db'.type = T  BY <1>4, <1>5
<1>8. ASSUME NEW k \in 1 .. n
      PROVE  /\ A[k].off # r.off
             /\ \E u \in DOMAIN prog : \E i \in DOMAIN prog[u].dies :
                  prog[u].dies[i].tag \in TypeTags /\ prog[u].dies[i].off = A[k].off /\ Passed(u, i)'
  <2>1. PICK u \in DOMAIN prog : \E i \in DOMAIN prog[u].dies :
          prog[u].dies[i].tag \in TypeTags /\ prog[u].dies[i].off = A[k].off /\ Passed(u, i)
    BY <1>4 DEF TypesInv, PlacedTypes
  <2>2. PICK i \in DOMAIN prog[u].dies :
          prog[u].dies[i].tag \in TypeTags /\ prog[u].dies[i].off = A[k].off /\ Passed(u, i)
    BY <2>1
  <2>3. u = cur => i \in Nat  BY <2>2, AtDie DEF Dies
  <2>4. Passed(u, i)'  BY <1>2, <2>2, <2>3 DEF Passed
  <2>5. ~(u = cur /\ i = pos)  BY <1>1, <2>2 DEF Passed
  <2>6. WellFormed(prog)  BY <1>1, ProgramsAssumption
  <2>7. prog[cur].dies[pos].tag \in TypeTags /\ prog[cur].dies[pos].off = r.off  BY DEF Die, Dies
  <2>8. A[k].off # r.off  BY <1>3, <2>2, <2>5, <2>6, <2>7 DEF WellFormed
  <2> QED  BY <2>2, <2>4, <2>8
<1>9. CollectedTypes(T)
  <2>1. \A k \in 1 .. n + 1 : Collected(T[k])
    <3>1. \A k \in 1 .. n : Collected(A[k])  BY <1>1, <1>4 DEF CollectedTypes
    <3>2. \A k \in 1 .. n + 1 : k \in 1 .. n \/ k = n + 1  BY <1>4
    <3> QED  BY <1>6, <3>1, <3>2
  <2>2. Distinct(T)
    <3>1. \A j, k \in 1 .. n : A[j].off = A[k].off => j = k  BY <1>1, <1>4 DEF CollectedTypes, Distinct
    <3>2. \A k \in 1 .. n + 1 : k \in 1 .. n \/ k = n + 1  BY <1>4
    <3> QED  BY <1>6, <1>8, <3>1, <3>2 DEF Distinct
  <2> QED  BY <1>6, <2>1, <2>2 DEF CollectedTypes
<1>10. PlacedTypes'
  <2> SUFFICES ASSUME NEW k \in 1 .. n + 1
               PROVE  \E u \in DOMAIN prog : \E i \in DOMAIN prog[u].dies :
                        /\ prog[u].dies[i].tag \in TypeTags /\ prog[u].dies[i].off = T[k].off
                        /\ Passed(u, i)'
    BY <1>6, <1>7 DEF PlacedTypes
  <2>1. CASE k \in 1 .. n  BY <1>6, <1>8, <2>1
  <2>2. CASE k = n + 1
    <3>1. prog[cur].dies[pos].tag \in TypeTags /\ prog[cur].dies[pos].off = T[k].off
      BY <1>6, <2>2 DEF Die, Dies
    <3>2. PICK u, i : u = cur /\ i = pos  OBVIOUS
    <3>3. Passed(u, i)'  BY <3>2 DEF Passed
    <3> QED  BY <1>3, <3>1, <3>2, <3>3
  <2> QED  BY <1>4, <2>1, <2>2
<1> QED  BY <1>1, <1>2, <1>7, <1>9, <1>10 DEF TypesInv

\* A step of the walk that fails.
LEMMA WalkFails ==
  ASSUME ret' = "FAILURE", phase' # "ready"
  PROVE  TypesInv'
BY DEF TypesInv

\* The handlers that store no type.
LEMMA OtherHandlers ==
  ASSUME TypesInv, proc_func \/ proc_block \/ proc_var \/ IgnoredDie
  PROVE  TypesInv'
<1>1. ASSUME AtTag(Tags), SkipDie  PROVE TypesInv'
  <2>1. ret = "SUCCESS" => NextSibling \in Nat /\ NextSibling > pos  BY <1>1, NextSiblingForward DEF AtTag
  <2> QED  BY <1>1, <2>1, KeepTypes DEF AtTag, SkipDie, walkVars, TypesInv
<1>2. ASSUME NEW d, AtTag(Tags), Descend(d), "type" \in DOMAIN db => "type" \in DOMAIN d /\ d.type = db.type
      PROVE  TypesInv'
  <2>1. ret = "SUCCESS" => pos \in Nat /\ "type" \in DOMAIN db  BY DEF TypesInv
  <2> QED  BY <1>2, <2>1, KeepTypes DEF AtTag, Descend, walkVars
<1>3. ASSUME Rollback  PROVE TypesInv'  BY <1>3, WalkFails DEF Rollback
<1>4. ASSUME NEW row  PROVE /\ DOMAIN Insert("scope", row) = DOMAIN db
                            /\ "type" \in DOMAIN db => Insert("scope", row).type = db.type
                            /\ DOMAIN Insert("var", row) = DOMAIN db
                            /\ "type" \in DOMAIN db => Insert("var", row).type = db.type
  BY DEF Insert
<1>5. CASE proc_func
  <2>1. AtTag(Tags)  BY <1>5 DEF proc_func, AtTag, Tags
  <2>2. CASE SkipDie  BY <1>1, <2>1, <2>2
  <2>3. CASE Rollback  BY <1>3, <2>3
  <2>4. ASSUME ~SkipDie, ~Rollback  PROVE TypesInv'
    <3>1. PICK d : d = Insert("scope", ScopeRow(Die.lo, Die.hi))  OBVIOUS
    <3>2. PICK e : e = [d EXCEPT !.function = Append(@, [scope |-> Len(d.scope), off |-> Die.off])]  OBVIOUS
    <3>3. Descend(e)  BY <1>5, <2>4, <3>1, <3>2 DEF proc_func
    <3>4. DOMAIN d = DOMAIN db /\ ("type" \in DOMAIN db => d.type = db.type)  BY <1>4, <3>1
    <3>5. "type" \in DOMAIN db => "type" \in DOMAIN e /\ e.type = db.type  BY <3>2, <3>4
    <3> QED  BY <1>2, <2>1, <3>3, <3>5
  <2> QED  BY <2>2, <2>3, <2>4
<1>6. CASE proc_block
  <2>1. AtTag(Tags)  BY <1>6 DEF proc_block, AtTag, Tags
  <2>2. PICK row : Descend(Insert("scope", row))  BY <1>6 DEF proc_block
  <2>3. PICK d : d = Insert("scope", row)  OBVIOUS
  <2> QED  BY <1>2, <1>4, <2>1, <2>2, <2>3
<1>7. CASE proc_var
  <2>1. AtTag(Tags)  BY <1>7, Zenon DEF proc_var, AtTag, Tags
  <2>2. CASE SkipDie  BY <1>1, <2>1, <2>2
  <2>3. CASE Rollback  BY <1>3, <2>3
  <2>4. ASSUME ~SkipDie, ~Rollback  PROVE TypesInv'
    <3>1. /\ pos' = NextSibling /\ UNCHANGED <<walkVars, stack, phase>>
          /\ "type" \in DOMAIN db => "type" \in DOMAIN db' /\ db'.type = db.type
      BY <1>4, <1>7, <2>4, Zenon DEF proc_var, AddRow
    <3>2. ret = "SUCCESS" => NextSibling \in Nat /\ NextSibling > pos  BY <2>1, NextSiblingForward DEF AtTag
    <3>3. ret = "SUCCESS" => "type" \in DOMAIN db  BY DEF TypesInv
    <3> QED  BY <2>1, <3>1, <3>2, <3>3, KeepTypes DEF AtTag, walkVars
  <2> QED  BY <2>2, <2>3, <2>4
<1>8. CASE IgnoredDie
  <2>1. AtTag(Tags) /\ SkipDie  BY <1>8 DEF IgnoredDie, AtTag, Tags
  <2> QED  BY <1>1, <2>1
<1> QED  BY <1>5, <1>6, <1>7, <1>8

\* The rows the handlers of types store.
LEMMA TypeRowFields ==
  ASSUME NEW u \in Nat, NEW d, d.off \in Nat \ {0}, NEW size \in Int, NEW dim \in Int, NEW parent \in Nat,
         NEW kind \in TypeTags \cup Encodings, NEW attrs \in SUBSET Propagating
  PROVE  LET r == TypeRow(u, d, size, dim, parent, kind, attrs)
         IN  /\ r \in TypeRowSet /\ r.off = d.off /\ r.size = size /\ r.parent = parent
             /\ r.kind = kind /\ r.attrs = attrs
BY DEF TypeRow, TypeRowSet

\* The handlers that store a type.
LEMMA TypeHandlers ==
  ASSUME TypesInv, proc_base_type \/ proc_custom_type \/ proc_array_type \/ proc_aggr_type
  PROVE  TypesInv'
<1>1. AtTag(TypeTags)  BY DEF proc_base_type, proc_custom_type, proc_array_type, proc_aggr_type, AtTag, TypeTags
<1>2. phase = "symbols" /\ pos <= Len(Dies) /\ Die.tag \in TypeTags  BY <1>1 DEF AtTag
<1>3. CASE Rollback  BY <1>3, WalkFails DEF Rollback
<1>4. ret = "SUCCESS" => /\ NextSibling \in Nat /\ NextSibling > pos /\ TypeDie(Die) /\ cur \in Nat
                         /\ "type" \in DOMAIN db
  BY <1>2, NextSiblingForward, AtDie DEF TypesInv
<1>5. CASE SkipDie  BY <1>2, <1>4, <1>5, KeepTypes DEF SkipDie, walkVars, TypesInv
<1>6. ASSUME NEW r, ret = "SUCCESS" => r \in TypeRowSet /\ Collected(r) /\ r.off = Die.off, AddRow("type", r)
      PROVE  TypesInv'
  <2>1. ret = "SUCCESS" => "type" \in DOMAIN db' /\ db'.type = Append(db.type, r)
    BY <1>4, <1>6 DEF AddRow, Insert
  <2> QED  BY <1>2, <1>4, <1>6, <2>1, AddType DEF AddRow, walkVars
<1>7. ASSUME proc_base_type, ~Rollback  PROVE TypesInv'
  <2>1. PICK d, c, r : d = Die /\ c = cur /\ r = TypeRow(c, d, d.size, 0, 0, d.encoding, {})  OBVIOUS
  <2>2. AddRow("type", r) /\ d.tag = "base"  BY <1>7, <2>1 DEF proc_base_type, AtTag
  <2>3. ASSUME ret = "SUCCESS"  PROVE r \in TypeRowSet /\ Collected(r) /\ r.off = d.off
    <3>1. d.off \in Nat \ {0} /\ d.size \in Nat /\ d.encoding \in Encodings /\ c \in Nat
      BY <1>4, <2>1, <2>2, <2>3 DEF TypeDie
    <3>2. r \in TypeRowSet /\ r.off = d.off /\ r.parent = 0 /\ r.kind = d.encoding /\ r.attrs = {}
      <4>1. PICK a, k, z : a = {} /\ k = d.encoding /\ z = d.size  OBVIOUS
      <4>2. a \in SUBSET Propagating /\ z \in Int /\ k \in TypeTags \cup Encodings  BY <3>1, <4>1
      <4> QED  BY <2>1, <3>1, <4>1, <4>2, TypeRowFields
    <3> QED  BY <3>1, <3>2 DEF Collected, Encodings, NOKIND
  <2> QED  BY <1>6, <2>1, <2>2, <2>3
<1>8. ASSUME proc_custom_type, ~SkipDie  PROVE TypesInv'
  <2>1. PICK d, c : d = Die /\ c = cur  OBVIOUS
  <2>2. d.tag \in Derived /\ (d.type # 0 \/ d.tag \in {"pointer", "func"})
    BY <1>8, <2>1 DEF proc_custom_type, AtTag
  <2>3. ret = "SUCCESS" => d.off \in Nat \ {0} /\ d.size \in Nat /\ d.type \in Nat /\ c \in Nat /\ TypeDie(d)
    BY <1>4, <2>1, <2>2 DEF TypeDie, Derived, Propagating
  <2>4. CASE d.tag \in Propagating
    <3>1. PICK r : r = TypeRow(c, d, d.size, 0, d.type, NOKIND, {d.tag})  OBVIOUS
    <3>2. AddRow("type", r)  BY <1>8, <2>1, <2>4, <3>1 DEF proc_custom_type
    <3>3. ASSUME ret = "SUCCESS"  PROVE r \in TypeRowSet /\ Collected(r) /\ r.off = d.off
      <4>1. d.size = 0 /\ d.type # 0  BY <2>2, <2>3, <2>4, <3>3 DEF TypeDie, Propagating
      <4>2. /\ r \in TypeRowSet /\ r.off = d.off /\ r.size = d.size /\ r.parent = d.type
            /\ r.kind = NOKIND /\ r.attrs = {d.tag}
        <5>1. NOKIND \in TypeTags \cup Encodings  BY DEF Encodings
        <5>2. {d.tag} \in SUBSET Propagating  BY <2>4
        <5>3. 0 \in Int /\ d.size \in Int  BY <2>3, <3>3
        <5> QED  BY <2>3, <3>1, <3>3, <5>1, <5>2, <5>3, TypeRowFields
      <4> QED  BY <4>1, <4>2 DEF Collected, NOKIND
    <3> QED  BY <1>6, <2>1, <3>2, <3>3
  <2>5. CASE d.tag \notin Propagating
    <3>1. PICK r : r = TypeRow(c, d, d.size, 0, d.type, d.tag, {})  OBVIOUS
    <3>2. AddRow("type", r)  BY <1>8, <2>1, <2>5, <3>1 DEF proc_custom_type
    <3>3. ASSUME ret = "SUCCESS"  PROVE r \in TypeRowSet /\ Collected(r) /\ r.off = d.off
      <4>1. d.tag \in {"alias", "pointer", "func"}  BY <2>2, <2>5 DEF Derived
      <4>2. /\ d.tag = "pointer" => d.size # 0
            /\ d.tag = "alias" => d.size = 0 /\ d.type # 0
        BY <2>2, <2>3, <3>3 DEF TypeDie
      <4>3. /\ r \in TypeRowSet /\ r.off = d.off /\ r.size = d.size /\ r.parent = d.type
            /\ r.kind = d.tag /\ r.attrs = {}
        <5>1. d.tag \in TypeTags \cup Encodings  BY <4>1 DEF TypeTags, Derived
        <5>2. PICK a, k, z : a = {} /\ k = d.tag /\ z = d.size  OBVIOUS
        <5>3. a \in SUBSET Propagating /\ z \in Int /\ k \in TypeTags \cup Encodings  BY <2>3, <3>3, <5>1, <5>2
        <5> QED  BY <2>3, <3>1, <3>3, <5>1, <5>2, <5>3, TypeRowFields
      <4> QED  BY <4>1, <4>2, <4>3 DEF Collected, NOKIND
    <3> QED  BY <1>6, <2>1, <3>2, <3>3
  <2> QED  BY <2>4, <2>5
<1>9. ASSUME proc_array_type, ~Rollback  PROVE TypesInv'
  <2>1. PICK d, c, r : d = Die /\ c = cur /\ r = TypeRow(c, d, 0, d.bound + 1, d.type, "array", {})  OBVIOUS
  <2>2. AddRow("type", r) /\ d.tag = "array"  BY <1>9, <2>1 DEF proc_array_type, AtTag
  <2>3. ASSUME ret = "SUCCESS"  PROVE r \in TypeRowSet /\ Collected(r) /\ r.off = d.off
    <3>1. d.off \in Nat \ {0} /\ d.bound + 1 \in Int /\ d.type \in Nat /\ c \in Nat
      BY <1>4, <2>1, <2>2, <2>3 DEF TypeDie
    <3>2. r \in TypeRowSet /\ r.off = d.off /\ r.kind = "array" /\ r.attrs = {}
      <4>1. PICK a, k, b : a = {} /\ k = "array" /\ b = d.bound + 1  OBVIOUS
      <4>2. a \in SUBSET Propagating /\ b \in Int /\ k \in TypeTags \cup Encodings  BY <3>1, <4>1 DEF TypeTags
      <4>3. r = TypeRow(c, d, 0, b, d.type, k, a)  BY <2>1, <4>1
      <4>4. r \in TypeRowSet /\ r.off = d.off /\ r.kind = k /\ r.attrs = a
        BY <3>1, <4>2, <4>3, TypeRowFields
      <4> QED  BY <4>1, <4>4
    <3> QED  BY <3>1, <3>2 DEF Collected, NOKIND
  <2> QED  BY <1>6, <2>1, <2>2, <2>3
<1>10. ASSUME proc_aggr_type, ~Rollback  PROVE TypesInv'
  <2>1. PICK d, c, r : d = Die /\ c = cur /\ r = TypeRow(c, d, d.size, 0, 0, d.tag, {})  OBVIOUS
  <2>2. /\ d.tag \in Aggregates /\ pos' = NextSibling /\ UNCHANGED <<walkVars, stack, phase>>
        /\ "type" \in DOMAIN db => "type" \in DOMAIN db' /\ db'.type = Append(db.type, r)
    BY <1>10, <2>1 DEF proc_aggr_type, AtTag
  <2>3. ASSUME ret = "SUCCESS"  PROVE r \in TypeRowSet /\ Collected(r) /\ r.off = d.off
    <3>1. d.off \in Nat \ {0} /\ d.size \in Nat /\ c \in Nat
      BY <1>4, <2>1, <2>2, <2>3 DEF TypeDie, Aggregates
    <3>2. r \in TypeRowSet /\ r.off = d.off /\ r.parent = 0 /\ r.kind = d.tag /\ r.attrs = {}
      <4>1. PICK a, k, z : a = {} /\ k = d.tag /\ z = d.size  OBVIOUS
      <4>2. a \in SUBSET Propagating /\ z \in Int  BY <3>1, <4>1
      <4>3. k \in TypeTags \cup Encodings  BY <2>2, <4>1 DEF TypeTags
      <4>4. r = TypeRow(c, d, z, 0, 0, k, a)  BY <2>1, <4>1
      <4>5. r \in TypeRowSet /\ r.off = d.off /\ r.parent = 0 /\ r.kind = k /\ r.attrs = a
        BY <3>1, <4>2, <4>3, <4>4, TypeRowFields
      <4> QED  BY <4>1, <4>5
    <3> QED  BY <2>2, <3>1, <3>2 DEF Collected, NOKIND, Aggregates
  <2> QED  BY <1>2, <1>4, <2>1, <2>2, <2>3, AddType DEF walkVars
<1> QED  BY <1>3, <1>5, <1>7, <1>8, <1>9, <1>10

\* The steps of proc_unit() and of dbg_srcinfo() itself.
LEMMA UnitSteps ==
  ASSUME TypesInv, SkipUnit \/ BeginUnit \/ CommitUnit \/ LastUnit
  PROVE  TypesInv'
<1> SUFFICES ASSUME ret = "SUCCESS"  PROVE TypesInv'
  BY DEF TypesInv, SkipUnit, BeginUnit, CommitUnit, LastUnit
<1>1. prog \in Programs /\ cur \in Nat \ {0} /\ pos \in Nat \ {0} /\ "type" \in DOMAIN db  BY DEF TypesInv
<1>2. phase \in {"unit", "symbols"}  BY DEF SkipUnit, BeginUnit, CommitUnit, LastUnit
<1>3. PlacedTypes /\ CollectedTypes(db.type)  BY <1>2 DEF TypesInv
<1>4. prog' = prog /\ ret' = ret  BY DEF SkipUnit, BeginUnit, CommitUnit, LastUnit
<1>5. "type" \in DOMAIN db' /\ db'.type = db.type
  <2>1. CASE BeginUnit  BY <1>1, <2>1, Zenon DEF BeginUnit, proc_lines
  <2>2. CASE SkipUnit \/ CommitUnit \/ LastUnit  BY <1>1, <2>2 DEF SkipUnit, CommitUnit, LastUnit
  <2> QED  BY <2>1, <2>2
<1>6. CollectedTypes(db.type)'  BY <1>3, <1>5 DEF CollectedTypes
<1>7. \A u, i : u \in DOMAIN prog /\ Passed(u, i) /\ phase' # "scopes" => Passed(u, i)'
  <2> SUFFICES ASSUME NEW u, NEW i, u \in DOMAIN prog, Passed(u, i), phase' # "scopes"  PROVE Passed(u, i)'
    OBVIOUS
  <2>1. u \in Nat
    <3>1. WellFormed(prog)  BY <1>1, ProgramsAssumption
    <3>2. PICK p : p = prog /\ p \in Seq(Range(p))  BY <3>1 DEF WellFormed
    <3> QED  BY <3>2
  <2>2. CASE SkipUnit  BY <1>1, <2>1, <2>2 DEF SkipUnit, Passed
  <2>3. CASE BeginUnit  BY <1>1, <2>1, <2>3 DEF BeginUnit, Passed
  <2>4. CASE CommitUnit  BY <1>1, <2>1, <2>4 DEF CommitUnit, Passed
  <2>5. CASE LastUnit  BY <2>5 DEF LastUnit
  <2> QED  BY <2>2, <2>3, <2>4, <2>5
<1>8. phase' # "scopes" => PlacedTypes'
  <2> SUFFICES ASSUME phase' # "scopes", NEW r \in DOMAIN db.type
               PROVE  \E u \in DOMAIN prog : \E i \in DOMAIN prog[u].dies :
                        /\ prog[u].dies[i].tag \in TypeTags /\ prog[u].dies[i].off = db.type[r].off
                        /\ Passed(u, i)'
    BY <1>4, <1>5 DEF PlacedTypes
  <2> QED  BY <1>3, <1>7 DEF PlacedTypes
<1>9. cur' \in Nat \ {0} /\ pos' \in Nat \ {0} /\ (phase' = "symbols" => cur' <= Len(prog))
  BY <1>1 DEF SkipUnit, BeginUnit, CommitUnit, LastUnit
<1>10. phase' \in {"unit", "symbols", "scopes"}  BY DEF SkipUnit, BeginUnit, CommitUnit, LastUnit
<1> QED  BY <1>1, <1>4, <1>5, <1>6, <1>8, <1>9, <1>10 DEF TypesInv

\* The steps of alter_db() before the types: they change the statements only.
LEMMA StatementSteps ==
  ASSUME TypesInv, SetScopes \/ SetFunctions \/ SetFlags
  PROVE  TypesInv'
<1>1. PICK from, to, f : /\ AlterStep(from, to, [db EXCEPT !.statement = f])
                         /\ from \in {"scopes", "functions", "flags"} /\ to \in {"functions", "flags", "types"}
  <2>1. CASE SetScopes  BY <2>1 DEF SetScopes
  <2>2. CASE SetFunctions  BY <2>2 DEF SetFunctions
  <2>3. CASE SetFlags  BY <2>3 DEF SetFlags
  <2> QED  BY <2>1, <2>2, <2>3
<1>2. phase = from /\ phase' = to /\ prog' = prog /\ cur' = cur /\ pos' = pos /\ ret' = ret
  BY <1>1 DEF AlterStep, walkVars
<1>3. "type" \in DOMAIN db => "type" \in DOMAIN db' /\ db'.type = db.type  BY <1>1 DEF AlterStep
<1> SUFFICES ASSUME ret = "SUCCESS"  PROVE TypesInv'
  BY <1>1, <1>2 DEF TypesInv
<1>4. CollectedTypes(db.type) /\ "type" \in DOMAIN db  BY <1>1, <1>2 DEF TypesInv
<1>5. CollectedTypes(db.type)'  BY <1>3, <1>4 DEF CollectedTypes
<1> QED  BY <1>1, <1>2, <1>3, <1>4, <1>5 DEF TypesInv

\* The step of alter_db() that derives the types.
LEMMA TypesStep ==
  ASSUME TypesInv, SetTypes
  PROVE  TypesInv'
<1> DEFINE E == CountMembers(ArraySize(PropagateSize(PropagateFlags(SetIndirect(db.type)))))
<1>1. phase = "types" /\ phase' = "vars" /\ prog' = prog /\ cur' = cur /\ pos' = pos /\ ret' = ret
  BY DEF SetTypes, AlterStep, walkVars
<1> SUFFICES ASSUME ret = "SUCCESS"  PROVE TypesInv'
  BY <1>1 DEF TypesInv
<1>2. CollectedTypes(db.type) /\ "type" \in DOMAIN db  BY <1>1 DEF TypesInv
<1>3. "type" \in DOMAIN db' /\ db'.type = E  BY <1>2 DEF SetTypes, AlterStep
<1>4. RefersBackward(E) => Resolved(E)
  <2>1. PICK A : A = db.type  OBVIOUS
  <2>2. CollectedTypes(A) /\ ~Orphan(A)  BY <1>2, <2>1 DEF SetTypes
  <2> QED  BY <2>1, <2>2, DerivedTypes
<1> HIDE DEF E
<1>5. (RefersBackward(db.type) => Resolved(db.type))'
  <2>1. PICK T : T = E  OBVIOUS
  <2> QED  BY <1>3, <1>4, <2>1 DEF RefersBackward, Resolved
<1> QED  BY <1>1, <1>3, <1>5 DEF TypesInv

\* The last step of alter_db().
LEMMA VarsStep ==
  ASSUME TypesInv, SetVars
  PROVE  TypesInv'
<1>1. /\ phase = "vars" /\ prog' = prog /\ cur' = cur /\ pos' = pos /\ ret' = ret
      /\ phase' = (IF ret = "SUCCESS" THEN "ready" ELSE "failed")
      /\ "type" \in DOMAIN db => "type" \in DOMAIN db' /\ db'.type = db.type
  BY DEF SetVars, walkVars
<1> SUFFICES ASSUME ret = "SUCCESS"  PROVE TypesInv'
  BY <1>1 DEF TypesInv
<1>2. (RefersBackward(db.type) => Resolved(db.type)) /\ "type" \in DOMAIN db  BY <1>1 DEF TypesInv
<1>3. (RefersBackward(db.type) => Resolved(db.type))'  BY <1>1, <1>2 DEF RefersBackward, Resolved
<1> QED  BY <1>1, <1>2, <1>3 DEF TypesInv

\* No step of dbg_srcinfo() breaks what is known of the types.
LEMMA TypesNext ==
  ASSUME TypesInv, dbg_srcinfo
  PROVE  TypesInv'
<1>1. CASE SkipUnit \/ BeginUnit \/ CommitUnit \/ LastUnit  BY <1>1, UnitSteps
<1>2. CASE proc_func \/ proc_block \/ proc_var \/ IgnoredDie  BY <1>2, OtherHandlers
<1>3. CASE proc_base_type \/ proc_custom_type \/ proc_array_type \/ proc_aggr_type  BY <1>3, TypeHandlers
<1>4. CASE UnknownDie \/ UnitError  BY <1>4, WalkFails DEF UnknownDie, UnitError, Rollback
<1>5. CASE HeaderError \/ AlterError  BY <1>5, WalkFails DEF HeaderError, AlterError
<1>6. CASE SetScopes \/ SetFunctions \/ SetFlags  BY <1>6, StatementSteps
<1>7. CASE SetTypes  BY <1>7, TypesStep
<1>8. CASE SetVars  BY <1>8, VarsStep
<1> QED  BY <1>1, <1>2, <1>3, <1>4, <1>5, <1>6, <1>7, <1>8 DEF dbg_srcinfo

\* Nothing is known of the types before the first unit.
LEMMA TypesInit == SymInit => TypesInv
<1> SUFFICES ASSUME SymInit  PROVE TypesInv
  OBVIOUS
<1>1. /\ prog \in Programs /\ cur = 1 /\ pos = 1 /\ phase = "unit" /\ ret = "SUCCESS"
      /\ "type" \in DOMAIN db /\ db.type = << >>
  BY DEF SymInit, EmptyDb
<1>2. PICK e : e = db.type /\ e \in Seq(TypeRowSet) /\ DOMAIN e = {}
  <2>1. << >> \in Seq(TypeRowSet) /\ DOMAIN << >> = {}  OBVIOUS
  <2> QED  BY <1>1, <2>1
<1>3. CollectedTypes(db.type)  BY <1>2 DEF CollectedTypes, Distinct
<1>4. PlacedTypes  BY <1>2 DEF PlacedTypes
<1> QED  BY <1>1, <1>3, <1>4 DEF TypesInv

\* A step that leaves the tables alone.
LEMMA TypesStutter ==
  ASSUME TypesInv, prog' = prog, cur' = cur, pos' = pos, db' = db, ret' = ret,
         phase' = phase \/ (phase = "ready" /\ phase' = "recording")
  PROVE  TypesInv'
<1>1. CASE phase' = phase
  <2>1. PlacedTypes => PlacedTypes'  BY <1>1 DEF PlacedTypes, Passed
  <2>2. CollectedTypes(db.type) => CollectedTypes(db.type)'  BY DEF CollectedTypes
  <2>3. (RefersBackward(db.type) => Resolved(db.type)) => (RefersBackward(db.type) => Resolved(db.type))'
    BY DEF RefersBackward, Resolved
  <2> QED  BY <1>1, <2>1, <2>2, <2>3 DEF TypesInv
<1>2. CASE phase' = "recording"  BY <1>2 DEF TypesInv
<1> QED  BY <1>1, <1>2

\* alter_db() (db.c:285-328): where every type refers to a type stored before it,
\* one pass of each UPDATE is enough: when the debug information is ready, each
\* alias and each qualified type has the size of the type it refers to, and a
\* qualified type its kind and its qualifiers, however long the chain.
THEOREM TypesAreResolved == Spec => []TypesResolved
<1>1. Init => TypesInv  BY TypesInit DEF Init
<1>2. TypesInv /\ [Next]_vars => TypesInv'
  <2> SUFFICES ASSUME TypesInv, [Next]_vars  PROVE TypesInv'
    OBVIOUS
  <2>1. ASSUME prog' = prog, cur' = cur, pos' = pos, db' = db, ret' = ret,
               phase' = phase \/ (phase = "ready" /\ phase' = "recording")
        PROVE  TypesInv'
    BY <2>1, TypesStutter
  <2>2. CASE dbg_srcinfo  BY <2>2, TypesNext
  <2>3. CASE Start  BY <2>1, <2>3 DEF Start, walkVars
  <2>4. CASE UNCHANGED symVars  BY <2>1, <2>4 DEF symVars
  <2> QED  BY <2>2, <2>3, <2>4 DEF Next, vars
<1>3. TypesInv => TypesResolved
  <2> SUFFICES ASSUME TypesInv, phase = "ready", Backward
               PROVE  Resolved(db.type)
    BY DEF TypesResolved, Resolved
  <2>1. RefersBackward(db.type)  BY DEF RefersBackward, Backward
  <2> QED  BY <2>1 DEF TypesInv
<1> QED  BY <1>1, <1>2, <1>3, PTL DEF Spec

-----------------------------------------------------------------------------
(* The ancestors of a scope.                                               *)

\* A table of scopes is a forest: the parent of a row is 0 or a row before it.
ParentsBefore(S, L) ==
  /\ DOMAIN S = 1 .. L /\ Len(S) = L
  /\ \A r \in 1 .. L : S[r].parent = 0 \/ S[r].parent \in 1 .. r - 1

\* Sets that hold the parents of their rows.
ClosedUp(S, K) == \A y \in K : S[y].parent = 0 \/ S[y].parent \in K

\* scope_ancestor has every ancestor of a scope and nothing else: it is the least
\* set with the scope and the parents of its rows.
LEMMA ChainFacts ==
  ASSUME NEW S, NEW L \in Nat, ParentsBefore(S, L), NEW i \in 1 .. L
  PROVE  /\ i \in ScopeChain(S, i) /\ ScopeChain(S, i) \subseteq 1 .. L
         /\ ClosedUp(S, ScopeChain(S, i))
         /\ \A K : i \in K /\ ClosedUp(S, K) => ScopeChain(S, i) \subseteq K
<1> DEFINE up(T) == T \cup ({S[j].parent : j \in T} \ {GLOBAL_SCOPE})
           V == SUBSET (1 .. L)
           F == [n \in 1 .. L |-> [T \in V |-> up(T)]]
           Body(g) == [n \in 0 .. L |-> IF n = 0 THEN {i} ELSE up(g[n - 1])]
<1>0. \A r \in 1 .. L : S[r].parent = 0 \/ S[r].parent \in 1 .. L
  BY DEF ParentsBefore
<1>1. {i} \in V  OBVIOUS
<1>2. ASSUME NEW T \in V  PROVE up(T) \in V  BY <1>0 DEF GLOBAL_SCOPE
<1>3. F \in [1 .. L -> [V -> V]]
  <2> HIDE DEF V, up
  <2> QED  BY <1>2
<1>4. PICK f \in [0 .. L -> V] : f[0] = {i} /\ \A n \in 1 .. L : f[n] = F[n][f[n - 1]]
  <2> HIDE DEF F, V
  <2>1. DefinedUpTo(L, V, {i}, F)  BY <1>1, <1>3, RecursionUpTo
  <2> QED  BY <2>1 DEF DefinedUpTo
<1>5. \A n \in 1 .. L : n - 1 \in 0 .. L /\ f[n - 1] \in V  OBVIOUS
<1>6. \A n \in 1 .. L : f[n] = up(f[n - 1])
  <2> HIDE DEF V, up
  <2> QED  BY <1>4, <1>5
<1>7. f = Body(f)
  <2> HIDE DEF V, up
  <2>1. \A n \in 0 .. L : f[n] = IF n = 0 THEN {i} ELSE up(f[n - 1])
    BY <1>4, <1>6
  <2> QED  BY <2>1
<1>8. ScopeChain(S, i) = (CHOOSE g : g = Body(g))[L]  BY DEF ScopeChain, ParentsBefore
<1>9. PICK t : t = Body(t) /\ ScopeChain(S, i) = t[L]
  <2> HIDE DEF Body
  <2> QED  BY <1>7, <1>8
<1>10. t[0] = {i} /\ \A n \in 1 .. L : t[n] = up(t[n - 1])
  <2> HIDE DEF up
  <2>1. \A n \in 0 .. L : t[n] = IF n = 0 THEN {i} ELSE up(t[n - 1])
    <3>1. PICK b : b = Body(t)  OBVIOUS
    <3>2. \A n \in 0 .. L : b[n] = IF n = 0 THEN {i} ELSE up(t[n - 1])  BY <3>1
    <3> QED  BY <1>9, <3>1, <3>2
  <2> QED  BY <2>1
<1> HIDE DEF Body
<1> DEFINE Open(x, n) == x <= i - n \/ S[x].parent = 0 \/ S[x].parent \in t[n]
           Q == {n \in 0 .. L : /\ i \in t[n] /\ t[n] \subseteq 1 .. L
                                /\ \A x \in t[n] : Open(x, n)
                                /\ \A K : i \in K /\ ClosedUp(S, K) => t[n] \subseteq K}
<1>11. 0 \in Q  BY <1>10
<1>12. ASSUME NEW n \in 0 .. L - 1, n \in Q  PROVE n + 1 \in Q
  <2>1. n + 1 \in 1 .. L /\ (n + 1) - 1 = n /\ n + 1 \in 0 .. L /\ n \in Nat  OBVIOUS
  <2>2. t[n + 1] = up(t[n])  BY <1>10, <2>1
  <2>3. i \in t[n + 1] /\ t[n] \subseteq t[n + 1]  BY <1>12, <2>2
  <2>4. t[n + 1] \subseteq 1 .. L
    <3>1. t[n] \in V  BY <1>12
    <3> HIDE DEF up
    <3>2. up(t[n]) \in V  BY <1>2, <3>1
    <3> QED  BY <2>2, <3>2
  <2>5. ASSUME NEW y \in t[n]  PROVE S[y].parent = 0 \/ S[y].parent \in t[n + 1]
    BY <2>2 DEF GLOBAL_SCOPE
  <2>6. ASSUME NEW x \in t[n + 1]  PROVE Open(x, n + 1)
    <3>1. CASE x \in t[n]  BY <2>5, <3>1
    <3>2. CASE x \notin t[n]
      <4>1. PICK y \in t[n] : x = S[y].parent /\ x # 0  BY <2>2, <3>2 DEF GLOBAL_SCOPE
      <4>2. y \in 1 .. L /\ x \in 1 .. y - 1  BY <1>12, <4>1 DEF ParentsBefore
      <4>3. y <= i - n
        <5>1. Open(y, n)  BY <1>12
        <5> QED  BY <3>2, <4>1, <5>1
      <4>4. x <= i - (n + 1)  BY <2>1, <4>2, <4>3
      <4> QED  BY <4>4
    <3> QED  BY <3>1, <3>2
  <2>7. ASSUME NEW K, i \in K, ClosedUp(S, K)  PROVE t[n + 1] \subseteq K
    <3>1. t[n] \subseteq K  BY <1>12, <2>7
    <3>2. ASSUME NEW x \in t[n + 1]  PROVE x \in K
      <4>1. CASE x \in t[n]  BY <3>1, <4>1
      <4>2. CASE x \notin t[n]
        <5>1. PICK y \in t[n] : x = S[y].parent /\ x # 0  BY <2>2, <4>2 DEF GLOBAL_SCOPE
        <5> QED  BY <2>7, <3>1, <5>1 DEF ClosedUp
      <4> QED  BY <4>1, <4>2
    <3> QED  BY <3>2
  <2> HIDE DEF Open
  <2> QED  BY <2>1, <2>3, <2>4, <2>6, <2>7
<1> HIDE DEF Q
<1>13. 0 .. L \subseteq Q  BY <1>11, <1>12, InductionUpTo
<1>14. /\ i \in t[L] /\ t[L] \subseteq 1 .. L
       /\ \A x \in t[L] : Open(x, L)
       /\ \A K : i \in K /\ ClosedUp(S, K) => t[L] \subseteq K
  BY <1>13 DEF Q
<1>15. \A x \in t[L] : S[x].parent = 0 \/ S[x].parent \in t[L]
  <2> TAKE x \in t[L]
  <2>1. x \in 1 .. L /\ ~(x <= i - L)  BY <1>14
  <2> QED  BY <1>14, <2>1
<1> QED  BY <1>9, <1>14, <1>15 DEF ClosedUp

\* The values an UPDATE with a subquery may set: one of those its row has.
LEMMA AssignmentsFacts ==
  ASSUME NEW N \in Nat, NEW Q \in [1 .. N -> SUBSET Int], NEW f \in Assignments(Q)
  PROVE  f \in [1 .. N -> Int] /\ \A i \in 1 .. N : f[i] \in Q[i]
<1> DEFINE next(T, n) == {Append(s, v) : s \in T, v \in Q[n]}
           V == SUBSET Seq(Int)
           F == [n \in 1 .. N |-> [T \in V |-> next(T, n)]]
           Body(g) == [n \in 0 .. N |-> IF n = 0 THEN {<<>>} ELSE next(g[n - 1], n)]
<1>0. Q \in Seq(SUBSET Int) /\ Len(Q) = N  OBVIOUS
<1>1. {<<>>} \in V  OBVIOUS
<1>2. ASSUME NEW n \in 1 .. N, NEW T \in V  PROVE next(T, n) \in V
  <2>1. Q[n] \subseteq Int  OBVIOUS
  <2> QED  BY <2>1
<1>3. F \in [1 .. N -> [V -> V]]
  <2> HIDE DEF V, next
  <2> QED  BY <1>2
<1>4. PICK h \in [0 .. N -> V] : h[0] = {<<>>} /\ \A n \in 1 .. N : h[n] = F[n][h[n - 1]]
  <2> HIDE DEF F, V
  <2>1. DefinedUpTo(N, V, {<<>>}, F)  BY <1>1, <1>3, RecursionUpTo
  <2> QED  BY <2>1 DEF DefinedUpTo
<1>5. \A n \in 1 .. N : n - 1 \in 0 .. N /\ h[n - 1] \in V  OBVIOUS
<1>6. \A n \in 1 .. N : h[n] = next(h[n - 1], n)
  <2> HIDE DEF V, next
  <2> QED  BY <1>4, <1>5
<1>7. h = Body(h)
  <2> HIDE DEF V, next
  <2>1. \A n \in 0 .. N : h[n] = IF n = 0 THEN {<<>>} ELSE next(h[n - 1], n)
    BY <1>4, <1>6
  <2> QED  BY <2>1
<1>8. Assignments(Q) = (CHOOSE g : g = Body(g))[N]  BY <1>0 DEF Assignments
<1>9. PICK t : t = Body(t) /\ Assignments(Q) = t[N]
  <2> HIDE DEF Body
  <2> QED  BY <1>7, <1>8
<1>10. t[0] = {<<>>} /\ \A n \in 1 .. N : t[n] = next(t[n - 1], n)
  <2> HIDE DEF next
  <2>1. \A n \in 0 .. N : t[n] = IF n = 0 THEN {<<>>} ELSE next(t[n - 1], n)
    <3>1. PICK b : b = Body(t)  OBVIOUS
    <3>2. \A n \in 0 .. N : b[n] = IF n = 0 THEN {<<>>} ELSE next(t[n - 1], n)  BY <3>1
    <3> QED  BY <1>9, <3>1, <3>2
  <2> QED  BY <2>1
<1> HIDE DEF Body
<1> DEFINE Good(s, n) == s \in Seq(Int) /\ Len(s) = n /\ \A k \in 1 .. n : s[k] \in Q[k]
           R == {n \in 0 .. N : \A s \in t[n] : Good(s, n)}
<1>11. 0 \in R
  <2>1. PICK e : e = <<>> /\ e \in Seq(Int) /\ Len(e) = 0
    <3>1. <<>> \in Seq(Int) /\ Len(<<>>) = 0  OBVIOUS
    <3> QED  BY <3>1
  <2>2. t[0] = {e}  BY <1>10, <2>1
  <2>3. Good(e, 0)  BY <2>1
  <2> HIDE DEF Good
  <2> QED  BY <2>2, <2>3
<1>12. ASSUME NEW n \in 0 .. N - 1, n \in R  PROVE n + 1 \in R
  <2>1. n + 1 \in 1 .. N /\ (n + 1) - 1 = n /\ n + 1 \in 0 .. N /\ n \in Nat  OBVIOUS
  <2>2. t[n + 1] = next(t[n], n + 1)  BY <1>10, <2>1
  <2>3. ASSUME NEW s \in t[n + 1]  PROVE Good(s, n + 1)
    <3>1. PICK r \in t[n], v \in Q[n + 1] : s = Append(r, v)  BY <2>2
    <3>2. Good(r, n) /\ v \in Int  BY <1>12, <2>1
    <3>3. s \in Seq(Int) /\ Len(s) = n + 1 /\ s[n + 1] = v /\ \A k \in 1 .. n : s[k] = r[k]
      BY <2>1, <3>1, <3>2
    <3>4. \A k \in 1 .. n + 1 : k \in 1 .. n \/ k = n + 1  BY <2>1
    <3> QED  BY <3>2, <3>3, <3>4
  <2> HIDE DEF Good
  <2> QED  BY <2>1, <2>3
<1> HIDE DEF R
<1>13. 0 .. N \subseteq R  BY <1>11, <1>12, InductionUpTo
<1>14. Good(f, N)  BY <1>9, <1>13 DEF R
<1> QED  BY <1>14

-----------------------------------------------------------------------------
(* The statements that proc_lines() stores.                                *)

\* A statement with the columns alter_db() sets; none is set yet in a new one.
StatementRow(s) ==
  s.addr \in Nat /\ {"addr", "scope", "func", "flag"} \subseteq DOMAIN s
FreshRow(s) == StatementRow(s) /\ s.scope = NULL /\ s.func = NULL /\ s.flag = NULL
Fresh(stmts) == \E T : stmts \in Seq(T) /\ \A s \in T : FreshRow(s)

\* proc_lines() adds rows in which nothing is set yet.
LEMMA LinesFresh ==
  ASSUME NEW p, WellFormed(p), NEW u \in DOMAIN p, Fresh(db.statement), "statement" \in DOMAIN db
  PROVE  Fresh(proc_lines(p[u]).statement)
<1>1. PICK T : db.statement \in Seq(T) /\ \A s \in T : FreshRow(s)  BY DEF Fresh
<1>0. PICK lines : lines = p[u].lines  OBVIOUS
<1>2. PICK N \in Nat : /\ lines = p[u].lines /\ N = Len(lines) /\ DOMAIN lines = 1 .. N
                       /\ \A n \in 1 .. N : lines[n].addr \in Nat
  <2>1. lines \in Seq(Range(lines)) /\ \A n \in DOMAIN lines : lines[n].addr \in Nat
    BY <1>0 DEF WellFormed
  <2> QED  BY <1>0, <2>1
<1> DEFINE files == db.file \o FileRows(p[u])
           kept(l) == l.is_stmt /\ ~l.end /\ FileId(files, cur, l.file) # 0
           row(l) == [file |-> FileId(files, cur, l.file), line |-> l.line, addr |-> l.addr,
                      scope |-> NULL, func |-> NULL, flag |-> NULL]
           next(s, n) == IF kept(lines[n]) THEN Append(s, row(lines[n])) ELSE s
           U == T \cup {row(lines[n]) : n \in 1 .. N}
           V == Seq(U)
           F == [n \in 1 .. N |-> [s \in V |-> next(s, n)]]
           Body(g) == [n \in 0 .. N |-> IF n = 0 THEN db.statement ELSE next(g[n - 1], n)]
<1>3. \A s \in U : FreshRow(s)
  <2>1. \A n \in 1 .. N : FreshRow(row(lines[n]))  BY <1>2 DEF FreshRow, StatementRow
  <2> HIDE DEF row
  <2> QED  BY <1>1, <2>1
<1>4. db.statement \in V
  <2> HIDE DEF row
  <2>1. T \subseteq U  OBVIOUS
  <2> HIDE DEF U
  <2> QED  BY <1>1, <2>1
<1>5. ASSUME NEW n \in 1 .. N, NEW s \in V  PROVE next(s, n) \in V
  <2> HIDE DEF row, kept
  <2>1. row(lines[n]) \in U  OBVIOUS
  <2> HIDE DEF U
  <2> QED  BY <2>1
<1>6. F \in [1 .. N -> [V -> V]]
  <2> HIDE DEF V, next
  <2> QED  BY <1>5
<1>7. PICK h \in [0 .. N -> V] : h[0] = db.statement /\ \A n \in 1 .. N : h[n] = F[n][h[n - 1]]
  <2>1. PICK d : d = db.statement /\ d \in V  BY <1>4
  <2> HIDE DEF F, V
  <2>2. DefinedUpTo(N, V, d, F)  BY <1>6, <2>1, RecursionUpTo
  <2> QED  BY <2>1, <2>2 DEF DefinedUpTo
<1>8. \A n \in 1 .. N : n - 1 \in 0 .. N /\ h[n - 1] \in V
  <2> HIDE DEF V
  <2> QED  OBVIOUS
<1>9. \A n \in 1 .. N : h[n] = next(h[n - 1], n)
  <2> HIDE DEF V, next
  <2> QED  BY <1>7, <1>8
<1>10. h = Body(h)
  <2> HIDE DEF V, next
  <2>1. \A n \in 0 .. N : h[n] = IF n = 0 THEN db.statement ELSE next(h[n - 1], n)
    BY <1>7, <1>9
  <2> QED  BY <2>1
<1>11. proc_lines(p[u]).statement = (CHOOSE g : g = Body(g))[N]  BY <1>2 DEF proc_lines
<1>12. PICK t : t = Body(t) /\ proc_lines(p[u]).statement = t[N]
  <2> HIDE DEF Body
  <2> QED  BY <1>10, <1>11
<1>13. t[0] = db.statement /\ \A n \in 1 .. N : t[n] = next(t[n - 1], n)
  <2> HIDE DEF next
  <2>1. \A n \in 0 .. N : t[n] = IF n = 0 THEN db.statement ELSE next(t[n - 1], n)
    <3>1. PICK b : b = Body(t)  OBVIOUS
    <3>2. \A n \in 0 .. N : b[n] = IF n = 0 THEN db.statement ELSE next(t[n - 1], n)  BY <3>1
    <3> QED  BY <1>12, <3>1, <3>2
  <2> QED  BY <2>1
<1> HIDE DEF Body
<1> DEFINE R == {n \in 0 .. N : t[n] \in V}
<1>14. 0 \in R
  <2> HIDE DEF V
  <2> QED  BY <1>4, <1>13
<1>15. ASSUME NEW n \in 0 .. N - 1, n \in R  PROVE n + 1 \in R
  <2>1. n + 1 \in 1 .. N /\ (n + 1) - 1 = n /\ n + 1 \in 0 .. N  OBVIOUS
  <2> HIDE DEF V, next
  <2>2. t[n + 1] = next(t[n], n + 1)  BY <1>13, <2>1
  <2> QED  BY <1>5, <1>15, <2>1, <2>2
<1> HIDE DEF R
<1>16. 0 .. N \subseteq R  BY <1>14, <1>15, InductionUpTo
<1>17. t[N] \in V  BY <1>16 DEF R
<1> HIDE DEF U
<1> QED  BY <1>3, <1>12, <1>17 DEF Fresh

-----------------------------------------------------------------------------
(* The tables of scopes and functions while the units are collected.       *)

ScopeRowSet == [parent : Nat, depth : Nat, start : Nat, end : Nat]

\* The DIEs in front of DIE q of unit c.
Before(c, q, u, i) == u < c \/ (u = c /\ i < q)
Matches(p, row, u, i) ==
  row.start = StartAt(p, u, i) /\ row.end = EndAt(p, u, i) /\ row.depth = p[u].dies[i].lvl - 1
FunctionAt(p, u, i) == ScopeAt(p, u, i) /\ p[u].dies[i].tag = "subprogram"

\* The parent of a scope is stored before it, is one less deep and contains it.
Forest(S) ==
  \A r \in DOMAIN S :
    \/ S[r].depth = 0 /\ S[r].parent = 0
    \/ /\ S[r].parent \in 1 .. r - 1 /\ S[S[r].parent].depth = S[r].depth - 1
       /\ S[S[r].parent].start <= S[r].start /\ S[r].end <= S[S[r].parent].end

\* The rows are the scopes of the program in front of DIE q of unit c.
ScopeTable(p, S, c, q) ==
  /\ S \in Seq(ScopeRowSet) /\ Forest(S)
  /\ \A r \in DOMAIN S : \E u \in DOMAIN p : \E i \in DOMAIN p[u].dies :
       ScopeAt(p, u, i) /\ Before(c, q, u, i) /\ Matches(p, S[r], u, i)
  /\ \A u \in DOMAIN p : \A i \in DOMAIN p[u].dies :
       ScopeAt(p, u, i) /\ Before(c, q, u, i) => \E r \in DOMAIN S : Matches(p, S[r], u, i)

\* The same for functions, which have no address in common.
FunctionTable(p, S, G, c, q) ==
  /\ \E T : G \in Seq(T)
  /\ \A f \in DOMAIN G : G[f].scope \in DOMAIN S
  /\ \A f \in DOMAIN G : \E u \in DOMAIN p : \E i \in DOMAIN p[u].dies :
       FunctionAt(p, u, i) /\ Before(c, q, u, i) /\ Matches(p, S[G[f].scope], u, i)
  /\ \A u \in DOMAIN p : \A i \in DOMAIN p[u].dies :
       FunctionAt(p, u, i) /\ Before(c, q, u, i) => \E f \in DOMAIN G : Matches(p, S[G[f].scope], u, i)
  /\ \A f, g \in DOMAIN G : f # g =>
       S[G[f].scope].end <= S[G[g].scope].start \/ S[G[g].scope].end <= S[G[f].scope].start

\* The stack at DIE q of unit c: the scopes the DIE is in, by level.
AtScope(p, S, st, c, q) ==
  /\ st \in Seq(Nat)
  /\ q \in DOMAIN p[c].dies =>
       /\ p[c].dies[q].lvl <= Len(st) /\ st[1] = 0
       /\ \A l \in 2 .. p[c].dies[q].lvl :
            /\ st[l] \in DOMAIN S
            /\ \E j \in DOMAIN p[c].dies :
                 /\ UnderDie(p[c].dies, j, q) /\ p[c].dies[j].lvl = l - 1
                 /\ ScopeAt(p, c, j) /\ Matches(p, S[st[l]], c, j)

\* DIE n follows DIE q and what is below it.
Sibling(dies, q, n) ==
  /\ q < n
  /\ \A k \in q + 1 .. n - 1 : k \in DOMAIN dies => dies[q].lvl < dies[k].lvl
  /\ n \in DOMAIN dies => dies[n].lvl <= dies[q].lvl

\* The walk is at DIE q of unit c of program p.
Walk(p, c, q) ==
  /\ WellFormed(p) /\ Nested(p) /\ c \in DOMAIN p /\ Accepted(p[c]) /\ q \in DOMAIN p[c].dies

\* The indices of a walk are numbers.
LEMMA WalkNumbers ==
  ASSUME NEW p, NEW c, NEW q, Walk(p, c, q)
  PROVE  /\ \A u \in DOMAIN p : u \in Nat \ {0} /\ \E L \in Nat : DOMAIN p[u].dies = 1 .. L /\ Len(p[u].dies) = L
         /\ \A i \in DOMAIN p[c].dies : i \in Nat \ {0} /\ p[c].dies[i].lvl \in Nat \ {0}
         /\ \A i \in DOMAIN p[c].dies : p[c].dies[i].lvl <= IF i = 1 THEN 1 ELSE p[c].dies[i - 1].lvl + 1
<1>1. p \in Seq(Range(p))  BY DEF Walk, WellFormed
<1>2. \A u \in DOMAIN p : u \in Nat \ {0}  BY <1>1
<1>3. ASSUME NEW u \in DOMAIN p  PROVE \E L \in Nat : DOMAIN p[u].dies = 1 .. L /\ Len(p[u].dies) = L
  <2>1. PICK s : s = p[u].dies /\ s \in Seq(Range(s))  BY DEF Walk, WellFormed
  <2> QED  BY <2>1
<1>4. Levels(p[c].dies)  BY DEF Walk, Nested
<1>5. \A i \in DOMAIN p[c].dies : i \in Nat \ {0}
  <2>1. PICK L \in Nat : DOMAIN p[c].dies = 1 .. L  BY <1>3 DEF Walk
  <2> QED  BY <2>1
<1> QED  BY <1>2, <1>3, <1>4, <1>5 DEF Levels

\* Passing a DIE that is no scope, and what is below it, passes no scope.
LEMMA SkipTables ==
  ASSUME NEW p, NEW c, NEW q, Walk(p, c, q), ~ScopeTag(p[c].dies[q]), NEW n \in Nat, Sibling(p[c].dies, q, n),
         NEW S, NEW G, NEW st,
         ScopeTable(p, S, c, q), FunctionTable(p, S, G, c, q), AtScope(p, S, st, c, q)
  PROVE  ScopeTable(p, S, c, n) /\ FunctionTable(p, S, G, c, n) /\ AtScope(p, S, st, c, n)
<1>1. /\ c \in Nat /\ q \in Nat /\ q < n /\ \A u \in DOMAIN p : u \in Nat
      /\ \A i \in DOMAIN p[c].dies : i \in Nat /\ p[c].dies[i].lvl \in Nat \ {0}
  BY WalkNumbers DEF Walk, Sibling
<1>2. ASSUME NEW u \in DOMAIN p, NEW i \in DOMAIN p[u].dies, ScopeAt(p, u, i)
      PROVE  Before(c, n, u, i) <=> Before(c, q, u, i)
  <2>1. CASE u # c  BY <2>1 DEF Before
  <2>2. CASE u = c
    <3>1. i \in Nat  BY <1>1, <2>2
    <3>2. i # q  BY <1>2, <2>2 DEF ScopeAt
    <3>3. ~(i \in q + 1 .. n - 1)
      <4> SUFFICES ASSUME i \in q + 1 .. n - 1  PROVE FALSE
        OBVIOUS
      <4>1. UnderDie(p[c].dies, q, i)
        <5>1. \A k \in q + 1 .. i : k \in q + 1 .. n - 1 /\ k \in DOMAIN p[c].dies
          <6>1. PICK L \in Nat : DOMAIN p[c].dies = 1 .. L  BY WalkNumbers DEF Walk
          <6> QED  BY <1>1, <2>2, <6>1
        <5> QED  BY <1>1, <5>1 DEF UnderDie, Sibling
      <4>2. ScopeAt(p, c, q)  BY <1>2, <2>2, <4>1 DEF Walk, Nested
      <4> QED  BY <4>2 DEF ScopeAt
    <3>4. i < n <=> i < q  BY <1>1, <3>1, <3>2, <3>3
    <3> QED  BY <1>1, <2>2, <3>4 DEF Before
  <2> QED  BY <2>1, <2>2
<1>3. ScopeTable(p, S, c, n)  BY <1>2 DEF ScopeTable
<1>4. FunctionTable(p, S, G, c, n)  BY <1>2 DEF FunctionTable, FunctionAt
<1>5. AtScope(p, S, st, c, n)
  <2>1. st \in Seq(Nat)  BY DEF AtScope
  <2>2. ASSUME n \in DOMAIN p[c].dies
        PROVE  /\ p[c].dies[n].lvl <= Len(st) /\ st[1] = 0
               /\ \A l \in 2 .. p[c].dies[n].lvl :
                    /\ st[l] \in DOMAIN S
                    /\ \E j \in DOMAIN p[c].dies :
                         /\ UnderDie(p[c].dies, j, n) /\ p[c].dies[j].lvl = l - 1
                         /\ ScopeAt(p, c, j) /\ Matches(p, S[st[l]], c, j)
    <3>1. p[c].dies[n].lvl <= p[c].dies[q].lvl  BY <2>2 DEF Sibling
    <3>2. PICK a, b : a = p[c].dies[n].lvl /\ b = p[c].dies[q].lvl /\ a \in Nat /\ b \in Nat /\ a <= b
      BY <1>1, <2>2, <3>1 DEF Walk
    <3>3. b <= Len(st) /\ st[1] = 0  BY <3>2 DEF AtScope, Walk
    <3>4. ASSUME NEW l \in 2 .. a
          PROVE  /\ st[l] \in DOMAIN S
                 /\ \E j \in DOMAIN p[c].dies :
                      /\ UnderDie(p[c].dies, j, n) /\ p[c].dies[j].lvl = l - 1
                      /\ ScopeAt(p, c, j) /\ Matches(p, S[st[l]], c, j)
      <4>1. l \in 2 .. b  BY <3>2
      <4>2. st[l] \in DOMAIN S  BY <3>2, <4>1 DEF AtScope, Walk
      <4>3. PICK j \in DOMAIN p[c].dies :
              /\ UnderDie(p[c].dies, j, q) /\ p[c].dies[j].lvl = l - 1
              /\ ScopeAt(p, c, j) /\ Matches(p, S[st[l]], c, j)
        BY <3>2, <4>1 DEF AtScope, Walk
      <4>4. UnderDie(p[c].dies, j, n)
        <5>1. j \in Nat /\ j < q /\ \A k \in j + 1 .. q : p[c].dies[j].lvl < p[c].dies[k].lvl
          BY <1>1, <4>3 DEF UnderDie
        <5>2. \A k \in q + 1 .. n - 1 : p[c].dies[j].lvl < p[c].dies[k].lvl
          <6> TAKE k \in q + 1 .. n - 1
          <6>1. k \in DOMAIN p[c].dies
            <7>1. PICK L \in Nat : DOMAIN p[c].dies = 1 .. L  BY WalkNumbers DEF Walk
            <7> QED  BY <1>1, <2>2, <7>1
          <6>2. b < p[c].dies[k].lvl  BY <3>2, <6>1 DEF Sibling
          <6>3. p[c].dies[k].lvl \in Nat  BY <1>1, <6>1
          <6> QED  BY <3>2, <4>1, <4>3, <6>2, <6>3
        <5>3. p[c].dies[j].lvl < p[c].dies[n].lvl  BY <3>2, <4>3
        <5>4. \A k \in j + 1 .. n : k \in j + 1 .. q \/ k \in q + 1 .. n - 1 \/ k = n  BY <1>1, <5>1
        <5>5. j < n  BY <1>1, <5>1
        <5> QED  BY <5>1, <5>2, <5>3, <5>4, <5>5 DEF UnderDie
      <4> QED  BY <4>2, <4>3, <4>4
    <3>5. a <= Len(st)  BY <2>1, <3>2, <3>3
    <3> QED  BY <3>2, <3>3, <3>4, <3>5
  <2> QED  BY <2>1, <2>2 DEF AtScope
<1> QED  BY <1>3, <1>4, <1>5

\* Storing the scope of DIE q.
LEMMA DescendScopes ==
  ASSUME NEW p, NEW c, NEW q, Walk(p, c, q), ScopeTag(p[c].dies[q]), NEW S, NEW st,
         ScopeTable(p, S, c, q), AtScope(p, S, st, c, q),
         NEW row \in ScopeRowSet, Matches(p, row, c, q), row.parent = st[p[c].dies[q].lvl]
  PROVE  ScopeTable(p, Append(S, row), c, q + 1)
<1>1. /\ c \in Nat /\ q \in Nat \ {0} /\ \A u \in DOMAIN p : u \in Nat
      /\ \A i \in DOMAIN p[c].dies : i \in Nat /\ p[c].dies[i].lvl \in Nat \ {0}
  BY WalkNumbers DEF Walk
<1>2. PICK m \in Nat : S \in Seq(ScopeRowSet) /\ m = Len(S) /\ DOMAIN S = 1 .. m  BY DEF ScopeTable
<1>3. PICK T : T = Append(S, row)  OBVIOUS
<1>4. T \in Seq(ScopeRowSet) /\ DOMAIN T = 1 .. m + 1 /\ T[m + 1] = row /\ \A r \in 1 .. m : T[r] = S[r]
  BY <1>2, <1>3
<1>5. PICK l : l = p[c].dies[q].lvl /\ l \in Nat \ {0}  BY <1>1 DEF Walk
<1>6. \/ row.depth = 0 /\ row.parent = 0
      \/ /\ row.parent \in 1 .. m /\ S[row.parent].depth = row.depth - 1
         /\ S[row.parent].start <= row.start /\ row.end <= S[row.parent].end
  <2>1. row.depth = l - 1  BY <1>5 DEF Matches
  <2>2. CASE l = 1
    <3>1. st[1] = 0  BY DEF AtScope, Walk
    <3> QED  BY <1>5, <2>1, <2>2, <3>1
  <2>3. CASE l # 1
    <3>1. l \in 2 .. l  BY <1>5, <2>3
    <3>2. st[l] \in DOMAIN S  BY <1>5, <3>1 DEF AtScope, Walk
    <3>3. PICK j \in DOMAIN p[c].dies :
            /\ UnderDie(p[c].dies, j, q) /\ p[c].dies[j].lvl = l - 1
            /\ ScopeAt(p, c, j) /\ Matches(p, S[st[l]], c, j)
      BY <1>5, <3>1 DEF AtScope, Walk
    <3>4. ScopeAt(p, c, q)  BY DEF ScopeAt, Walk
    <3>5. StartAt(p, c, j) <= StartAt(p, c, q) /\ EndAt(p, c, q) <= EndAt(p, c, j)
      BY <3>3, <3>4 DEF Walk, Nested
    <3>6. row.parent = st[l]  BY <1>5
    <3>7. S[row.parent].depth = l - 1 - 1  BY <3>3, <3>6 DEF Matches
    <3> QED  BY <1>2, <2>1, <3>2, <3>3, <3>5, <3>6, <3>7 DEF Matches
  <2> QED  BY <2>2, <2>3, Zenon
<1>7. Forest(T)
  <2> SUFFICES ASSUME NEW r \in 1 .. m + 1
               PROVE  \/ T[r].depth = 0 /\ T[r].parent = 0
                      \/ /\ T[r].parent \in 1 .. r - 1 /\ T[T[r].parent].depth = T[r].depth - 1
                         /\ T[T[r].parent].start <= T[r].start /\ T[r].end <= T[T[r].parent].end
    BY <1>4 DEF Forest
  <2>1. CASE r \in 1 .. m
    <3>1. \/ S[r].depth = 0 /\ S[r].parent = 0
          \/ /\ S[r].parent \in 1 .. r - 1 /\ S[S[r].parent].depth = S[r].depth - 1
             /\ S[S[r].parent].start <= S[r].start /\ S[r].end <= S[S[r].parent].end
      BY <1>2, <2>1 DEF ScopeTable, Forest
    <3>2. \A k \in 1 .. r - 1 : k \in 1 .. m  BY <2>1
    <3> QED  BY <1>4, <2>1, <3>1, <3>2
  <2>2. CASE r = m + 1
    <3>1. r - 1 = m  BY <2>2
    <3> QED  BY <1>4, <1>6, <2>2, <3>1
  <2> QED  BY <2>1, <2>2
<1>8. ASSUME NEW r \in 1 .. m + 1
      PROVE  \E u \in DOMAIN p : \E i \in DOMAIN p[u].dies :
               ScopeAt(p, u, i) /\ Before(c, q + 1, u, i) /\ Matches(p, T[r], u, i)
  <2>1. CASE r \in 1 .. m
    <3>1. PICK u \in DOMAIN p : \E i \in DOMAIN p[u].dies :
            ScopeAt(p, u, i) /\ Before(c, q, u, i) /\ Matches(p, S[r], u, i)
      BY <1>2, <2>1 DEF ScopeTable
    <3>2. PICK i \in DOMAIN p[u].dies : ScopeAt(p, u, i) /\ Before(c, q, u, i) /\ Matches(p, S[r], u, i)
      BY <3>1
    <3>3. Before(c, q + 1, u, i)  BY <1>1, <3>2 DEF Before
    <3> QED  BY <1>4, <2>1, <3>2, <3>3
  <2>2. CASE r = m + 1
    <3>1. ScopeAt(p, c, q) /\ Before(c, q + 1, c, q)  BY <1>1 DEF ScopeAt, Walk, Before
    <3> QED  BY <1>4, <2>2, <3>1 DEF Walk
  <2> QED  BY <2>1, <2>2
<1>9. ASSUME NEW u \in DOMAIN p, NEW i \in DOMAIN p[u].dies, ScopeAt(p, u, i), Before(c, q + 1, u, i)
      PROVE  \E r \in 1 .. m + 1 : Matches(p, T[r], u, i)
  <2>1. CASE Before(c, q, u, i)
    <3>1. PICK r \in 1 .. m : Matches(p, S[r], u, i)  BY <1>2, <1>9, <2>1 DEF ScopeTable
    <3>2. r \in 1 .. m + 1  OBVIOUS
    <3> QED  BY <1>4, <3>1, <3>2
  <2>2. CASE ~Before(c, q, u, i)
    <3>1. u = c /\ i = q  BY <1>1, <1>9, <2>2 DEF Before
    <3>2. m + 1 \in 1 .. m + 1  OBVIOUS
    <3> QED  BY <1>4, <3>1, <3>2
  <2> QED  BY <2>1, <2>2
<1> QED  BY <1>3, <1>4, <1>7, <1>8, <1>9 DEF ScopeTable

\* The stack in front of the first DIE below DIE q.
LEMMA DescendStack ==
  ASSUME NEW p, NEW c, NEW q, Walk(p, c, q), ScopeTag(p[c].dies[q]), NEW S, NEW st,
         ScopeTable(p, S, c, q), AtScope(p, S, st, c, q), NEW row \in ScopeRowSet, Matches(p, row, c, q)
  PROVE  AtScope(p, Append(S, row), Append(SubSeq(st, 1, p[c].dies[q].lvl), Len(S) + 1), c, q + 1)
<1>1. /\ q \in Nat \ {0}
      /\ \A i \in DOMAIN p[c].dies : i \in Nat /\ p[c].dies[i].lvl \in Nat \ {0}
  BY WalkNumbers DEF Walk
<1>2. PICK m \in Nat : S \in Seq(ScopeRowSet) /\ m = Len(S) /\ DOMAIN S = 1 .. m  BY DEF ScopeTable
<1>3. PICK T : T = Append(S, row)  OBVIOUS
<1>4. DOMAIN T = 1 .. m + 1 /\ T[m + 1] = row /\ \A r \in 1 .. m : T[r] = S[r]
  BY <1>2, <1>3
<1>5. PICK l : l = p[c].dies[q].lvl /\ l \in Nat \ {0}  BY <1>1 DEF Walk
<1>6. st \in Seq(Nat) /\ l <= Len(st) /\ st[1] = 0  BY <1>5 DEF AtScope, Walk
<1>7. PICK w : w = Append(SubSeq(st, 1, l), m + 1)  OBVIOUS
<1>8. w \in Seq(Nat) /\ Len(w) = l + 1 /\ w[l + 1] = m + 1 /\ \A k \in 1 .. l : w[k] = st[k]
  <2>1. PICK v : v = SubSeq(st, 1, l)  OBVIOUS
  <2>2. v \in Seq(Nat) /\ Len(v) = l /\ \A k \in 1 .. l : v[k] = st[k]
    <3>1. 1 \in Int /\ l \in Int /\ 1 <= l /\ l - 1 + 1 = l /\ \A k \in 1 .. l : st[k] \in Nat
      BY <1>5, <1>6
    <3>2. /\ v \in Seq(Nat) /\ Len(v) = IF 1 <= l THEN l - 1 + 1 ELSE 0
          /\ \A k \in 1 .. l - 1 + 1 : v[k] = st[1 + k - 1]
      BY <2>1, <3>1, SubSeqProperties
    <3>3. \A k \in 1 .. l : 1 + k - 1 = k  BY <1>5
    <3> QED  BY <3>1, <3>2, <3>3
  <2>3. m + 1 \in Nat  BY <1>2
  <2>4. w = Append(v, m + 1)  BY <1>7, <2>1
  <2>5. w \in Seq(Nat)  BY <2>2, <2>3, <2>4
  <2>6. Len(w) = l + 1 /\ w[l + 1] = m + 1 /\ \A k \in 1 .. l : w[k] = v[k]  BY <1>5, <2>2, <2>3, <2>4
  <2> QED  BY <2>2, <2>5, <2>6
<1>9. ASSUME q + 1 \in DOMAIN p[c].dies
      PROVE  /\ p[c].dies[q + 1].lvl <= Len(w) /\ w[1] = 0
             /\ \A k \in 2 .. p[c].dies[q + 1].lvl :
                  /\ w[k] \in DOMAIN T
                  /\ \E j \in DOMAIN p[c].dies :
                       /\ UnderDie(p[c].dies, j, q + 1) /\ p[c].dies[j].lvl = k - 1
                       /\ ScopeAt(p, c, j) /\ Matches(p, T[w[k]], c, j)
  <2>1. PICK a : a = p[c].dies[q + 1].lvl /\ a \in Nat \ {0} /\ a <= l + 1
    <3>1. p[c].dies[q + 1].lvl <= IF q + 1 = 1 THEN 1 ELSE p[c].dies[(q + 1) - 1].lvl + 1
      BY <1>9, WalkNumbers
    <3>2. q + 1 # 1 /\ (q + 1) - 1 = q  BY <1>1
    <3> QED  BY <1>1, <1>5, <1>9, <3>1, <3>2
  <2>2. w[1] = 0
    <3>1. 1 \in 1 .. l  BY <1>5
    <3> QED  BY <1>6, <1>8, <3>1
  <2>3. ASSUME NEW k \in 2 .. a
        PROVE  /\ w[k] \in DOMAIN T
               /\ \E j \in DOMAIN p[c].dies :
                    /\ UnderDie(p[c].dies, j, q + 1) /\ p[c].dies[j].lvl = k - 1
                    /\ ScopeAt(p, c, j) /\ Matches(p, T[w[k]], c, j)
    <3>1. CASE k = l + 1
      <4>1. w[k] = m + 1 /\ w[k] \in DOMAIN T  BY <1>4, <1>8, <3>1
      <4>2. a = l + 1  BY <1>5, <2>1, <3>1
      <4>3. UnderDie(p[c].dies, q, q + 1)
        <5>1. \A x \in q + 1 .. q + 1 : x = q + 1  BY <1>1
        <5>2. p[c].dies[q].lvl < p[c].dies[q + 1].lvl  BY <1>5, <2>1, <4>2
        <5> QED  BY <1>1, <5>1, <5>2 DEF UnderDie
      <4>4. ScopeAt(p, c, q) /\ q \in DOMAIN p[c].dies  BY DEF ScopeAt, Walk
      <4>5. p[c].dies[q].lvl = k - 1  BY <1>5, <3>1
      <4> QED  BY <1>4, <4>1, <4>3, <4>4, <4>5
    <3>2. CASE k # l + 1
      <4>1. k \in 2 .. l /\ k \in 1 .. l  BY <1>5, <2>1, <3>2
      <4>2. st[k] \in 1 .. m  BY <1>2, <1>5, <4>1 DEF AtScope, Walk
      <4>3. w[k] = st[k] /\ w[k] \in DOMAIN T /\ T[w[k]] = S[st[k]]  BY <1>4, <1>8, <4>1, <4>2
      <4>4. PICK j \in DOMAIN p[c].dies :
              /\ UnderDie(p[c].dies, j, q) /\ p[c].dies[j].lvl = k - 1
              /\ ScopeAt(p, c, j) /\ Matches(p, S[st[k]], c, j)
        BY <1>5, <4>1 DEF AtScope, Walk
      <4>5. UnderDie(p[c].dies, j, q + 1)
        <5>1. j \in Nat /\ j < q /\ \A x \in j + 1 .. q : p[c].dies[j].lvl < p[c].dies[x].lvl
          BY <1>1, <4>4 DEF UnderDie
        <5>2. p[c].dies[j].lvl < p[c].dies[q + 1].lvl  BY <2>1, <4>4
        <5>3. \A x \in j + 1 .. q + 1 : x \in j + 1 .. q \/ x = q + 1  BY <1>1, <5>1
        <5>4. j < q + 1  BY <1>1, <5>1
        <5> QED  BY <5>1, <5>2, <5>3, <5>4 DEF UnderDie
      <4> QED  BY <4>3, <4>4, <4>5
    <3> QED  BY <3>1, <3>2
  <2> QED  BY <1>8, <2>1, <2>2, <2>3
<1> QED  BY <1>2, <1>3, <1>5, <1>7, <1>8, <1>9, Zenon DEF AtScope

\* The functions after a block.
LEMMA DescendBlock ==
  ASSUME NEW p, NEW c, NEW q, Walk(p, c, q), p[c].dies[q].tag # "subprogram", NEW S, NEW G,
         S \in Seq(ScopeRowSet), FunctionTable(p, S, G, c, q), NEW row \in ScopeRowSet
  PROVE  FunctionTable(p, Append(S, row), G, c, q + 1)
<1>1. /\ c \in Nat /\ q \in Nat \ {0} /\ \A u \in DOMAIN p : u \in Nat
      /\ \A i \in DOMAIN p[c].dies : i \in Nat
  BY WalkNumbers DEF Walk
<1>2. PICK m \in Nat : m = Len(S) /\ DOMAIN S = 1 .. m  OBVIOUS
<1>3. PICK T : T = Append(S, row)  OBVIOUS
<1>4. DOMAIN S \subseteq DOMAIN T /\ \A r \in DOMAIN S : T[r] = S[r]  BY <1>2, <1>3
<1>5. \A f \in DOMAIN G : G[f].scope \in DOMAIN S /\ T[G[f].scope] = S[G[f].scope]  BY <1>4 DEF FunctionTable
<1>6. \A u \in DOMAIN p : \A i \in DOMAIN p[u].dies :
        FunctionAt(p, u, i) => (Before(c, q + 1, u, i) <=> Before(c, q, u, i))
  <2> SUFFICES ASSUME NEW u \in DOMAIN p, NEW i \in DOMAIN p[u].dies, FunctionAt(p, u, i)
               PROVE  Before(c, q + 1, u, i) <=> Before(c, q, u, i)
    OBVIOUS
  <2>1. ~(u = c /\ i = q)  BY DEF FunctionAt
  <2>2. u = c => i \in Nat  BY <1>1
  <2> QED  BY <1>1, <2>1, <2>2 DEF Before
<1> QED  BY <1>3, <1>4, <1>5, <1>6 DEF FunctionTable

\* The functions after a function.
LEMMA DescendFunction ==
  ASSUME NEW p, NEW c, NEW q, Walk(p, c, q), ScopeTag(p[c].dies[q]), p[c].dies[q].tag = "subprogram",
         NEW S, NEW G, S \in Seq(ScopeRowSet), FunctionTable(p, S, G, c, q),
         NEW row \in ScopeRowSet, Matches(p, row, c, q), NEW g, g.scope = Len(S) + 1
  PROVE  FunctionTable(p, Append(S, row), Append(G, g), c, q + 1)
<1>1. /\ c \in Nat /\ q \in Nat \ {0} /\ \A u \in DOMAIN p : u \in Nat
      /\ \A i \in DOMAIN p[c].dies : i \in Nat
  BY WalkNumbers DEF Walk
<1>2. PICK m \in Nat : m = Len(S) /\ DOMAIN S = 1 .. m  OBVIOUS
<1>3. PICK T : T = Append(S, row)  OBVIOUS
<1>4. DOMAIN T = 1 .. m + 1 /\ T[m + 1] = row /\ \A r \in 1 .. m : T[r] = S[r]  BY <1>2, <1>3
<1>5. PICK E : G \in Seq(E)  BY DEF FunctionTable
<1>5a. PICK n \in Nat : n = Len(G) /\ DOMAIN G = 1 .. n  BY <1>5
<1>6. PICK H : H = Append(G, g)  OBVIOUS
<1>7. H \in Seq(E \cup {g}) /\ DOMAIN H = 1 .. n + 1 /\ H[n + 1] = g /\ \A f \in 1 .. n : H[f] = G[f]
  BY <1>5, <1>5a, <1>6
<1>8. \A f \in 1 .. n : /\ G[f].scope \in 1 .. m /\ H[f].scope \in 1 .. m + 1
                        /\ T[H[f].scope] = S[G[f].scope]
  <2> TAKE f \in 1 .. n
  <2>1. H[f] = G[f]  BY <1>7
  <2>2. G[f].scope \in 1 .. m  BY <1>2, <1>5a DEF FunctionTable
  <2>3. PICK x : x = G[f].scope /\ x \in 1 .. m  BY <2>2
  <2>4. x \in 1 .. m + 1 /\ T[x] = S[x]  BY <1>4, <2>3
  <2> QED  BY <2>1, <2>3, <2>4
<1>9. H[n + 1].scope = m + 1 /\ T[H[n + 1].scope] = row  BY <1>2, <1>4, <1>7
<1>10. FunctionAt(p, c, q)  BY DEF FunctionAt, ScopeAt, Walk
<1>11. \A f \in 1 .. n + 1 : f \in 1 .. n \/ f = n + 1  OBVIOUS
<1>12. ASSUME NEW f \in 1 .. n
       PROVE  \E u \in DOMAIN p : \E i \in DOMAIN p[u].dies :
                /\ FunctionAt(p, u, i) /\ Before(c, q + 1, u, i) /\ Matches(p, T[H[f].scope], u, i)
                /\ Apart(p, u, i, c, q)
  <2>1. PICK u \in DOMAIN p : \E i \in DOMAIN p[u].dies :
          FunctionAt(p, u, i) /\ Before(c, q, u, i) /\ Matches(p, S[G[f].scope], u, i)
    BY <1>5, <1>5a DEF FunctionTable
  <2>2. PICK i \in DOMAIN p[u].dies :
          FunctionAt(p, u, i) /\ Before(c, q, u, i) /\ Matches(p, S[G[f].scope], u, i)
    BY <2>1
  <2>3. Before(c, q + 1, u, i) /\ (u # c \/ i # q)  BY <1>1, <2>2 DEF Before
  <2>4. SameKind(p[u].dies[i], p[c].dies[q])  BY <1>10, <2>2 DEF FunctionAt, SameKind
  <2>5. Apart(p, u, i, c, q)  BY <1>10, <2>2, <2>3, <2>4 DEF Walk, Nested, FunctionAt
  <2> QED  BY <1>8, <2>2, <2>3, <2>5
<1>13. \A f \in 1 .. n + 1 : \E u \in DOMAIN p : \E i \in DOMAIN p[u].dies :
         FunctionAt(p, u, i) /\ Before(c, q + 1, u, i) /\ Matches(p, T[H[f].scope], u, i)
  <2>1. Before(c, q + 1, c, q)  BY <1>1 DEF Before
  <2> QED  BY <1>9, <1>10, <1>11, <1>12, <2>1 DEF Walk
<1>14. ASSUME NEW u \in DOMAIN p, NEW i \in DOMAIN p[u].dies, FunctionAt(p, u, i), Before(c, q + 1, u, i)
       PROVE  \E f \in 1 .. n + 1 : Matches(p, T[H[f].scope], u, i)
  <2>1. CASE Before(c, q, u, i)
    <3>1. PICK f \in 1 .. n : Matches(p, S[G[f].scope], u, i)  BY <1>5, <1>5a, <1>14, <2>1 DEF FunctionTable
    <3>2. f \in 1 .. n + 1  OBVIOUS
    <3> QED  BY <1>8, <3>1, <3>2
  <2>2. CASE ~Before(c, q, u, i)
    <3>1. u = c /\ i = q  BY <1>1, <1>14, <2>2 DEF Before
    <3>2. n + 1 \in 1 .. n + 1  OBVIOUS
    <3> QED  BY <1>9, <3>1, <3>2
  <2> QED  BY <2>1, <2>2
<1>15. \A f \in 1 .. n : T[H[f].scope].end <= row.start \/ row.end <= T[H[f].scope].start
  BY <1>12 DEF Apart, Matches
<1>16. ASSUME NEW f \in 1 .. n + 1, NEW h \in 1 .. n + 1, f # h
       PROVE  T[H[f].scope].end <= T[H[h].scope].start \/ T[H[h].scope].end <= T[H[f].scope].start
  <2>1. CASE f = n + 1  BY <1>9, <1>11, <1>15, <1>16, <2>1
  <2>2. CASE h = n + 1  BY <1>9, <1>11, <1>15, <1>16, <2>2
  <2>3. CASE f \in 1 .. n /\ h \in 1 .. n
    <3>1. S[G[f].scope].end <= S[G[h].scope].start \/ S[G[h].scope].end <= S[G[f].scope].start
      BY <1>5, <1>5a, <1>16, <2>3 DEF FunctionTable
    <3> QED  BY <1>8, <2>3, <3>1
  <2> QED  BY <1>11, <2>1, <2>2, <2>3
<1>17. \A f \in 1 .. n + 1 : H[f].scope \in 1 .. m + 1  BY <1>8, <1>9, <1>11
<1> QED  BY <1>3, <1>4, <1>6, <1>7, <1>13, <1>14, <1>16, <1>17 DEF FunctionTable

-----------------------------------------------------------------------------
(* What alter_db() derives for the statements.                             *)

Statements(stmts) ==
  /\ Len(stmts) \in Nat /\ DOMAIN stmts = 1 .. Len(stmts)
  /\ \A i \in DOMAIN stmts : StatementRow(stmts[i])

\* The scope of a statement is the deepest one around its address.
PlacedIn(S, s) ==
  IF s.scope = NULL THEN \A r \in DOMAIN S : ~Covers(S[r], s.addr)
  ELSE /\ s.scope \in DOMAIN S /\ Covers(S[s.scope], s.addr)
       /\ \A r \in DOMAIN S : Covers(S[r], s.addr) => S[r].depth <= S[s.scope].depth

\* The function of a statement is one around its address.
CalledIn(S, G, s) ==
  IF s.func = NULL THEN \A f \in DOMAIN G : ~Covers(S[G[f].scope], s.addr)
  ELSE s.func \in DOMAIN G /\ Covers(S[G[s.func].scope], s.addr)

\* The first addresses of functions, the other statements of a function, and the marks.
Opens(S, G, a) == \E f \in DOMAIN G : S[G[f].scope].start = a
BodyOf(S, G, stmts, f) ==
  {i \in DOMAIN stmts : ~Opens(S, G, stmts[i].addr) /\ stmts[i].func = f /\ stmts[i].scope # NULL}
EndOf(stmts, body, e) ==
  /\ e \in body /\ stmts[e].flag = 2
  /\ \A j \in body : stmts[j].addr <= stmts[e].addr /\ (stmts[j].flag = 2 => j = e)
FlagsSet(S, G, stmts) ==
  /\ \A i \in DOMAIN stmts : stmts[i].flag = 1 <=> Opens(S, G, stmts[i].addr)
  /\ \A f \in DOMAIN G : BodyOf(S, G, stmts, f) # {} =>
       \E e \in DOMAIN stmts : EndOf(stmts, BodyOf(S, G, stmts, f), e)

\* The tables, and where the walk is in them.
Stored(p, c, q, d) ==
  /\ {"scope", "function", "statement"} \subseteq DOMAIN d
  /\ ScopeTable(p, d.scope, c, q) /\ FunctionTable(p, d.scope, d.function, c, q)
Position(p, c, q, S, st, base) ==
  /\ AtScope(p, S, st, c, q) /\ Accepted(p[c])
  /\ p[c].low # NULL => base = p[c].low
\* The statements after the steps of alter_db() that are done.
Stage(S, G, stmts, ph) ==
  /\ ph \in {"unit", "symbols", "scopes"} => Fresh(stmts)
  /\ ph \notin {"unit", "symbols", "scopes"} =>
       Statements(stmts) /\ \A i \in DOMAIN stmts : PlacedIn(S, stmts[i])
  /\ ph \in {"functions", "flags"} => \A i \in DOMAIN stmts : stmts[i].flag = NULL
  /\ ph \notin {"unit", "symbols", "scopes", "functions"} =>
       \A i \in DOMAIN stmts : CalledIn(S, G, stmts[i])
  /\ ph \notin {"unit", "symbols", "scopes", "functions", "flags"} => FlagsSet(S, G, stmts)

Done == IF phase = "symbols" THEN pos ELSE 1
ScopesInv ==
  ret = "SUCCESS" /\ Regular(prog) =>
    /\ Stored(prog, cur, Done, db)
    /\ phase = "symbols" => Position(prog, cur, pos, db.scope, stack, cu_base_address)
    /\ phase \notin {"unit", "symbols"} => cur > Len(prog)
    /\ Stage(db.scope, db.function, db.statement, phase)

-----------------------------------------------------------------------------
(* From the tables to the properties.                                      *)

\* The scopes of the program around an address.
LEMMA TrueScopesAre ==
  ASSUME NEW p, p = prog, NEW tags, NEW a, NEW e
  PROVE  e \in TrueScopes(tags, a) <=>
           \E u \in DOMAIN p : \E i \in DOMAIN p[u].dies :
             /\ ScopeAt(p, u, i) /\ p[u].dies[i].tag \in tags
             /\ e = <<StartAt(p, u, i), EndAt(p, u, i)>>
             /\ StartAt(p, u, i) <= a /\ a < EndAt(p, u, i)
<1>1. ASSUME e \in TrueScopes(tags, a)
      PROVE  \E u \in DOMAIN p : \E i \in DOMAIN p[u].dies :
               /\ ScopeAt(p, u, i) /\ p[u].dies[i].tag \in tags
               /\ e = <<StartAt(p, u, i), EndAt(p, u, i)>>
               /\ StartAt(p, u, i) <= a /\ a < EndAt(p, u, i)
  <2>1. PICK w \in Range(p) : /\ Accepted(w)
                              /\ e \in {<<TrueStart(w, w.dies[i]), TrueEnd(w, w.dies[i])>> :
                                         i \in {j \in DOMAIN w.dies : w.dies[j].tag \in tags /\ ScopeTag(w.dies[j])}}
                              /\ e[1] <= a /\ a < e[2]
    BY <1>1 DEF TrueScopes
  <2>2. PICK u \in DOMAIN p : w = p[u]  BY <2>1 DEF Range
  <2>3. PICK i \in DOMAIN w.dies : /\ w.dies[i].tag \in tags /\ ScopeTag(w.dies[i])
                                   /\ e = <<TrueStart(w, w.dies[i]), TrueEnd(w, w.dies[i])>>
    BY <2>1
  <2>4. e[1] = TrueStart(w, w.dies[i]) /\ e[2] = TrueEnd(w, w.dies[i])  BY <2>3
  <2> QED  BY <2>1, <2>2, <2>3, <2>4 DEF ScopeAt, StartAt, EndAt
<1>2. ASSUME NEW u \in DOMAIN p, NEW i \in DOMAIN p[u].dies,
             ScopeAt(p, u, i), p[u].dies[i].tag \in tags,
             e = <<StartAt(p, u, i), EndAt(p, u, i)>>, StartAt(p, u, i) <= a, a < EndAt(p, u, i)
      PROVE  e \in TrueScopes(tags, a)
  <2>1. PICK w : w = p[u] /\ w \in Range(p) /\ Accepted(w)  BY <1>2 DEF Range, ScopeAt
  <2>2. i \in {j \in DOMAIN w.dies : w.dies[j].tag \in tags /\ ScopeTag(w.dies[j])}
    BY <1>2, <2>1 DEF ScopeAt
  <2>3. e = <<TrueStart(w, w.dies[i]), TrueEnd(w, w.dies[i])>>  BY <1>2, <2>1 DEF StartAt, EndAt
  <2>4. e[1] = StartAt(p, u, i) /\ e[2] = EndAt(p, u, i)  BY <1>2
  <2>5. w \in {v \in Range(prog) : Accepted(v)}  BY <2>1
  <2>6. e[1] <= a /\ a < e[2]  BY <1>2, <2>4
  <2> QED  BY <2>2, <2>3, <2>5, <2>6 DEF TrueScopes
<1> QED  BY <1>1, <1>2

\* A program that is well formed and nested, all of whose units are collected in S.
Collection(p, S) ==
  /\ WellFormed(p) /\ Nested(p)
  /\ \E c \in Nat : c > Len(p) /\ ScopeTable(p, S, c, 1)

\* Every scope of the program has its row, and every row is a scope of the program.
LEMMA CollectionFacts ==
  ASSUME NEW p, NEW S, Collection(p, S)
  PROVE  /\ S \in Seq(ScopeRowSet) /\ Forest(S)
         /\ \A r \in DOMAIN S : \E u \in DOMAIN p : \E i \in DOMAIN p[u].dies :
              ScopeAt(p, u, i) /\ Matches(p, S[r], u, i)
         /\ \A u \in DOMAIN p : \A i \in DOMAIN p[u].dies :
              ScopeAt(p, u, i) => \E r \in DOMAIN S : Matches(p, S[r], u, i)
         /\ \A u \in DOMAIN p : \A i \in DOMAIN p[u].dies :
              ScopeAt(p, u, i) => /\ StartAt(p, u, i) \in Nat /\ EndAt(p, u, i) \in Nat
                                  /\ StartAt(p, u, i) <= EndAt(p, u, i)
                                  /\ p[u].dies[i].lvl \in Nat
<1>1. PICK c \in Nat : c > Len(p) /\ ScopeTable(p, S, c, 1)  BY DEF Collection
<1>2. p \in Seq(Range(p))  BY DEF Collection, WellFormed
<1>3. \A u \in DOMAIN p : u < c  BY <1>1, <1>2
<1>4. \A u \in DOMAIN p : \A i : Before(c, 1, u, i)  BY <1>3 DEF Before
<1>5. S \in Seq(ScopeRowSet) /\ Forest(S)  BY <1>1 DEF ScopeTable
<1>6. \A r \in DOMAIN S : \E u \in DOMAIN p : \E i \in DOMAIN p[u].dies :
        ScopeAt(p, u, i) /\ Matches(p, S[r], u, i)
  BY <1>1 DEF ScopeTable
<1>7. \A u \in DOMAIN p : \A i \in DOMAIN p[u].dies :
        ScopeAt(p, u, i) => \E r \in DOMAIN S : Matches(p, S[r], u, i)
  BY <1>1, <1>4 DEF ScopeTable
<1>8. ASSUME NEW u \in DOMAIN p, NEW i \in DOMAIN p[u].dies, ScopeAt(p, u, i)
      PROVE  /\ StartAt(p, u, i) \in Nat /\ EndAt(p, u, i) \in Nat
             /\ StartAt(p, u, i) <= EndAt(p, u, i) /\ p[u].dies[i].lvl \in Nat
  <2>1. Accepted(p[u])  BY <1>8 DEF ScopeAt
  <2>2. Extents(p, u, i) /\ Levels(p[u].dies)  BY <1>8, <2>1 DEF Collection, Nested
  <2> QED  BY <2>2 DEF Extents, Levels
<1> QED  BY <1>5, <1>6, <1>7, <1>8

\* The deepest scope around an address and its ancestors are the scopes around it.
LEMMA DeepestExact ==
  ASSUME NEW p, p = prog, NEW S, Collection(p, S), NEW a \in Nat, NEW k \in DOMAIN S,
         Covers(S[k], a), \A r \in DOMAIN S : Covers(S[r], a) => S[r].depth <= S[k].depth
  PROVE  {<<S[i].start, S[i].end>> : i \in ScopeChain(S, k)} = TrueScopes({"subprogram", "block"}, a)
<1>1. PICK L \in Nat : L = Len(S) /\ DOMAIN S = 1 .. L
  <2>1. S \in Seq(ScopeRowSet)  BY CollectionFacts
  <2> QED  BY <2>1
<1>2. \A r \in 1 .. L : /\ S[r] \in ScopeRowSet
                        /\ S[r].depth \in Nat /\ S[r].start \in Nat /\ S[r].end \in Nat
  <2>1. S \in Seq(ScopeRowSet)  BY CollectionFacts
  <2>2. \A r \in 1 .. L : S[r] \in ScopeRowSet  BY <1>1, <2>1
  <2> QED  BY <2>2 DEF ScopeRowSet
<1>3. Forest(S)  BY CollectionFacts
<1>4. ParentsBefore(S, L)  BY <1>1, <1>3 DEF ParentsBefore, Forest
<1>5. PICK K : K = ScopeChain(S, k)  OBVIOUS
<1>6. /\ k \in K /\ K \subseteq 1 .. L /\ ClosedUp(S, K)
      /\ \A C : k \in C /\ ClosedUp(S, C) => K \subseteq C
  BY <1>1, <1>4, <1>5, ChainFacts
<1>7. \A r \in K : Covers(S[r], a)
  <2> DEFINE C == {r \in 1 .. L : Covers(S[r], a)}
  <2>1. k \in C  BY <1>1
  <2>2. ASSUME NEW y \in C  PROVE S[y].parent = 0 \/ S[y].parent \in C
    <3>1. y \in 1 .. L /\ Covers(S[y], a)  OBVIOUS
    <3>2. \/ S[y].parent = 0
          \/ /\ S[y].parent \in 1 .. y - 1
             /\ S[S[y].parent].start <= S[y].start /\ S[y].end <= S[S[y].parent].end
      BY <1>1, <1>3, <3>1 DEF Forest
    <3>3. CASE S[y].parent = 0  BY <3>3
    <3>4. CASE S[y].parent # 0
      <4>1. PICK x : x = S[y].parent /\ x \in 1 .. L  BY <3>1, <3>2, <3>4
      <4>2. S[x].start <= S[y].start /\ S[y].end <= S[x].end  BY <3>2, <3>4, <4>1
      <4>3. Covers(S[x], a)  BY <1>2, <3>1, <4>1, <4>2 DEF Covers
      <4> QED  BY <4>1, <4>3
    <3> QED  BY <3>3, <3>4
  <2>3. ClosedUp(S, C)  BY <2>2 DEF ClosedUp
  <2> HIDE DEF C
  <2>4. K \subseteq C  BY <1>6, <2>1, <2>3
  <2> QED  BY <2>4 DEF C
<1>8. ASSUME NEW r \in K  PROVE <<S[r].start, S[r].end>> \in TrueScopes({"subprogram", "block"}, a)
  <2>1. r \in DOMAIN S  BY <1>1, <1>6
  <2>2. PICK u \in DOMAIN p : \E i \in DOMAIN p[u].dies : ScopeAt(p, u, i) /\ Matches(p, S[r], u, i)
    BY <2>1, CollectionFacts
  <2>3. PICK i \in DOMAIN p[u].dies : ScopeAt(p, u, i) /\ Matches(p, S[r], u, i)  BY <2>2
  <2>4. p[u].dies[i].tag \in {"subprogram", "block"}  BY <2>3 DEF ScopeAt, ScopeTag
  <2>5. S[r].start = StartAt(p, u, i) /\ S[r].end = EndAt(p, u, i)  BY <2>3 DEF Matches
  <2>6. StartAt(p, u, i) <= a /\ a < EndAt(p, u, i)  BY <1>7, <2>5 DEF Covers
  <2>7. PICK e : e = <<S[r].start, S[r].end>>  OBVIOUS
  <2>8. e = <<StartAt(p, u, i), EndAt(p, u, i)>>  BY <2>5, <2>7
  <2>9. e \in TrueScopes({"subprogram", "block"}, a)  BY <2>3, <2>4, <2>6, <2>8, TrueScopesAre
  <2> QED  BY <2>7, <2>9
<1>9. ASSUME NEW e \in TrueScopes({"subprogram", "block"}, a)
      PROVE  \E r \in K : e = <<S[r].start, S[r].end>>
  <2>1. PICK u \in DOMAIN p : \E i \in DOMAIN p[u].dies :
          /\ ScopeAt(p, u, i) /\ e = <<StartAt(p, u, i), EndAt(p, u, i)>>
          /\ StartAt(p, u, i) <= a /\ a < EndAt(p, u, i)
    BY TrueScopesAre
  <2>2. PICK i \in DOMAIN p[u].dies :
          /\ ScopeAt(p, u, i) /\ e = <<StartAt(p, u, i), EndAt(p, u, i)>>
          /\ StartAt(p, u, i) <= a /\ a < EndAt(p, u, i)
    BY <2>1
  <2>3. PICK m \in DOMAIN S : Matches(p, S[m], u, i)  BY <2>2, CollectionFacts
  <2>4. Covers(S[m], a)  BY <2>2, <2>3 DEF Covers, Matches
  <2>5. S[m].depth <= S[k].depth /\ S[m].depth \in Nat  BY <1>1, <1>2, <2>4
  <2> DEFINE D == {S[r].depth : r \in {x \in K : S[m].depth <= S[x].depth}}
  <2>6. D \in SUBSET Nat /\ D # {}
    <3>1. S[k].depth \in D  BY <1>6, <2>5
    <3>2. \A r \in K : S[r].depth \in Nat  BY <1>2, <1>6
    <3> QED  BY <3>1, <3>2
  <2>7. PICK d \in D : \A x \in D : d <= x
    <3> HIDE DEF D
    <3> QED  BY <2>6, NatHasLeast
  <2>8. PICK r \in K : d = S[r].depth /\ S[m].depth <= S[r].depth  OBVIOUS
  <2>9. S[r].depth = S[m].depth
    <3> SUFFICES ASSUME S[r].depth # S[m].depth  PROVE FALSE
      OBVIOUS
    <3>1. r \in 1 .. L /\ S[r].depth \in Nat /\ S[r].depth > S[m].depth /\ S[r].depth # 0
      BY <1>2, <1>6, <2>5, <2>8
    <3>2. S[r].parent \in 1 .. r - 1 /\ S[S[r].parent].depth = S[r].depth - 1
      BY <1>1, <1>3, <3>1 DEF Forest
    <3>3. PICK x : x = S[r].parent /\ x \in K
      <4>1. S[r].parent # 0  BY <3>1, <3>2
      <4> QED  BY <1>6, <4>1 DEF ClosedUp
    <3>4. S[x].depth = S[r].depth - 1  BY <3>2, <3>3
    <3>5. S[m].depth <= S[x].depth  BY <2>5, <3>1, <3>4
    <3>6. S[x].depth \in D  BY <3>3, <3>5
    <3>7. S[r].depth <= S[x].depth  BY <2>7, <2>8, <3>6
    <3> QED  BY <3>1, <3>4, <3>7
  <2>10. r \in DOMAIN S  BY <1>1, <1>6
  <2>11. PICK v \in DOMAIN p : \E j \in DOMAIN p[v].dies : ScopeAt(p, v, j) /\ Matches(p, S[r], v, j)
    BY <2>10, CollectionFacts
  <2>12. PICK j \in DOMAIN p[v].dies : ScopeAt(p, v, j) /\ Matches(p, S[r], v, j)  BY <2>11
  <2>13. p[u].dies[i].lvl = p[v].dies[j].lvl
    <3>1. p[u].dies[i].lvl \in Nat /\ p[v].dies[j].lvl \in Nat  BY <2>2, <2>12, CollectionFacts
    <3>2. p[u].dies[i].lvl - 1 = p[v].dies[j].lvl - 1  BY <2>3, <2>9, <2>12 DEF Matches
    <3> QED  BY <3>1, <3>2
  <2>14. ~Apart(p, u, i, v, j)
    <3>1. StartAt(p, v, j) <= a /\ a < EndAt(p, v, j)  BY <1>7, <2>12 DEF Covers, Matches
    <3>2. /\ StartAt(p, u, i) \in Nat /\ EndAt(p, u, i) \in Nat
          /\ StartAt(p, v, j) \in Nat /\ EndAt(p, v, j) \in Nat
      BY <2>2, <2>12, CollectionFacts
    <3> QED  BY <2>2, <3>1, <3>2 DEF Apart
  <2>15. u = v /\ i = j
    <3>1. SameKind(p[u].dies[i], p[v].dies[j])  BY <2>13 DEF SameKind
    <3> QED  BY <2>2, <2>12, <2>14, <3>1 DEF Collection, Nested
  <2>16. S[r].start = StartAt(p, u, i) /\ S[r].end = EndAt(p, u, i)  BY <2>12, <2>15 DEF Matches
  <2> QED  BY <2>2, <2>16
<1> QED  BY <1>5, <1>8, <1>9

\* An address no row covers is in no scope of the program.
LEMMA NowhereExact ==
  ASSUME NEW p, p = prog, NEW S, Collection(p, S), NEW a, \A r \in DOMAIN S : ~Covers(S[r], a)
  PROVE  TrueScopes({"subprogram", "block"}, a) = {}
<1> SUFFICES ASSUME NEW e \in TrueScopes({"subprogram", "block"}, a)  PROVE FALSE
  OBVIOUS
<1>1. PICK u \in DOMAIN p : \E i \in DOMAIN p[u].dies :
        ScopeAt(p, u, i) /\ StartAt(p, u, i) <= a /\ a < EndAt(p, u, i)
  BY TrueScopesAre
<1>2. PICK i \in DOMAIN p[u].dies : ScopeAt(p, u, i) /\ StartAt(p, u, i) <= a /\ a < EndAt(p, u, i)
  BY <1>1
<1>3. PICK m \in DOMAIN S : Matches(p, S[m], u, i)  BY <1>2, CollectionFacts
<1> QED  BY <1>2, <1>3 DEF Covers, Matches

\* The tables when the debug information is ready.
Ready(p, S, G, c, stmts) ==
  /\ Collection(p, S)
  /\ c \in Nat /\ c > Len(p) /\ FunctionTable(p, S, G, c, 1)
  /\ Statements(stmts) /\ FlagsSet(S, G, stmts)
  /\ \A i \in DOMAIN stmts : PlacedIn(S, stmts[i]) /\ CalledIn(S, G, stmts[i])

\* The statements of the function with extent f, those behind its start, and their marks.
InsideOf(stmts, f) == {i \in DOMAIN stmts : f[1] <= stmts[i].addr /\ stmts[i].addr < f[2]}
BehindStart(stmts, f) == {i \in InsideOf(stmts, f) : stmts[i].addr # f[1]}
Marks(stmts, f) ==
  /\ \A i \in InsideOf(stmts, f) : stmts[i].flag = 1 <=> stmts[i].addr = f[1]
  /\ InsideOf(stmts, f) # {} => \E g : {stmts[i].func : i \in InsideOf(stmts, f)} = {g}
  /\ BehindStart(stmts, f) # {} =>
       \E e : /\ {i \in InsideOf(stmts, f) : stmts[i].flag = 2} = {e}
              /\ \A j \in BehindStart(stmts, f) : stmts[j].addr <= stmts[e].addr

\* The marks of the statements of one function.
LEMMA MarksExact ==
  ASSUME NEW p, p = prog, NEW S, NEW G, NEW c, NEW stmts, Ready(p, S, G, c, stmts),
         NEW a, NEW f \in TrueScopes({"subprogram"}, a)
  PROVE  Marks(stmts, f)
<1> SUFFICES ASSUME NEW inside, inside = {i \in DOMAIN stmts : f[1] <= stmts[i].addr /\ stmts[i].addr < f[2]},
                    NEW body, body = {i \in inside : stmts[i].addr # f[1]}
             PROVE  /\ \A i \in inside : stmts[i].flag = 1 <=> stmts[i].addr = f[1]
                    /\ inside # {} => \E g : {stmts[i].func : i \in inside} = {g}
                    /\ body # {} => \E e : {i \in inside : stmts[i].flag = 2} = {e}
                                           /\ \A j \in body : stmts[j].addr <= stmts[e].addr
  BY DEF Marks, InsideOf, BehindStart
<1>0. /\ Collection(p, S) /\ c \in Nat /\ c > Len(p) /\ FunctionTable(p, S, G, c, 1)
      /\ Statements(stmts) /\ FlagsSet(S, G, stmts)
      /\ \A i \in DOMAIN stmts : PlacedIn(S, stmts[i]) /\ CalledIn(S, G, stmts[i])
  BY DEF Ready
<1>1. PICK u \in DOMAIN p : \E i \in DOMAIN p[u].dies :
        /\ ScopeAt(p, u, i) /\ p[u].dies[i].tag \in {"subprogram"}
        /\ f = <<StartAt(p, u, i), EndAt(p, u, i)>>
  BY TrueScopesAre
<1>2. PICK i \in DOMAIN p[u].dies :
        /\ ScopeAt(p, u, i) /\ p[u].dies[i].tag \in {"subprogram"}
        /\ f = <<StartAt(p, u, i), EndAt(p, u, i)>>
  BY <1>1
<1>3. PICK s, e : s = StartAt(p, u, i) /\ e = EndAt(p, u, i) /\ s \in Nat /\ e \in Nat /\ f = <<s, e>>
  BY <1>0, <1>2, CollectionFacts
<1>4. f[1] = s /\ f[2] = e  BY <1>3
<1>5. PICK g \in DOMAIN G : Matches(p, S[G[g].scope], u, i)
  <2>1. FunctionAt(p, u, i)  BY <1>2 DEF FunctionAt
  <2>2. p \in Seq(Range(p))  BY <1>0 DEF Collection, WellFormed
  <2>3. u < c  BY <1>0, <2>2
  <2> QED  BY <1>0, <2>1, <2>3 DEF FunctionTable, Before
<1>6. S[G[g].scope].start = s /\ S[G[g].scope].end = e  BY <1>3, <1>5 DEF Matches
<1>7. ASSUME NEW h \in DOMAIN G
      PROVE  /\ G[h].scope \in DOMAIN S /\ h \in Nat
             /\ S[G[h].scope].start \in Nat /\ S[G[h].scope].end \in Nat
             /\ S[G[h].scope].start <= S[G[h].scope].end
             /\ h # g => S[G[h].scope].end <= s \/ e <= S[G[h].scope].start
  <2>1. PICK v \in DOMAIN p : \E j \in DOMAIN p[v].dies :
          FunctionAt(p, v, j) /\ Matches(p, S[G[h].scope], v, j)
    BY <1>0 DEF FunctionTable
  <2>2. PICK j \in DOMAIN p[v].dies : FunctionAt(p, v, j) /\ Matches(p, S[G[h].scope], v, j)  BY <2>1
  <2>3. ScopeAt(p, v, j)  BY <2>2 DEF FunctionAt
  <2>4. /\ StartAt(p, v, j) \in Nat /\ EndAt(p, v, j) \in Nat /\ StartAt(p, v, j) <= EndAt(p, v, j)
    BY <1>0, <2>3, CollectionFacts
  <2>5. h # g => S[G[h].scope].end <= s \/ e <= S[G[h].scope].start
    BY <1>0, <1>6 DEF FunctionTable
  <2>6. PICK E : G \in Seq(E)  BY <1>0 DEF FunctionTable
  <2>7. h \in Nat  BY <2>6
  <2>8. G[h].scope \in DOMAIN S  BY <1>0 DEF FunctionTable
  <2> QED  BY <2>2, <2>4, <2>5, <2>7, <2>8 DEF Matches
<1>8. \A x \in DOMAIN stmts : stmts[x].addr \in Nat  BY <1>0 DEF Statements, StatementRow
<1>9. ASSUME NEW x \in inside
      PROVE  /\ x \in DOMAIN stmts /\ stmts[x].addr \in Nat /\ s <= stmts[x].addr /\ stmts[x].addr < e
             /\ stmts[x].func = g /\ stmts[x].scope # NULL
             /\ Opens(S, G, stmts[x].addr) <=> stmts[x].addr = s
  <2>1. PICK b : b = stmts[x].addr /\ b \in Nat /\ s <= b /\ b < e /\ x \in DOMAIN stmts  BY <1>4, <1>8
  <2>2. Covers(S[G[g].scope], b)  BY <1>6, <2>1 DEF Covers
  <2>3. stmts[x].scope # NULL
    <3>1. PlacedIn(S, stmts[x])  BY <1>0, <2>1
    <3> QED  BY <1>7, <2>1, <2>2, <3>1 DEF PlacedIn
  <2>4. stmts[x].func = g
    <3>1. CalledIn(S, G, stmts[x])  BY <1>0, <2>1
    <3>2. stmts[x].func \in DOMAIN G /\ Covers(S[G[stmts[x].func].scope], b)
      BY <2>1, <2>2, <3>1 DEF CalledIn
    <3>3. PICK h \in DOMAIN G : h = stmts[x].func /\ Covers(S[G[h].scope], b)  BY <3>2
    <3>4. PICK y, z : /\ y = S[G[h].scope].start /\ z = S[G[h].scope].end /\ y \in Nat /\ z \in Nat
                      /\ h # g => z <= s \/ e <= y
      BY <1>7
    <3>5. y <= b /\ b < z  BY <3>3, <3>4 DEF Covers
    <3>6. h = g  BY <1>3, <2>1, <3>4, <3>5
    <3> QED  BY <3>3, <3>6
  <2>5. Opens(S, G, b) => b = s
    <3> SUFFICES ASSUME NEW h \in DOMAIN G, S[G[h].scope].start = b  PROVE b = s
      BY DEF Opens
    <3>1. CASE h = g  BY <1>6, <3>1
    <3>2. CASE h # g  BY <1>3, <1>7, <2>1, <3>2
    <3> QED  BY <3>1, <3>2
  <2>6. b = s => Opens(S, G, b)  BY <1>6 DEF Opens
  <2> QED  BY <2>1, <2>3, <2>4, <2>5, <2>6
<1>10. \A x \in inside : stmts[x].flag = 1 <=> stmts[x].addr = s  BY <1>0, <1>9 DEF FlagsSet
<1>11. inside # {} => {stmts[x].func : x \in inside} = {g}  BY <1>9
<1>12. body = BodyOf(S, G, stmts, g)
  <2>1. ASSUME NEW x \in body  PROVE x \in BodyOf(S, G, stmts, g)
    <3>1. x \in inside /\ stmts[x].addr # s  BY <1>4
    <3> QED  BY <1>9, <3>1 DEF BodyOf
  <2>2. ASSUME NEW x \in BodyOf(S, G, stmts, g)  PROVE x \in body
    <3>1. x \in DOMAIN stmts /\ ~Opens(S, G, stmts[x].addr) /\ stmts[x].func = g  BY DEF BodyOf
    <3>2. CalledIn(S, G, stmts[x])  BY <1>0, <3>1
    <3>3. g # NULL  BY <1>7 DEF NULL
    <3>4. Covers(S[G[g].scope], stmts[x].addr)  BY <3>1, <3>2, <3>3 DEF CalledIn
    <3>5. s <= stmts[x].addr /\ stmts[x].addr < e  BY <1>6, <3>4 DEF Covers
    <3>6. x \in inside  BY <1>4, <3>1, <3>5
    <3>7. stmts[x].addr # f[1]  BY <1>4, <1>9, <3>1, <3>6
    <3> QED  BY <3>6, <3>7
  <2> QED  BY <2>1, <2>2
<1>13. ASSUME body # {}
       PROVE  \E z : {x \in inside : stmts[x].flag = 2} = {z} /\ \A j \in body : stmts[j].addr <= stmts[z].addr
  <2>1. PICK z \in DOMAIN stmts : EndOf(stmts, body, z)  BY <1>0, <1>12, <1>13 DEF FlagsSet
  <2>2. z \in body /\ z \in inside /\ stmts[z].flag = 2  BY <2>1 DEF EndOf
  <2>3. \A j \in body : stmts[j].addr <= stmts[z].addr /\ (stmts[j].flag = 2 => j = z)  BY <2>1 DEF EndOf
  <2>4. ASSUME NEW x \in inside, stmts[x].flag = 2  PROVE x = z
    <3>1. stmts[x].flag # 1  BY <2>4
    <3>2. x \in body  BY <1>4, <1>10, <3>1
    <3> QED  BY <2>3, <2>4, <3>2
  <2> QED  BY <2>2, <2>3, <2>4
<1> QED  BY <1>4, <1>10, <1>11, <1>13

-----------------------------------------------------------------------------
(* The steps of the walk.                                                  *)

\* The walk is at a DIE of a program that is nested.
LEMMA AtWalk ==
  ASSUME TypesInv, ScopesInv, ret = "SUCCESS", Regular(prog), phase = "symbols", pos <= Len(Dies)
  PROVE  Walk(prog, cur, pos)
<1>1. prog \in Programs  BY DEF TypesInv
<1>2. WellFormed(prog) /\ Nested(prog)  BY <1>1, ProgramsAssumption, NestingAssumption
<1>3. cur \in DOMAIN prog /\ pos \in DOMAIN prog[cur].dies  BY AtDie
<1>4. Accepted(prog[cur])  BY DEF ScopesInv, Position
<1> QED  BY <1>2, <1>3, <1>4 DEF Walk

\* dwarf_siblingof() passes what is below a DIE and nothing else.
LEMMA SiblingFollows ==
  ASSUME NEW p, NEW c, NEW q, Walk(p, c, q), p = prog, c = cur, q = pos
  PROVE  NextSibling \in Nat /\ Sibling(p[c].dies, q, NextSibling)
<1>0. PICK D : D = p[c].dies  OBVIOUS
<1>1. PICK N \in Nat : D = p[c].dies /\ DOMAIN D = 1 .. N /\ Len(D) = N
  BY <1>0, WalkNumbers DEF Walk
<1>2. q \in 1 .. N /\ \A i \in 1 .. N : D[i].lvl \in Nat  BY <1>1, WalkNumbers DEF Walk
<1> DEFINE after == {i \in q + 1 .. N : D[i].lvl <= D[q].lvl}
<1>3. NextSibling = IF after = {} THEN N + 1 ELSE CHOOSE i \in after : \A j \in after : i <= j
  BY <1>1 DEF NextSibling, Dies, Die
<1>4. \A k \in q + 1 .. N : k \notin after => D[q].lvl < D[k].lvl
  <2> TAKE k \in q + 1 .. N
  <2>1. D[k].lvl \in Nat /\ D[q].lvl \in Nat  BY <1>2
  <2> QED  BY <2>1
<1>5. after \subseteq q + 1 .. N /\ \A k \in after : D[k].lvl <= D[q].lvl  OBVIOUS
<1> HIDE DEF after
<1>6. CASE after = {}
  <2>1. NextSibling = N + 1  BY <1>3, <1>6
  <2>2. \A k \in q + 1 .. N : D[q].lvl < D[k].lvl  BY <1>4, <1>6
  <2>3. N + 1 \notin DOMAIN D /\ q < N + 1 /\ (N + 1) - 1 = N /\ N + 1 \in Nat  BY <1>1, <1>2
  <2> QED  BY <1>1, <2>1, <2>2, <2>3 DEF Sibling
<1>7. CASE after # {}
  <2>1. after \in SUBSET Nat  BY <1>2, <1>5
  <2>2. \E i \in after : \A j \in after : i <= j  BY <1>7, <2>1, NatHasLeast
  <2>3. PICK n : n = NextSibling /\ n \in after /\ \A j \in after : n <= j  BY <1>3, <1>7, <2>2
  <2>4. n \in Nat /\ n \in q + 1 .. N  BY <1>5, <2>1, <2>3
  <2>5. ASSUME NEW k \in q + 1 .. n - 1  PROVE D[q].lvl < D[k].lvl
    <3>1. k \in q + 1 .. N /\ ~(n <= k)  BY <1>2, <2>4
    <3> QED  BY <1>4, <2>3, <3>1
  <2>6. q < n /\ D[n].lvl <= D[q].lvl  BY <1>2, <1>5, <2>3, <2>4
  <2> QED  BY <1>1, <2>3, <2>4, <2>5, <2>6 DEF Sibling
<1> QED  BY <1>6, <1>7

\* A step past a DIE that is no scope.
LEMMA KeepScopes ==
  ASSUME TypesInv, ScopesInv, phase = "symbols", pos <= Len(Dies), ~ScopeTag(Die),
         pos' = NextSibling, UNCHANGED <<walkVars, stack, phase>>,
         {"scope", "function", "statement"} \subseteq DOMAIN db =>
           /\ {"scope", "function", "statement"} \subseteq DOMAIN db'
           /\ db'.scope = db.scope /\ db'.function = db.function /\ db'.statement = db.statement
  PROVE  ScopesInv'
<1>1. prog' = prog /\ cur' = cur /\ cu_base_address' = cu_base_address /\ ret' = ret
      /\ stack' = stack /\ phase' = phase
  BY DEF walkVars
<1> SUFFICES ASSUME ret = "SUCCESS", Regular(prog)  PROVE ScopesInv'
  BY <1>1 DEF ScopesInv
<1>2. PICK p, c, q, n, S, G, st : /\ p = prog /\ c = cur /\ q = pos /\ n = NextSibling
                                  /\ S = db.scope /\ G = db.function /\ st = stack
  OBVIOUS
<1>3. Walk(p, c, q)  BY <1>2, AtWalk
<1>4. n \in Nat /\ Sibling(p[c].dies, q, n)  BY <1>2, <1>3, SiblingFollows
<1>5. ~ScopeTag(p[c].dies[q])  BY <1>2 DEF Die, Dies
<1>6. ScopeTable(p, S, c, q) /\ FunctionTable(p, S, G, c, q) /\ AtScope(p, S, st, c, q)
  BY <1>2 DEF ScopesInv, Stored, Position, Done
<1>7. ScopeTable(p, S, c, n) /\ FunctionTable(p, S, G, c, n) /\ AtScope(p, S, st, c, n)
  BY <1>3, <1>4, <1>5, <1>6, SkipTables
<1>8. /\ {"scope", "function", "statement"} \subseteq DOMAIN db'
      /\ db'.scope = S /\ db'.function = G /\ db'.statement = db.statement
  BY <1>2 DEF ScopesInv, Stored
<1>9. Stored(prog, cur, Done, db)'  BY <1>1, <1>2, <1>7, <1>8 DEF Stored, Done
<1>10. Position(prog, cur, pos, db.scope, stack, cu_base_address)'
  BY <1>1, <1>2, <1>7, <1>8 DEF ScopesInv, Position
<1>11. Stage(db.scope, db.function, db.statement, phase)'
  BY <1>1, <1>2, <1>8 DEF ScopesInv
<1> QED  BY <1>1, <1>9, <1>10, <1>11 DEF ScopesInv

\* The row stored for a scope has its true extent: the guess about an offset is right.
LEMMA ScopeRowIs ==
  ASSUME NEW p, NEW c, NEW q, Walk(p, c, q), Regular(p), p = prog, c = cur, q = pos, ScopeTag(Die),
         NEW S, AtScope(p, S, stack, c, q), NEW lo, NEW hi,
         lo = StartAt(p, c, q),
         HighAddr(lo, hi) = EndAt(p, c, q)
  PROVE  /\ ScopeRow(lo, hi) \in ScopeRowSet
         /\ Matches(p, ScopeRow(lo, hi), c, q)
         /\ ScopeRow(lo, hi).parent = stack[p[c].dies[q].lvl]
<1>1. PICK d : d = p[c].dies[q] /\ d = Die  BY DEF Die, Dies
<1>2. PICK l : l = d.lvl /\ l \in Nat \ {0}
  <2>1. q \in DOMAIN p[c].dies  BY DEF Walk
  <2>2. p[c].dies[q].lvl \in Nat \ {0}  BY <2>1, WalkNumbers
  <2> QED  BY <1>1, <2>2
<1>3. PICK st : st = stack /\ st \in Seq(Nat) /\ l <= Len(st)  BY <1>1, <1>2 DEF AtScope, Walk
<1>4. st[l] \in Nat  BY <1>2, <1>3
<1>5. ScopeAt(p, c, q)  BY <1>1 DEF Walk, ScopeAt
<1>6. StartAt(p, c, q) \in Nat /\ EndAt(p, c, q) \in Nat  BY <1>5 DEF Walk, Nested, Extents
<1>7. PICK row : row = ScopeRow(lo, hi)  OBVIOUS
<1>8. row = [parent |-> st[l], depth |-> l - 1, start |-> StartAt(p, c, q), end |-> EndAt(p, c, q)]
  BY <1>1, <1>2, <1>3, <1>7 DEF ScopeRow
<1>9. l - 1 \in Nat  BY <1>2
<1>10. row \in ScopeRowSet  BY <1>4, <1>6, <1>8, <1>9 DEF ScopeRowSet
<1>11. Matches(p, row, c, q)  BY <1>1, <1>2, <1>8 DEF Matches
<1>12. row.parent = stack[p[c].dies[q].lvl]  BY <1>1, <1>2, <1>3, <1>8
<1> QED  BY <1>7, <1>10, <1>11, <1>12

\* A step into a scope.
LEMMA DescendStep ==
  ASSUME TypesInv, ScopesInv, phase = "symbols", pos <= Len(Dies), ScopeTag(Die), NEW d, Descend(d),
         NEW row,
         ret = "SUCCESS" /\ Regular(prog) =>
           /\ row \in ScopeRowSet /\ Matches(prog, row, cur, pos) /\ row.parent = stack[prog[cur].dies[pos].lvl]
           /\ {"scope", "function", "statement"} \subseteq DOMAIN d
           /\ d.scope = Append(db.scope, row) /\ d.statement = db.statement
           /\ IF Die.tag = "subprogram"
                THEN \E g : d.function = Append(db.function, g) /\ g.scope = Len(d.scope)
                ELSE d.function = db.function
  PROVE  ScopesInv'
<1>1. /\ prog' = prog /\ cur' = cur /\ cu_base_address' = cu_base_address /\ ret' = ret
      /\ phase' = phase /\ pos' = pos + 1 /\ db' = d
      /\ stack' = Append(SubSeq(stack, 1, Die.lvl), Len(d.scope))
  BY DEF Descend, walkVars
<1> SUFFICES ASSUME ret = "SUCCESS", Regular(prog)  PROVE ScopesInv'
  BY <1>1 DEF ScopesInv
<1>2. PICK p, c, q, S, G, st : p = prog /\ c = cur /\ q = pos /\ S = db.scope /\ G = db.function /\ st = stack
  OBVIOUS
<1>3. Walk(p, c, q)  BY <1>2, AtWalk
<1>4. ScopeTag(p[c].dies[q]) /\ Die = p[c].dies[q]  BY <1>2 DEF Die, Dies
<1>5. ScopeTable(p, S, c, q) /\ FunctionTable(p, S, G, c, q) /\ AtScope(p, S, st, c, q)
  BY <1>2 DEF ScopesInv, Stored, Position, Done
<1>6. row \in ScopeRowSet /\ Matches(p, row, c, q) /\ row.parent = st[p[c].dies[q].lvl]  BY <1>2
<1>7. S \in Seq(ScopeRowSet)  BY <1>5 DEF ScopeTable
<1>8. PICK T : T = d.scope /\ T = Append(S, row)  BY <1>2
<1>9. Len(T) = Len(S) + 1  BY <1>6, <1>7, <1>8
<1>10. ScopeTable(p, T, c, q + 1)  BY <1>3, <1>4, <1>5, <1>6, <1>8, DescendScopes
<1>11. AtScope(p, T, stack', c, q + 1)
  <2>1. stack' = Append(SubSeq(st, 1, p[c].dies[q].lvl), Len(S) + 1)  BY <1>1, <1>2, <1>4, <1>8, <1>9
  <2>2. PICK w : w = stack'  OBVIOUS
  <2>3. AtScope(p, T, w, c, q + 1)  BY <1>3, <1>4, <1>5, <1>6, <1>8, <2>1, <2>2, DescendStack, Zenon
  <2> QED  BY <2>2, <2>3
<1>12. FunctionTable(p, T, d.function, c, q + 1)
  <2>1. CASE Die.tag = "subprogram"
    <3>1. PICK g : d.function = Append(G, g) /\ g.scope = Len(S) + 1  BY <1>2, <1>8, <1>9, <2>1
    <3> QED  BY <1>3, <1>4, <1>5, <1>6, <1>7, <1>8, <2>1, <3>1, DescendFunction
  <2>2. CASE Die.tag # "subprogram"
    <3>1. d.function = G  BY <1>2, <2>2
    <3> QED  BY <1>3, <1>4, <1>5, <1>6, <1>7, <1>8, <2>2, <3>1, DescendBlock
  <2> QED  BY <2>1, <2>2
<1>13. Stored(prog, cur, Done, db)'
  BY <1>1, <1>2, <1>8, <1>10, <1>12 DEF Stored, Done
<1>14. Position(prog, cur, pos, db.scope, stack, cu_base_address)'
  BY <1>1, <1>2, <1>8, <1>11 DEF ScopesInv, Position
<1>15. Stage(db.scope, db.function, db.statement, phase)'
  <2>1. Fresh(db.statement)  BY DEF ScopesInv, Stage
  <2>2. db'.statement = db.statement /\ phase' = "symbols"  BY <1>1
  <2> QED  BY <2>1, <2>2 DEF Stage
<1> QED  BY <1>1, <1>13, <1>14, <1>15 DEF ScopesInv

\* Where proc_func() and proc_block() find the extent of a scope.
LEMMA ExtentFound ==
  ASSUME NEW p, NEW c, NEW q, Walk(p, c, q), Regular(p), ScopeTag(p[c].dies[q]), NEW d, d = p[c].dies[q]
  PROVE  IF d.tag = "block" /\ d.ranges # <<>>
           THEN /\ p[c].low # NULL
                /\ StartAt(p, c, q) = p[c].low + Head(d.ranges)[1]
                /\ HighAddr(StartAt(p, c, q), p[c].low + Last(d.ranges)[2]) = EndAt(p, c, q)
           ELSE StartAt(p, c, q) = d.lo /\ HighAddr(d.lo, d.hi) = EndAt(p, c, q)
<1>1. ScopeAt(p, c, q)  BY DEF Walk, ScopeAt
<1>2. Extents(p, c, q)  BY <1>1 DEF Walk, Nested
<1>3. PICK s, e : s = StartAt(p, c, q) /\ e = EndAt(p, c, q) /\ s \in Nat /\ e \in Nat /\ s <= e
  BY <1>2 DEF Extents
<1>4. HighAddr(s, e) = e  BY <1>3 DEF HighAddr
<1>5. IF d.tag = "block" /\ d.ranges # <<>> THEN p[c].low # NULL ELSE d.rel => d.hi < d.lo
  <2>1. p[c] \in Range(p)  BY DEF Walk, Range
  <2> QED  BY <2>1 DEF Walk, Regular
<1>6. CASE d.tag = "block" /\ d.ranges # <<>>
  <2>1. s = p[c].low + Head(d.ranges)[1]  BY <1>3, <1>6 DEF StartAt, TrueStart
  <2>2. e = p[c].low + Last(d.ranges)[2]  BY <1>3, <1>6 DEF EndAt, TrueEnd
  <2> QED  BY <1>3, <1>4, <1>5, <1>6, <2>1, <2>2
<1>7. CASE ~(d.tag = "block" /\ d.ranges # <<>>)
  <2>1. s = d.lo  BY <1>3, <1>7 DEF StartAt, TrueStart
  <2>2. e = IF d.rel THEN d.lo + d.hi ELSE d.hi  BY <1>3, <1>7 DEF EndAt, TrueEnd
  <2>3. d.lo \in Nat /\ d.hi \in Nat
    <3>1. d.tag = "subprogram" \/ d.ranges = <<>>  BY <1>7 DEF ScopeTag
    <3> QED  BY <1>2, <3>1 DEF Extents
  <2>4. CASE d.rel
    <3>1. d.hi < d.lo  BY <1>5, <1>7, <2>4
    <3>2. HighAddr(d.lo, d.hi) = d.hi + d.lo  BY <3>1 DEF HighAddr
    <3> QED  BY <1>3, <1>7, <2>1, <2>2, <2>3, <2>4, <3>2
  <2>5. CASE ~d.rel  BY <1>3, <1>4, <1>7, <2>1, <2>2, <2>5
  <2> QED  BY <2>4, <2>5
<1> QED  BY <1>6, <1>7

\* The rows of the scopes that proc_func() and proc_block() store.
LEMMA ScopeRowStored ==
  ASSUME TypesInv, ScopesInv, ret = "SUCCESS", Regular(prog), phase = "symbols", pos <= Len(Dies),
         ScopeTag(Die), NEW lo, NEW hi,
         IF Die.tag = "block" /\ Die.ranges # <<>>
           THEN /\ lo = cu_base_address + Head(Die.ranges)[1]
                /\ hi = cu_base_address + Last(Die.ranges)[2]
           ELSE lo = Die.lo /\ hi = Die.hi
  PROVE  /\ ScopeRow(lo, hi) \in ScopeRowSet /\ Matches(prog, ScopeRow(lo, hi), cur, pos)
         /\ ScopeRow(lo, hi).parent = stack[prog[cur].dies[pos].lvl]
<1>1. PICK p, c, q, S : p = prog /\ c = cur /\ q = pos /\ S = db.scope  OBVIOUS
<1>2. PICK d : d = p[c].dies[q] /\ d = Die  BY <1>1 DEF Die, Dies
<1>3. Walk(p, c, q)  BY <1>1, AtWalk
<1>4. AtScope(p, S, stack, c, q) /\ (p[c].low # NULL => cu_base_address = p[c].low)
  BY <1>1 DEF ScopesInv, Position
<1>5. ScopeTag(d) /\ Regular(p)  BY <1>1, <1>2
<1>6. lo = StartAt(p, c, q) /\ HighAddr(lo, hi) = EndAt(p, c, q)
  <2>1. CASE d.tag = "block" /\ d.ranges # <<>>
    <3>1. /\ p[c].low # NULL
          /\ StartAt(p, c, q) = p[c].low + Head(d.ranges)[1]
          /\ HighAddr(StartAt(p, c, q), p[c].low + Last(d.ranges)[2]) = EndAt(p, c, q)
      <4>1. d = p[c].dies[q] /\ ScopeTag(p[c].dies[q]) /\ Regular(p)  BY <1>2, <1>5
      <4>2. IF d.tag = "block" /\ d.ranges # <<>>
              THEN /\ p[c].low # NULL
                   /\ StartAt(p, c, q) = p[c].low + Head(d.ranges)[1]
                   /\ HighAddr(StartAt(p, c, q), p[c].low + Last(d.ranges)[2]) = EndAt(p, c, q)
              ELSE StartAt(p, c, q) = d.lo /\ HighAddr(d.lo, d.hi) = EndAt(p, c, q)
        BY ONLY <1>3, <4>1, ExtentFound
      <4> QED  BY <2>1, <4>2
    <3>2. lo = cu_base_address + Head(d.ranges)[1] /\ hi = cu_base_address + Last(d.ranges)[2]
      BY <1>2, <2>1
    <3>3. cu_base_address = p[c].low  BY <1>4, <3>1
    <3> QED  BY <3>1, <3>2, <3>3
  <2>2. CASE ~(d.tag = "block" /\ d.ranges # <<>>)
    <3>1. StartAt(p, c, q) = d.lo /\ HighAddr(d.lo, d.hi) = EndAt(p, c, q)
      BY <1>2, <1>3, <1>5, <2>2, ExtentFound
    <3>2. lo = d.lo /\ hi = d.hi  BY <1>2, <2>2
    <3> QED  BY <3>1, <3>2
  <2> QED  BY <2>1, <2>2
<1>7. /\ ScopeRow(lo, hi) \in ScopeRowSet /\ Matches(p, ScopeRow(lo, hi), c, q)
      /\ ScopeRow(lo, hi).parent = stack[p[c].dies[q].lvl]
  BY <1>1, <1>3, <1>4, <1>5, <1>6, ScopeRowIs
<1> QED  BY <1>1, <1>7

\* A step that fails leaves nothing to show.
LEMMA ScopesFail ==
  ASSUME ret' = "FAILURE"
  PROVE  ScopesInv'
BY DEF ScopesInv

\* proc_func().
LEMMA FunctionScopes ==
  ASSUME TypesInv, ScopesInv, proc_func
  PROVE  ScopesInv'
<1>1. phase = "symbols" /\ pos <= Len(Dies) /\ Die.tag = "subprogram"  BY DEF proc_func, AtTag
<1>2. CASE Rollback  BY <1>2, ScopesFail DEF Rollback
<1>3. CASE ~Die.pc /\ SkipDie
  <2>1. ~ScopeTag(Die)  BY <1>1, <1>3 DEF ScopeTag
  <2>2. /\ pos' = NextSibling /\ UNCHANGED <<walkVars, stack, phase>> /\ db' = db  BY <1>3 DEF SkipDie
  <2> QED  BY <1>1, <2>1, <2>2, KeepScopes
<1>4. CASE ~Rollback /\ ~(~Die.pc /\ SkipDie)
  <2>1. PICK row : row = ScopeRow(Die.lo, Die.hi)  OBVIOUS
  <2>2. PICK d : d = Insert("scope", row)  OBVIOUS
  <2>3. PICK g : g = [scope |-> Len(d.scope), off |-> Die.off]  OBVIOUS
  <2>4. PICK e : e = [d EXCEPT !.function = Append(@, g)]  OBVIOUS
  <2>5. Die.pc /\ Descend(e)  BY <1>4, <2>1, <2>2, <2>3, <2>4 DEF proc_func
  <2>6. ScopeTag(Die)  BY <1>1, <2>5 DEF ScopeTag
  <2>7. ASSUME ret = "SUCCESS", Regular(prog)
        PROVE  /\ row \in ScopeRowSet /\ Matches(prog, row, cur, pos)
               /\ row.parent = stack[prog[cur].dies[pos].lvl]
               /\ {"scope", "function", "statement"} \subseteq DOMAIN e
               /\ e.scope = Append(db.scope, row) /\ e.statement = db.statement
               /\ \E h : e.function = Append(db.function, h) /\ h.scope = Len(e.scope)
    <3>1. {"scope", "function", "statement"} \subseteq DOMAIN db  BY <2>7 DEF ScopesInv, Stored
    <3>2. /\ DOMAIN d = DOMAIN db /\ d.scope = Append(db.scope, row)
          /\ d.statement = db.statement /\ d.function = db.function
      BY <2>2, <3>1 DEF Insert
    <3>3. /\ DOMAIN e = DOMAIN d /\ e.scope = d.scope /\ e.statement = d.statement
          /\ e.function = Append(d.function, g)
      BY <2>4, <3>1, <3>2
    <3>4. g.scope = Len(e.scope)  BY <2>3, <3>3
    <3>5. ~(Die.tag = "block" /\ Die.ranges # <<>>)  BY <1>1
    <3>6. /\ row \in ScopeRowSet /\ Matches(prog, row, cur, pos)
          /\ row.parent = stack[prog[cur].dies[pos].lvl]
      BY <1>1, <2>1, <2>6, <2>7, <3>5, ScopeRowStored
    <3> QED  BY <3>1, <3>2, <3>3, <3>4, <3>6
  <2> QED  BY <1>1, <2>5, <2>6, <2>7, DescendStep
<1> QED  BY <1>2, <1>3, <1>4

\* proc_block().
LEMMA BlockScopes ==
  ASSUME TypesInv, ScopesInv, proc_block
  PROVE  ScopesInv'
<1>1. phase = "symbols" /\ pos <= Len(Dies) /\ Die.tag = "block" /\ ScopeTag(Die)
  BY DEF proc_block, AtTag, ScopeTag
<1>2. PICK lo, hi : /\ Descend(Insert("scope", ScopeRow(lo, hi)))
                    /\ IF Die.ranges # <<>>
                         THEN /\ lo = cu_base_address + Head(Die.ranges)[1]
                              /\ hi = cu_base_address + Last(Die.ranges)[2]
                         ELSE lo = Die.lo /\ hi = Die.hi
  BY DEF proc_block
<1>3. PICK row : row = ScopeRow(lo, hi)  OBVIOUS
<1>4. PICK d : d = Insert("scope", row)  OBVIOUS
<1>5. Descend(d)  BY <1>2, <1>3, <1>4
<1>6. ASSUME ret = "SUCCESS", Regular(prog)
      PROVE  /\ row \in ScopeRowSet /\ Matches(prog, row, cur, pos)
             /\ row.parent = stack[prog[cur].dies[pos].lvl]
             /\ {"scope", "function", "statement"} \subseteq DOMAIN d
             /\ d.scope = Append(db.scope, row) /\ d.statement = db.statement
             /\ d.function = db.function
  <2>1. {"scope", "function", "statement"} \subseteq DOMAIN db  BY <1>6 DEF ScopesInv, Stored
  <2>2. /\ DOMAIN d = DOMAIN db /\ d.scope = Append(db.scope, row)
        /\ d.statement = db.statement /\ d.function = db.function
    BY <1>4, <2>1 DEF Insert
  <2>3. /\ row \in ScopeRowSet /\ Matches(prog, row, cur, pos)
        /\ row.parent = stack[prog[cur].dies[pos].lvl]
    BY <1>1, <1>2, <1>3, <1>6, ScopeRowStored
  <2> QED  BY <2>1, <2>2, <2>3
<1> QED  BY <1>1, <1>5, <1>6, DescendStep

\* The handlers of the other DIEs.
LEMMA OtherScopes ==
  ASSUME TypesInv, ScopesInv,
         proc_base_type \/ proc_custom_type \/ proc_array_type \/ proc_aggr_type \/ proc_var \/ IgnoredDie
  PROVE  ScopesInv'
<1>1. AtTag(TypeTags \cup Ignored \cup {"variable"})
  BY Zenon DEF proc_base_type, proc_custom_type, proc_array_type, proc_aggr_type, proc_var, IgnoredDie, AtTag, TypeTags
<1>2. phase = "symbols" /\ pos <= Len(Dies)  BY <1>1 DEF AtTag
<1>3. ~ScopeTag(Die)
  BY <1>1 DEF AtTag, ScopeTag, TypeTags, Derived, Propagating, Aggregates, Ignored
<1>4. CASE Rollback  BY <1>4, ScopesFail DEF Rollback
<1>5. CASE ~Rollback
  <2>1. pos' = NextSibling /\ UNCHANGED <<walkVars, stack, phase>>
    BY <1>5, Zenon DEF proc_base_type, proc_custom_type, proc_array_type, proc_aggr_type, proc_var, IgnoredDie,
                AddRow, SkipDie
  <2>2. ASSUME {"scope", "function", "statement"} \subseteq DOMAIN db
        PROVE  /\ {"scope", "function", "statement"} \subseteq DOMAIN db'
               /\ db'.scope = db.scope /\ db'.function = db.function /\ db'.statement = db.statement
    <3>1. CASE SkipDie  BY <2>2, <3>1 DEF SkipDie
    <3>2. CASE \E row : AddRow("type", row) \/ AddRow("var", row)  BY <2>2, <3>2 DEF AddRow, Insert
    <3>3. ASSUME ~SkipDie, ~\E row : AddRow("type", row) \/ AddRow("var", row)
          PROVE  \E f, m, v : db' = [db EXCEPT !.type = f, !.member = m] \/ db' = [db EXCEPT !.var = v]
      BY <1>5, <3>3, Zenon DEF proc_base_type, proc_custom_type, proc_array_type, proc_aggr_type, proc_var, IgnoredDie
    <3> QED  BY <2>2, <3>1, <3>2, <3>3, Zenon
  <2> QED  BY <1>2, <1>3, <2>1, <2>2, KeepScopes
<1> QED  BY <1>4, <1>5

-----------------------------------------------------------------------------
(* The steps between units.                                                *)

\* A unit that is skipped, or passed to its last DIE, leaves its scopes in the tables.
LEMMA UnitPassed ==
  ASSUME NEW p, WellFormed(p), NEW c \in Nat, NEW q \in Nat,
         \A i \in DOMAIN p[c].dies : c \in DOMAIN p /\ ScopeAt(p, c, i) => i < q,
         NEW S, NEW G, ScopeTable(p, S, c, q), FunctionTable(p, S, G, c, q)
  PROVE  ScopeTable(p, S, c + 1, 1) /\ FunctionTable(p, S, G, c + 1, 1)
<1>1. p \in Seq(Range(p))  BY DEF WellFormed
<1>2. \A u \in DOMAIN p : u \in Nat  BY <1>1
<1>3. ASSUME NEW u \in DOMAIN p, NEW i \in DOMAIN p[u].dies, ScopeAt(p, u, i)
      PROVE  Before(c, q, u, i) <=> Before(c + 1, 1, u, i)
  <2>1. PICK s : s = p[u].dies /\ s \in Seq(Range(s))  BY DEF WellFormed
  <2>2. i \in Nat \ {0}  BY <2>1
  <2>3. u = c => i < q  BY <1>3
  <2> QED  BY <1>2, <2>2, <2>3 DEF Before
<1>4. ScopeTable(p, S, c + 1, 1)  BY <1>3 DEF ScopeTable
<1>5. FunctionTable(p, S, G, c + 1, 1)  BY <1>3 DEF FunctionTable, FunctionAt
<1> QED  BY <1>4, <1>5

\* The steps of proc_unit() and of dbg_srcinfo() itself.
LEMMA UnitScopes ==
  ASSUME TypesInv, ScopesInv, SkipUnit \/ BeginUnit \/ CommitUnit \/ LastUnit
  PROVE  ScopesInv'
<1>1. prog' = prog /\ ret' = ret  BY DEF SkipUnit, BeginUnit, CommitUnit, LastUnit
<1> SUFFICES ASSUME ret = "SUCCESS", Regular(prog)  PROVE ScopesInv'
  BY <1>1 DEF ScopesInv
<1>2. PICK p, c, q, d : p = prog /\ c = cur /\ q = pos /\ d = db  OBVIOUS
<1>3. p \in Programs /\ c \in Nat \ {0} /\ q \in Nat \ {0}  BY <1>2 DEF TypesInv
<1>4. WellFormed(p) /\ Nested(p)  BY <1>2, <1>3, ProgramsAssumption, NestingAssumption
<1>5. /\ {"scope", "function", "statement"} \subseteq DOMAIN d
      /\ ScopeTable(p, d.scope, c, Done) /\ FunctionTable(p, d.scope, d.function, c, Done)
  BY <1>2 DEF ScopesInv, Stored
<1>6. phase \in {"unit", "symbols"}  BY DEF SkipUnit, BeginUnit, CommitUnit, LastUnit
<1>7. Fresh(d.statement)  BY <1>2, <1>6 DEF ScopesInv, Stage
<1>8. p \in Seq(Range(p))  BY <1>4 DEF WellFormed
<1>9. CASE SkipUnit
  <2>1. phase = "unit" /\ phase' = "unit" /\ db' = d /\ cur' = c + 1 /\ ~Accepted(p[c])
    BY <1>2, <1>9 DEF SkipUnit
  <2>2. ScopeTable(p, d.scope, c, 1) /\ FunctionTable(p, d.scope, d.function, c, 1)  BY <1>5, <2>1 DEF Done
  <2>3. \A i \in DOMAIN p[c].dies : c \in DOMAIN p /\ ScopeAt(p, c, i) => i < 1  BY <2>1 DEF ScopeAt
  <2>4. ScopeTable(p, d.scope, c + 1, 1) /\ FunctionTable(p, d.scope, d.function, c + 1, 1)
    BY <1>3, <1>4, <2>2, <2>3, UnitPassed
  <2>5. Stored(prog, cur, Done, db)'  BY <1>1, <1>2, <1>5, <2>1, <2>4 DEF Stored, Done
  <2>6. Stage(db.scope, db.function, db.statement, phase)'  BY <1>7, <2>1 DEF Stage
  <2> QED  BY <2>1, <2>5, <2>6 DEF ScopesInv
<1>10. CASE BeginUnit
  <2>1. /\ phase = "unit" /\ phase' = "symbols" /\ cur' = c /\ pos' = 1 /\ stack' = <<0>>
        /\ db' = proc_lines(p[c]) /\ Accepted(p[c]) /\ c <= Len(p) /\ cu_base_address' = LowPc(p[c])
    BY <1>2, <1>10 DEF BeginUnit, GLOBAL_SCOPE
  <2>2. ScopeTable(p, d.scope, c, 1) /\ FunctionTable(p, d.scope, d.function, c, 1)  BY <1>5, <2>1 DEF Done
  <2>3. c \in DOMAIN p  BY <1>3, <1>8, <2>1
  <2>4. /\ DOMAIN db' = DOMAIN d /\ db'.scope = d.scope /\ db'.function = d.function
    BY <1>2, <1>5, <2>1, Zenon DEF proc_lines
  <2>5. Fresh(db'.statement)
    <3>1. Fresh(proc_lines(p[c]).statement)  BY <1>2, <1>4, <1>5, <1>7, <2>3, LinesFresh
    <3> QED  BY <2>1, <3>1
  <2>6. AtScope(p, d.scope, stack', c, 1)
    <3>0. PICK e : e = <<0>> /\ e \in Seq(Nat) /\ Len(e) = 1 /\ e[1] = 0
      <4>1. <<0>> \in Seq(Nat) /\ Len(<<0>>) = 1 /\ <<0>>[1] = 0  OBVIOUS
      <4> QED  BY <4>1
    <3>1. PICK w : w = stack' /\ w \in Seq(Nat) /\ Len(w) = 1 /\ w[1] = 0  BY <2>1, <3>0
    <3>2. ASSUME 1 \in DOMAIN p[c].dies  PROVE p[c].dies[1].lvl = 1
      <4>1. Levels(p[c].dies)  BY <1>4, <2>1, <2>3 DEF Nested
      <4> QED  BY <3>2, <4>1 DEF Levels
    <3>3. ASSUME 1 \in DOMAIN p[c].dies
          PROVE  /\ p[c].dies[1].lvl <= Len(w) /\ w[1] = 0 /\ \A l \in 2 .. p[c].dies[1].lvl : FALSE
      BY <3>1, <3>2, <3>3
    <3> QED  BY <3>1, <3>3 DEF AtScope
  <2>7. p[c].low # NULL => cu_base_address' = p[c].low  BY <2>1 DEF LowPc
  <2>8. Stored(prog, cur, Done, db)'  BY <1>1, <1>2, <1>5, <2>1, <2>2, <2>4 DEF Stored, Done
  <2>9. Position(prog, cur, pos, db.scope, stack, cu_base_address)'
    BY <1>1, <1>2, <2>1, <2>4, <2>6, <2>7 DEF Position
  <2>10. Stage(db.scope, db.function, db.statement, phase)'  BY <2>1, <2>5 DEF Stage
  <2> QED  BY <2>1, <2>8, <2>9, <2>10 DEF ScopesInv
<1>11. CASE CommitUnit
  <2>1. phase = "symbols" /\ phase' = "unit" /\ db' = d /\ cur' = c + 1 /\ q > Len(p[c].dies)
    BY <1>2, <1>11 DEF CommitUnit, Dies
  <2>2. ScopeTable(p, d.scope, c, q) /\ FunctionTable(p, d.scope, d.function, c, q)  BY <1>2, <1>5, <2>1 DEF Done
  <2>3. \A i \in DOMAIN p[c].dies : c \in DOMAIN p /\ ScopeAt(p, c, i) => i < q
    <3> SUFFICES ASSUME NEW i \in DOMAIN p[c].dies, c \in DOMAIN p  PROVE i < q
      OBVIOUS
    <3>1. PICK s : s = p[c].dies /\ s \in Seq(Range(s))  BY <1>4 DEF WellFormed
    <3>2. i <= Len(s) /\ Len(s) \in Nat /\ i \in Nat  BY <3>1
    <3> QED  BY <1>3, <2>1, <3>1, <3>2
  <2>4. ScopeTable(p, d.scope, c + 1, 1) /\ FunctionTable(p, d.scope, d.function, c + 1, 1)
    BY <1>3, <1>4, <2>2, <2>3, UnitPassed
  <2>5. Stored(prog, cur, Done, db)'  BY <1>1, <1>2, <1>5, <2>1, <2>4 DEF Stored, Done
  <2>6. Stage(db.scope, db.function, db.statement, phase)'  BY <1>7, <2>1 DEF Stage
  <2> QED  BY <2>1, <2>5, <2>6 DEF ScopesInv
<1>12. CASE LastUnit
  <2>1. phase = "unit" /\ phase' = "scopes" /\ db' = d /\ cur' = c /\ c > Len(p)
    BY <1>2, <1>12 DEF LastUnit
  <2>2. Stored(prog, cur, Done, db)'  BY <1>1, <1>2, <1>5, <2>1 DEF Stored, Done
  <2>3. Stage(db.scope, db.function, db.statement, phase)'  BY <1>7, <2>1 DEF Stage
  <2> QED  BY <1>1, <1>2, <2>1, <2>2, <2>3 DEF ScopesInv
<1> QED  BY <1>9, <1>10, <1>11, <1>12

-----------------------------------------------------------------------------
(* The steps of alter_db().                                                *)

\* A set of rows that is not empty has one with the highest value.
LEMMA HighestRow ==
  ASSUME NEW L \in Nat, NEW v \in [1 .. L -> Nat], NEW R, R \subseteq 1 .. L, R # {}
  PROVE  \E k \in R : \A j \in R : v[j] <= v[k]
<1> DEFINE Best(n) == (\E x \in R : x <= n) => \E k \in R : k <= n /\ \A j \in R : j <= n => v[j] <= v[k]
           Q == {n \in 0 .. L : Best(n)}
<1>1. 0 \in Q  OBVIOUS
<1>2. ASSUME NEW n \in 0 .. L - 1, n \in Q  PROVE n + 1 \in Q
  <2>1. n \in Nat /\ n + 1 \in 0 .. L /\ \A x \in R : x \in Nat /\ v[x] \in Nat /\ (x <= n + 1 <=> x <= n \/ x = n + 1)
    OBVIOUS
  <2>2. CASE n + 1 \notin R
    <3>1. \A x \in R : x <= n + 1 <=> x <= n  BY <2>1, <2>2
    <3>2. Best(n)  BY <1>2
    <3>3. Best(n + 1)  BY <3>1, <3>2
    <3> QED  BY <2>1, <3>3
  <2>3. CASE n + 1 \in R /\ ~\E x \in R : x <= n
    <3>1. \A j \in R : j <= n + 1 => j = n + 1  BY <2>1, <2>3
    <3>2. v[n + 1] <= v[n + 1] /\ n + 1 <= n + 1  BY <2>1, <2>3
    <3>3. Best(n + 1)  BY <2>3, <3>1, <3>2
    <3> QED  BY <2>1, <3>3
  <2>4. CASE n + 1 \in R /\ \E x \in R : x <= n
    <3>1. PICK k \in R : k <= n /\ \A j \in R : j <= n => v[j] <= v[k]  BY <1>2, <2>4
    <3>2. v[k] \in Nat /\ v[n + 1] \in Nat /\ k <= n + 1 /\ n + 1 <= n + 1  BY <2>1, <2>4, <3>1
    <3>3. CASE v[n + 1] <= v[k]
      <4>1. \A j \in R : j <= n + 1 => v[j] <= v[k]  BY <2>1, <3>1, <3>3
      <4>2. Best(n + 1)  BY <3>2, <4>1
      <4> QED  BY <2>1, <4>2
    <3>4. CASE ~(v[n + 1] <= v[k])
      <4>1. \A j \in R : j <= n => v[j] \in Nat /\ v[j] <= v[k]  BY <2>1, <3>1
      <4>2. \A j \in R : j <= n => v[j] <= v[n + 1]  BY <3>2, <3>4, <4>1
      <4>3. \A j \in R : j <= n + 1 => v[j] <= v[n + 1]  BY <2>1, <3>2, <4>2
      <4>4. Best(n + 1)  BY <2>4, <3>2, <4>3
      <4> QED  BY <2>1, <4>4
    <3> QED  BY <3>3, <3>4
  <2> QED  BY <2>2, <2>3, <2>4
<1> HIDE DEF Q
<1>3. 0 .. L \subseteq Q  BY <1>1, <1>2, InductionUpTo
<1>4. Best(L)
  <2>1. L \in Q  BY <1>3
  <2> HIDE DEF Best
  <2> QED  BY <2>1 DEF Q
<1>5. \A x \in R : x <= L  OBVIOUS
<1> QED  BY <1>4, <1>5

\* The scope the subquery finds for an address.
LEMMA ScopeOfIs ==
  ASSUME NEW S, S = db.scope, S \in Seq(ScopeRowSet), NEW a, NEW k \in ScopeOf(a)
  PROVE  /\ k \in Int
         /\ IF k = NULL THEN \A r \in DOMAIN S : ~Covers(S[r], a)
            ELSE /\ k \in DOMAIN S /\ Covers(S[k], a)
                 /\ \A r \in DOMAIN S : Covers(S[r], a) => S[r].depth <= S[k].depth
<1>1. PICK L \in Nat : DOMAIN S = 1 .. L /\ L = Len(S)  OBVIOUS
<1>2. \A r \in 1 .. L : S[r].depth \in Nat
  <2>1. \A r \in 1 .. L : S[r] \in ScopeRowSet  BY <1>1
  <2> QED  BY <2>1 DEF ScopeRowSet
<1>3. CASE Innermost(a) = {}
  <2>1. k = NULL  BY <1>3 DEF ScopeOf, OrNull
  <2>2. PICK R : R = Scopes(a)  OBVIOUS
  <2>3. R = {r \in 1 .. L : Covers(S[r], a)}  BY <1>1, <2>2 DEF Scopes
  <2>4. R = {}
    <3> SUFFICES ASSUME R # {}  PROVE FALSE
      OBVIOUS
    <3>1. PICK v : v = [r \in 1 .. L |-> S[r].depth]  OBVIOUS
    <3>2. v \in [1 .. L -> Nat] /\ R \subseteq 1 .. L  BY <1>2, <2>3, <3>1
    <3>3. PICK m \in R : \A j \in R : v[j] <= v[m]  BY <3>2, HighestRow
    <3>4. \A j \in R : S[j].depth <= S[m].depth  BY <3>1, <3>2, <3>3
    <3>5. m \in Innermost(a)  BY <2>2, <3>4 DEF Innermost
    <3> QED  BY <1>3, <3>5
  <2> QED  BY <1>1, <2>1, <2>3, <2>4 DEF NULL
<1>4. CASE Innermost(a) # {}
  <2>1. k \in Innermost(a)  BY <1>4 DEF ScopeOf, OrNull
  <2>2. k \in DOMAIN S /\ Covers(S[k], a)  BY <2>1 DEF Innermost, Scopes
  <2>3. \A r \in DOMAIN S : Covers(S[r], a) => S[r].depth <= S[k].depth  BY <2>1 DEF Innermost, Scopes
  <2>4. k \in Int /\ k # NULL  BY <1>1, <2>2 DEF NULL
  <2> QED  BY <2>2, <2>3, <2>4
<1> QED  BY <1>3, <1>4

\* The function the subquery finds for an address.
LEMMA FunctionOfIs ==
  ASSUME NEW S, S = db.scope, NEW G, G = db.function, NEW E, G \in Seq(E), NEW a, NEW k \in FunctionOf(a)
  PROVE  /\ k \in Int
         /\ IF k = NULL THEN \A f \in DOMAIN G : ~Covers(S[G[f].scope], a)
            ELSE k \in DOMAIN G /\ Covers(S[G[k].scope], a)
<1>1. \A f \in DOMAIN G : f \in Nat  OBVIOUS
<1>2. CASE Functions(a) = {}
  <2>1. k = NULL  BY <1>2 DEF FunctionOf, OrNull
  <2> QED  BY <1>2, <2>1 DEF Functions, NULL
<1>3. CASE Functions(a) # {}
  <2>1. k \in Functions(a)  BY <1>3 DEF FunctionOf, OrNull
  <2>2. k \in DOMAIN G /\ Covers(S[G[k].scope], a)  BY <2>1 DEF Functions
  <2>3. k \in Int /\ k # NULL  BY <1>1, <2>2 DEF NULL
  <2> QED  BY <2>2, <2>3
<1> QED  BY <1>2, <1>3

\* A step of alter_db() on the statements, from the scopes and functions collected.
LEMMA StatementsAltered ==
  ASSUME TypesInv, ScopesInv, ret = "SUCCESS", Regular(prog),
         NEW from \in {"scopes", "functions", "flags"}, NEW to \in {"functions", "flags", "types"},
         NEW stmts, AlterStep(from, to, [db EXCEPT !.statement = stmts]),
         Stage(db.scope, db.function, stmts, to)
  PROVE  ScopesInv'
<1>1. /\ phase = from /\ phase' = to /\ prog' = prog /\ cur' = cur /\ pos' = pos /\ ret' = ret
      /\ db' = [db EXCEPT !.statement = stmts]
  BY DEF AlterStep, walkVars
<1>2. {"scope", "function", "statement"} \subseteq DOMAIN db  BY DEF ScopesInv, Stored
<1>3. /\ DOMAIN db' = DOMAIN db /\ db'.scope = db.scope /\ db'.function = db.function /\ db'.statement = stmts
  BY <1>1, <1>2
<1>4. Done' = 1 /\ Done = 1  BY <1>1 DEF Done
<1>5. Stored(prog, cur, 1, db)  BY <1>4 DEF ScopesInv
<1>6. Stored(prog, cur, Done, db)'  BY <1>1, <1>2, <1>3, <1>4, <1>5 DEF Stored
<1>7. Stage(db.scope, db.function, db.statement, phase)'  BY <1>1, <1>3
<1>8. cur > Len(prog)  BY <1>1 DEF ScopesInv
<1> QED  BY <1>1, <1>6, <1>7, <1>8 DEF ScopesInv

\* The rows of new statements.
LEMMA FreshStatements ==
  ASSUME NEW st, Fresh(st)
  PROVE  Statements(st) /\ \A i \in DOMAIN st : FreshRow(st[i])
<1>1. PICK T : st \in Seq(T) /\ \A s \in T : FreshRow(s)  BY DEF Fresh
<1>2. Len(st) \in Nat /\ DOMAIN st = 1 .. Len(st) /\ \A i \in DOMAIN st : st[i] \in T  BY <1>1
<1> QED  BY <1>1, <1>2 DEF Statements, FreshRow

\* The scopes of the statements.
LEMMA ScopesSet ==
  ASSUME TypesInv, ScopesInv, SetScopes
  PROVE  ScopesInv'
<1>1. phase = "scopes" /\ prog' = prog /\ ret' = ret  BY DEF SetScopes, AlterStep, walkVars
<1> SUFFICES ASSUME ret = "SUCCESS", Regular(prog)  PROVE ScopesInv'
  BY <1>1 DEF ScopesInv
<1>2. PICK S, G, st : S = db.scope /\ G = db.function /\ st = db.statement  OBVIOUS
<1>3. Statements(st) /\ \A i \in DOMAIN st : FreshRow(st[i])
  <2>1. Fresh(st)  BY <1>1, <1>2 DEF ScopesInv, Stage
  <2> QED  BY <2>1, FreshStatements
<1>4. S \in Seq(ScopeRowSet)  BY <1>2 DEF ScopesInv, Stored, ScopeTable
<1>5. PICK N \in Nat : N = Len(st) /\ DOMAIN st = 1 .. N  BY <1>3, Zenon DEF Statements
<1>6. PICK Q : Q = [i \in 1 .. N |-> ScopeOf(st[i].addr)]  OBVIOUS
<1>7. PICK f \in Assignments(Q) :
        AlterStep("scopes", "functions", [db EXCEPT !.statement = [i \in 1 .. N |-> [st[i] EXCEPT !.scope = f[i]]]])
  BY <1>2, <1>5, <1>6 DEF SetScopes
<1>8. Q \in [1 .. N -> SUBSET Int]
  <2>1. \A i \in 1 .. N : ScopeOf(st[i].addr) \in SUBSET Int  BY <1>2, <1>4, ScopeOfIs
  <2> QED  BY <1>6, <2>1
<1>9. f \in [1 .. N -> Int] /\ \A i \in 1 .. N : f[i] \in Q[i]  BY <1>8, AssignmentsFacts
<1>10. PICK new : new = [i \in 1 .. N |-> [st[i] EXCEPT !.scope = f[i]]]  OBVIOUS
<1>11. DOMAIN new = 1 .. N /\ Len(new) = N
  <2>1. \A i \in 1 .. N : new[i] \in {new[j] : j \in 1 .. N}  OBVIOUS
  <2>2. PICK T : T = {new[j] : j \in 1 .. N}  OBVIOUS
  <2>3. DOMAIN new = 1 .. N  BY <1>10
  <2>4. new \in [1 .. N -> T]  BY <1>10, <2>2, <2>3
  <2>5. new \in Seq(T)  BY <2>4
  <2> QED  BY <2>3, <2>5
<1>12. ASSUME NEW i \in 1 .. N
       PROVE  StatementRow(new[i]) /\ new[i].flag = NULL /\ PlacedIn(S, new[i])
  <2>1. PICK s, k : s = st[i] /\ k = f[i] /\ new[i] = [s EXCEPT !.scope = k]  BY <1>10
  <2>2. FreshRow(s)  BY <1>3, <1>5, <2>1
  <2>3. /\ new[i].addr = s.addr /\ new[i].flag = s.flag /\ new[i].scope = k /\ DOMAIN new[i] = DOMAIN s
    BY <2>1, <2>2 DEF FreshRow, StatementRow
  <2>4. k \in ScopeOf(s.addr)  BY <1>6, <1>9, <2>1
  <2>5. PICK a : a = s.addr  OBVIOUS
  <2>6. IF k = NULL THEN \A r \in DOMAIN S : ~Covers(S[r], a)
        ELSE /\ k \in DOMAIN S /\ Covers(S[k], a)
             /\ \A r \in DOMAIN S : Covers(S[r], a) => S[r].depth <= S[k].depth
    BY <1>2, <1>4, <2>4, <2>5, ScopeOfIs
  <2>7. PlacedIn(S, new[i])  BY <2>3, <2>5, <2>6 DEF PlacedIn
  <2>8. StatementRow(new[i])  BY <2>2, <2>3 DEF FreshRow, StatementRow
  <2>9. new[i].flag = NULL  BY <2>2, <2>3 DEF FreshRow
  <2> QED  BY <2>7, <2>8, <2>9
<1>13. Stage(S, G, new, "functions")
  <2>1. Statements(new)  BY <1>11, <1>12 DEF Statements
  <2> QED  BY <1>11, <1>12, <2>1 DEF Stage
<1>14. AlterStep("scopes", "functions", [db EXCEPT !.statement = new])  BY <1>7, <1>10
<1> QED  BY <1>2, <1>13, <1>14, StatementsAltered

\* The functions of the statements.
LEMMA FunctionsSet ==
  ASSUME TypesInv, ScopesInv, SetFunctions
  PROVE  ScopesInv'
<1>1. phase = "functions" /\ prog' = prog /\ ret' = ret  BY DEF SetFunctions, AlterStep, walkVars
<1> SUFFICES ASSUME ret = "SUCCESS", Regular(prog)  PROVE ScopesInv'
  BY <1>1 DEF ScopesInv
<1>2. PICK S, G, st : S = db.scope /\ G = db.function /\ st = db.statement  OBVIOUS
<1>3. Statements(st) /\ \A i \in DOMAIN st : PlacedIn(S, st[i]) /\ st[i].flag = NULL
  BY <1>1, <1>2 DEF ScopesInv, Stage
<1>4. PICK E : G \in Seq(E)  BY <1>2 DEF ScopesInv, Stored, FunctionTable
<1>5. PICK N \in Nat : N = Len(st) /\ DOMAIN st = 1 .. N  BY <1>3, Zenon DEF Statements
<1>6. PICK Q : Q = [i \in 1 .. N |-> FunctionOf(st[i].addr)]  OBVIOUS
<1>7. PICK f \in Assignments(Q) :
        AlterStep("functions", "flags", [db EXCEPT !.statement = [i \in 1 .. N |-> [st[i] EXCEPT !.func = f[i]]]])
  BY <1>2, <1>5, <1>6 DEF SetFunctions
<1>8. Q \in [1 .. N -> SUBSET Int]
  <2>1. \A i \in 1 .. N : FunctionOf(st[i].addr) \in SUBSET Int  BY <1>2, <1>4, FunctionOfIs
  <2> QED  BY <1>6, <2>1
<1>9. f \in [1 .. N -> Int] /\ \A i \in 1 .. N : f[i] \in Q[i]  BY <1>8, AssignmentsFacts
<1>10. PICK new : new = [i \in 1 .. N |-> [st[i] EXCEPT !.func = f[i]]]  OBVIOUS
<1>11. DOMAIN new = 1 .. N /\ Len(new) = N
  <2>1. \A i \in 1 .. N : new[i] \in {new[j] : j \in 1 .. N}  OBVIOUS
  <2>2. PICK T : T = {new[j] : j \in 1 .. N}  OBVIOUS
  <2>3. DOMAIN new = 1 .. N  BY <1>10
  <2>4. new \in [1 .. N -> T]  BY <1>10, <2>2, <2>3
  <2>5. new \in Seq(T)  BY <2>4
  <2> QED  BY <2>3, <2>5
<1>12. ASSUME NEW i \in 1 .. N
       PROVE  StatementRow(new[i]) /\ new[i].flag = NULL /\ PlacedIn(S, new[i]) /\ CalledIn(S, G, new[i])
  <2>1. PICK s, k : s = st[i] /\ k = f[i] /\ new[i] = [s EXCEPT !.func = k]  BY <1>10
  <2>2. StatementRow(s) /\ PlacedIn(S, s) /\ s.flag = NULL  BY <1>3, <1>5, <2>1 DEF Statements
  <2>3. /\ new[i].addr = s.addr /\ new[i].flag = s.flag /\ new[i].scope = s.scope /\ new[i].func = k
        /\ DOMAIN new[i] = DOMAIN s
    BY <2>1, <2>2 DEF StatementRow
  <2>4. k \in FunctionOf(s.addr)  BY <1>6, <1>9, <2>1
  <2>5. PICK a : a = s.addr  OBVIOUS
  <2>6. IF k = NULL THEN \A h \in DOMAIN G : ~Covers(S[G[h].scope], a)
        ELSE k \in DOMAIN G /\ Covers(S[G[k].scope], a)
    BY <1>2, <1>4, <2>4, <2>5, FunctionOfIs
  <2>7. CalledIn(S, G, new[i])  BY <2>3, <2>5, <2>6 DEF CalledIn
  <2>8. PlacedIn(S, new[i])  BY <2>2, <2>3 DEF PlacedIn
  <2>9. StatementRow(new[i]) /\ new[i].flag = NULL  BY <2>2, <2>3 DEF StatementRow
  <2> QED  BY <2>7, <2>8, <2>9
<1>13. Stage(S, G, new, "flags")
  <2>1. Statements(new)  BY <1>11, <1>12 DEF Statements
  <2> QED  BY <1>11, <1>12, <2>1 DEF Stage
<1>14. AlterStep("functions", "flags", [db EXCEPT !.statement = new])  BY <1>7, <1>10
<1> QED  BY <1>2, <1>13, <1>14, StatementsAltered

\* The marks: ends has one of the last rows of each function, and only such rows.
EndsOf(marked, ends) ==
  /\ \A i \in ends : i \in DOMAIN marked /\ i \in EndRows(marked, marked[i].func)
  /\ \A i \in DOMAIN marked :
       LET rows == EndRows(marked, marked[i].func)
       IN  rows # {} => Cardinality(rows \cap ends) = 1

\* A step from the rows st to the rows new, over the rows with the starts marked.
Marking(S, G, st, marked, ends, new) ==
  /\ Statements(st)
  /\ \A i \in DOMAIN st : PlacedIn(S, st[i]) /\ CalledIn(S, G, st[i]) /\ st[i].flag = NULL
  /\ DOMAIN marked = DOMAIN st
  /\ \A i \in DOMAIN st : marked[i] = IF Opens(S, G, st[i].addr) THEN [st[i] EXCEPT !.flag = 1] ELSE st[i]
  /\ EndsOf(marked, ends)
  /\ new = [i \in DOMAIN st |-> new[i]]
  /\ \A i \in DOMAIN st : new[i] = IF i \in ends THEN [marked[i] EXCEPT !.flag = 2] ELSE marked[i]

\* One row of each function that has rows beside its start is its end.
LEMMA FlagsMarked ==
  ASSUME NEW S, NEW G, NEW st, NEW marked, NEW ends, NEW new, Marking(S, G, st, marked, ends, new)
  PROVE  Stage(S, G, new, "types")
<1>1. PICK N \in Nat : N = Len(st) /\ DOMAIN st = 1 .. N  BY DEF Marking, Statements
<1>2. DOMAIN new = 1 .. N /\ Len(new) = N
  <2>1. PICK T : T = {new[j] : j \in 1 .. N}  OBVIOUS
  <2>2. DOMAIN new = 1 .. N /\ new = [i \in 1 .. N |-> new[i]]  BY <1>1 DEF Marking
  <2>3. new \in [1 .. N -> T]  BY <2>1, <2>2
  <2>4. new \in Seq(T)  BY ONLY N \in Nat, <2>3
  <2> QED  BY <2>2, <2>4
<1>3. ASSUME NEW i \in 1 .. N
      PROVE  /\ DOMAIN marked[i] = DOMAIN st[i] /\ marked[i].addr = st[i].addr
             /\ marked[i].scope = st[i].scope /\ marked[i].func = st[i].func
             /\ marked[i].flag = IF Opens(S, G, st[i].addr) THEN 1 ELSE NULL
  <2>1. PICK s : s = st[i] /\ StatementRow(s) /\ s.flag = NULL  BY <1>1 DEF Marking, Statements
  <2>2. marked[i] = IF Opens(S, G, s.addr) THEN [s EXCEPT !.flag = 1] ELSE s  BY <1>1, <2>1 DEF Marking
  <2>3. CASE Opens(S, G, s.addr)
    <3>1. marked[i] = [s EXCEPT !.flag = 1]  BY <2>2, <2>3
    <3> QED  BY <2>1, <2>3, <3>1 DEF StatementRow
  <2>4. CASE ~Opens(S, G, s.addr)
    <3>1. marked[i] = s  BY <2>2, <2>4
    <3> QED  BY <2>1, <2>4, <3>1
  <2> QED  BY <2>3, <2>4
<1>4. ASSUME NEW i \in 1 .. N
      PROVE  /\ DOMAIN new[i] = DOMAIN st[i] /\ new[i].addr = st[i].addr
             /\ new[i].scope = st[i].scope /\ new[i].func = st[i].func
             /\ new[i].flag = IF i \in ends THEN 2 ELSE marked[i].flag
  <2>1. PICK m : m = marked[i]  OBVIOUS
  <2>2. new[i] = IF i \in ends THEN [m EXCEPT !.flag = 2] ELSE m  BY <1>1, <2>1 DEF Marking
  <2>3. StatementRow(st[i])  BY <1>1 DEF Marking, Statements
  <2>4. {"addr", "scope", "func", "flag"} \subseteq DOMAIN m  BY <1>3, <2>1, <2>3 DEF StatementRow
  <2>5. CASE i \in ends
    <3>1. new[i] = [m EXCEPT !.flag = 2]  BY <2>2, <2>5
    <3> QED  BY <1>3, <2>1, <2>4, <2>5, <3>1
  <2>6. CASE i \notin ends
    <3>1. new[i] = m  BY <2>2, <2>6
    <3> QED  BY <1>3, <2>1, <2>6, <3>1
  <2> QED  BY <2>5, <2>6
<1> DEFINE Open(f) == {i \in 1 .. N : marked[i].flag = NULL /\ marked[i].func = f /\ marked[i].scope # NULL}
<1>5. ASSUME NEW f
      PROVE  /\ EndRows(marked, f) = {i \in Open(f) : \A j \in Open(f) : marked[j].addr <= marked[i].addr}
             /\ Open(f) = BodyOf(S, G, new, f)
  <2>1. EndRows(marked, f) = {i \in Open(f) : \A j \in Open(f) : marked[j].addr <= marked[i].addr}
    BY <1>1 DEF EndRows, Marking
  <2>2. \A i \in 1 .. N : /\ marked[i].flag = NULL <=> ~Opens(S, G, new[i].addr)
                          /\ marked[i].func = new[i].func /\ marked[i].scope = new[i].scope
    BY <1>3, <1>4 DEF NULL
  <2>3. Open(f) = BodyOf(S, G, new, f)  BY <1>2, <2>2 DEF BodyOf
  <2> QED  BY <2>1, <2>3
<1>6. \A i \in ends : i \in 1 .. N /\ i \in EndRows(marked, marked[i].func)  BY <1>1 DEF EndsOf, Marking
<1>7. ASSUME NEW i \in 1 .. N  PROVE new[i].flag = 1 <=> Opens(S, G, new[i].addr)
  <2>1. CASE i \in ends
    <3>1. i \in Open(marked[i].func)  BY <1>5, <1>6, <2>1
    <3> QED  BY <1>3, <1>4, <2>1, <3>1 DEF NULL
  <2>2. CASE i \notin ends  BY <1>3, <1>4, <2>2 DEF NULL
  <2> QED  BY <2>1, <2>2
<1>8. ASSUME NEW f, NEW body, body = BodyOf(S, G, new, f), body # {}
      PROVE  \E e \in DOMAIN new : EndOf(new, body, e)
  <2>1. body = Open(f) /\ body \subseteq 1 .. N  BY <1>5, <1>8
  <2>2. PICK rows : rows = EndRows(marked, f)  OBVIOUS
  <2>3. rows = {i \in body : \A j \in body : marked[j].addr <= marked[i].addr}  BY <1>5, <2>1, <2>2
  <2>4. rows # {}
    <3>1. PICK v : v = [i \in 1 .. N |-> marked[i].addr]  OBVIOUS
    <3>2. \A i \in 1 .. N : marked[i].addr \in Nat  BY <1>1, <1>3 DEF Marking, Statements, StatementRow
    <3>3. v \in [1 .. N -> Nat]  BY <3>1, <3>2
    <3>4. PICK k \in body : \A j \in body : v[j] <= v[k]  BY <1>8, <2>1, <3>3, HighestRow
    <3>5. \A j \in body : marked[j].addr <= marked[k].addr  BY <2>1, <3>1, <3>4
    <3> QED  BY <2>3, <3>5
  <2>5. PICK x \in body : TRUE  BY <1>8
  <2>6. x \in 1 .. N /\ marked[x].func = f  BY <2>1, <2>5
  <2>7. Cardinality(rows \cap ends) = 1  BY <1>1, <2>2, <2>4, <2>6 DEF EndsOf, Marking
  <2>8. PICK e : rows \cap ends = {e}
    <3>1. IsFiniteSet(1 .. N)  BY FS_Interval
    <3>2. rows \cap ends \subseteq 1 .. N  BY <2>1, <2>3
    <3>3. IsFiniteSet(rows \cap ends)  BY <3>1, <3>2, FS_Subset
    <3> QED  BY <2>7, <3>3, FS_Singleton
  <2>9. e \in rows /\ e \in ends /\ e \in body /\ e \in 1 .. N  BY <2>1, <2>3, <2>8
  <2>10. new[e].flag = 2  BY <1>4, <2>9
  <2>11. ASSUME NEW j \in body  PROVE new[j].addr <= new[e].addr /\ (new[j].flag = 2 => j = e)
    <3>1. j \in 1 .. N /\ marked[j].flag = NULL /\ marked[j].func = f  BY <2>1
    <3>2. new[j].addr <= new[e].addr  BY <1>3, <1>4, <2>3, <2>9, <3>1
    <3>3. ASSUME new[j].flag = 2  PROVE j = e
      <4>1. j \in ends  BY <1>4, <3>1, <3>3 DEF NULL
      <4>2. j \in rows  BY <1>6, <2>2, <3>1, <4>1
      <4> QED  BY <2>8, <4>1, <4>2
    <3> QED  BY <3>2, <3>3
  <2> QED  BY <1>2, <2>9, <2>10, <2>11 DEF EndOf
<1>9. FlagsSet(S, G, new)  BY <1>2, <1>7, <1>8 DEF FlagsSet
<1>10. ASSUME NEW i \in 1 .. N  PROVE StatementRow(new[i]) /\ PlacedIn(S, new[i]) /\ CalledIn(S, G, new[i])
  <2>1. StatementRow(st[i]) /\ PlacedIn(S, st[i]) /\ CalledIn(S, G, st[i])  BY <1>1 DEF Marking, Statements
  <2>2. StatementRow(new[i])  BY <1>4, <2>1 DEF StatementRow
  <2>3. PlacedIn(S, new[i])  BY <1>4, <2>1 DEF PlacedIn
  <2>4. CalledIn(S, G, new[i])  BY <1>4, <2>1 DEF CalledIn
  <2> QED  BY <2>2, <2>3, <2>4
<1>11. Statements(new)  BY <1>2, <1>10 DEF Statements
<1> QED  BY <1>2, <1>9, <1>10, <1>11 DEF Stage

\* The marks of the statements.
LEMMA FlagsStep ==
  ASSUME TypesInv, ScopesInv, SetFlags
  PROVE  ScopesInv'
<1>1. phase = "flags" /\ prog' = prog /\ ret' = ret  BY DEF SetFlags, AlterStep, walkVars
<1> SUFFICES ASSUME ret = "SUCCESS", Regular(prog)  PROVE ScopesInv'
  BY <1>1 DEF ScopesInv
<1>2. PICK S, G, st : S = db.scope /\ G = db.function /\ st = db.statement  OBVIOUS
<1>3. /\ Statements(st)
      /\ \A i \in DOMAIN st : PlacedIn(S, st[i]) /\ CalledIn(S, G, st[i]) /\ st[i].flag = NULL
  BY <1>1, <1>2 DEF ScopesInv, Stage
<1>4. PICK marked : marked = MarkStart(db.statement)  OBVIOUS
<1>5. /\ DOMAIN marked = DOMAIN st
      /\ \A i \in DOMAIN st : marked[i] = IF Opens(S, G, st[i].addr) THEN [st[i] EXCEPT !.flag = 1] ELSE st[i]
  BY <1>2, <1>4 DEF MarkStart, Opens
<1>6. PICK groups : groups = {EndRows(marked, f) : f \in {marked[i].func : i \in DOMAIN marked}} \ {{}}
  OBVIOUS
<1>7. PICK ends, new :
        /\ ends \in SUBSET UNION groups /\ \A g \in groups : Cardinality(g \cap ends) = 1
        /\ AlterStep("flags", "types", [db EXCEPT !.statement = new])
        /\ new = [i \in DOMAIN st |-> new[i]]
        /\ \A i \in DOMAIN st : new[i] = IF i \in ends THEN [marked[i] EXCEPT !.flag = 2] ELSE marked[i]
  <2> DEFINE M == MarkStart(db.statement)
             Gs == {EndRows(M, f) : f \in {M[i].func : i \in DOMAIN M}} \ {{}}
             New(x) == [i \in DOMAIN db.statement |-> IF i \in x THEN [M[i] EXCEPT !.flag = 2] ELSE M[i]]
  <2>1. PICK x \in SUBSET UNION Gs :
          /\ \A g \in Gs : Cardinality(g \cap x) = 1
          /\ AlterStep("flags", "types", [db EXCEPT !.statement = New(x)])
    BY DEF SetFlags
  <2>2. M = marked  BY <1>4
  <2>3. Gs = groups
    <3> HIDE DEF M
    <3> QED  BY <1>6, <2>2
  <2>4. PICK n : n = New(x)  OBVIOUS
  <2>5. /\ n = [i \in DOMAIN st |-> n[i]]
        /\ \A i \in DOMAIN st : n[i] = IF i \in x THEN [marked[i] EXCEPT !.flag = 2] ELSE marked[i]
    <3> HIDE DEF M
    <3> QED  BY <1>2, <2>2, <2>4
  <2> HIDE DEF M, Gs, New
  <2>6. AlterStep("flags", "types", [db EXCEPT !.statement = n])  BY <2>1, <2>4
  <2>7. x \in SUBSET UNION groups /\ \A g \in groups : Cardinality(g \cap x) = 1  BY <2>1, <2>3
  <2> QED  BY <2>5, <2>6, <2>7
<1>8. EndsOf(marked, ends)
  <2>1. ASSUME NEW i \in ends  PROVE i \in DOMAIN marked /\ i \in EndRows(marked, marked[i].func)
    <3>1. PICK f : i \in EndRows(marked, f)  BY <1>6, <1>7
    <3> QED  BY <3>1 DEF EndRows
  <2>2. ASSUME NEW i \in DOMAIN marked, EndRows(marked, marked[i].func) # {}
        PROVE  Cardinality(EndRows(marked, marked[i].func) \cap ends) = 1
    <3>1. EndRows(marked, marked[i].func) \in groups  BY <1>6, <2>2
    <3> QED  BY <1>7, <3>1
  <2> QED  BY <2>1, <2>2 DEF EndsOf
<1>9. Marking(S, G, st, marked, ends, new)  BY <1>3, <1>5, <1>7, <1>8 DEF Marking
<1>10. Stage(S, G, new, "types")  BY <1>9, FlagsMarked
<1> QED  BY <1>2, <1>7, <1>10, StatementsAltered

\* The last steps of alter_db(): they change types and variables only.
LEMMA LastScopes ==
  ASSUME TypesInv, ScopesInv, SetTypes \/ SetVars
  PROVE  ScopesInv'
<1>1. /\ prog' = prog /\ cur' = cur /\ pos' = pos /\ ret' = ret /\ phase \in {"types", "vars"}
      /\ ret = "SUCCESS" => phase' \in {"vars", "ready"}
  BY DEF SetTypes, SetVars, AlterStep, walkVars
<1> SUFFICES ASSUME ret = "SUCCESS", Regular(prog)  PROVE ScopesInv'
  BY <1>1 DEF ScopesInv
<1>2. {"scope", "function", "statement"} \subseteq DOMAIN db  BY DEF ScopesInv, Stored
<1>3. (\E t : db' = [db EXCEPT !.type = t]) \/ (\E v : db' = [db EXCEPT !.var = v])
  BY DEF SetTypes, SetVars, AlterStep
<1>4. /\ DOMAIN db' = DOMAIN db /\ db'.scope = db.scope /\ db'.function = db.function
      /\ db'.statement = db.statement
  BY <1>2, <1>3
<1>5. Done' = 1 /\ Done = 1  BY <1>1 DEF Done
<1>6. Stored(prog, cur, 1, db)  BY <1>5 DEF ScopesInv
<1>7. Stored(prog, cur, Done, db)'  BY <1>1, <1>2, <1>4, <1>5, <1>6 DEF Stored
<1>8. PICK S, G, st, a, b : /\ S = db.scope /\ G = db.function /\ st = db.statement
                            /\ a = phase /\ b = phase' /\ a \in {"types", "vars"} /\ b \in {"vars", "ready"}
  BY <1>1
<1>9. Stage(S, G, st, a)  BY <1>8 DEF ScopesInv
<1>10. Stage(S, G, st, b)  BY <1>8, <1>9 DEF Stage
<1>11. Stage(db.scope, db.function, db.statement, phase)'  BY <1>4, <1>8, <1>10
<1>12. cur > Len(prog)  BY <1>1 DEF ScopesInv
<1> QED  BY <1>1, <1>7, <1>11, <1>12 DEF ScopesInv

\* No step of dbg_srcinfo() breaks what is known of scopes and statements.
LEMMA ScopesNext ==
  ASSUME TypesInv, ScopesInv, dbg_srcinfo
  PROVE  ScopesInv'
<1>1. CASE SkipUnit \/ BeginUnit \/ CommitUnit \/ LastUnit  BY <1>1, UnitScopes
<1>2. CASE proc_func  BY <1>2, FunctionScopes
<1>3. CASE proc_block  BY <1>3, BlockScopes
<1>4. CASE proc_base_type \/ proc_custom_type \/ proc_array_type \/ proc_aggr_type \/ proc_var \/ IgnoredDie
  BY <1>4, OtherScopes
<1>5. CASE UnknownDie \/ UnitError  BY <1>5, ScopesFail DEF UnknownDie, UnitError, Rollback
<1>6. CASE HeaderError \/ AlterError  BY <1>6, ScopesFail DEF HeaderError, AlterError
<1>7. CASE SetScopes  BY <1>7, ScopesSet
<1>8. CASE SetFunctions  BY <1>8, FunctionsSet
<1>9. CASE SetFlags  BY <1>9, FlagsStep
<1>10. CASE SetTypes \/ SetVars  BY <1>10, LastScopes
<1> QED  BY <1>1, <1>2, <1>3, <1>4, <1>5, <1>6, <1>7, <1>8, <1>9, <1>10 DEF dbg_srcinfo

\* The tables are empty before the first unit.
LEMMA ScopesInit == SymInit => ScopesInv
<1> SUFFICES ASSUME SymInit  PROVE ScopesInv
  OBVIOUS
<1>1. /\ prog \in Programs /\ cur = 1 /\ pos = 1 /\ phase = "unit"
      /\ {"scope", "function", "statement"} \subseteq DOMAIN db
      /\ db.scope = << >> /\ db.function = << >> /\ db.statement = << >>
  BY DEF SymInit, EmptyDb
<1>2. PICK e : e = << >> /\ DOMAIN e = {} /\ e \in Seq(ScopeRowSet) /\ e \in Seq({})
  <2>1. << >> \in Seq(ScopeRowSet) /\ << >> \in Seq({}) /\ DOMAIN << >> = {}  OBVIOUS
  <2> QED  BY <2>1
<1>3. PICK p : p = prog /\ p \in Seq(Range(p)) /\ WellFormed(p)
  BY <1>1, ProgramsAssumption DEF WellFormed
<1>4. ASSUME NEW u \in DOMAIN p, NEW i \in DOMAIN p[u].dies  PROVE ~Before(1, 1, u, i)
  <2>1. u \in Nat \ {0}  BY <1>3
  <2>2. PICK s : s = p[u].dies /\ s \in Seq(Range(s))  BY <1>3 DEF WellFormed
  <2>3. i \in Nat \ {0}  BY <2>2
  <2> QED  BY <2>1, <2>3 DEF Before
<1>5. ScopeTable(p, e, 1, 1)  BY <1>2, <1>4 DEF ScopeTable, Forest
<1>6. FunctionTable(p, e, e, 1, 1)  BY <1>2, <1>4 DEF FunctionTable, FunctionAt
<1>7. Stored(prog, cur, Done, db)  BY <1>1, <1>2, <1>3, <1>5, <1>6 DEF Stored, Done
<1>8. Fresh(e)  BY <1>2 DEF Fresh
<1>9. Stage(db.scope, db.function, db.statement, phase)  BY <1>1, <1>2, <1>8 DEF Stage
<1> QED  BY <1>1, <1>7, <1>9 DEF ScopesInv

\* What is known of types, scopes and statements holds in every state.
LEMMA ScopesKnown == Spec => [](TypesInv /\ ScopesInv)
<1>1. Init => TypesInv /\ ScopesInv  BY TypesInit, ScopesInit DEF Init
<1>2. TypesInv /\ ScopesInv /\ [Next]_vars => TypesInv' /\ ScopesInv'
  <2> SUFFICES ASSUME TypesInv, ScopesInv, [Next]_vars  PROVE TypesInv' /\ ScopesInv'
    OBVIOUS
  <2>1. ASSUME prog' = prog, cur' = cur, pos' = pos, db' = db, ret' = ret, stack' = stack,
               cu_base_address' = cu_base_address,
               phase' = phase \/ (phase = "ready" /\ phase' = "recording")
        PROVE  TypesInv' /\ ScopesInv'
    <3>1. TypesInv'  BY <2>1, TypesStutter
    <3>2. CASE phase' = phase
      <4>1. Done' = Done  BY <2>1, <3>2 DEF Done
      <4> QED  BY <2>1, <3>1, <3>2, <4>1 DEF ScopesInv
    <3>3. CASE phase = "ready" /\ phase' = "recording"
      <4>1. Done' = 1 /\ Done = 1  BY <3>3 DEF Done
      <4>2. PICK S, G, st : S = db.scope /\ G = db.function /\ st = db.statement  OBVIOUS
      <4>3. Stage(S, G, st, "ready") => Stage(S, G, st, "recording")  BY DEF Stage
      <4> QED  BY <2>1, <3>1, <3>3, <4>1, <4>2, <4>3 DEF ScopesInv
    <3> QED  BY <2>1, <3>2, <3>3
  <2>2. CASE dbg_srcinfo  BY <2>2, TypesNext, ScopesNext
  <2>3. CASE Start  BY <2>1, <2>3 DEF Start, walkVars
  <2>4. CASE UNCHANGED symVars  BY <2>1, <2>4 DEF symVars
  <2> QED  BY <2>2, <2>3, <2>4 DEF Next, vars
<1> QED  BY <1>1, <1>2, PTL DEF Spec

\* What is known when the debug information is ready.
LEMMA ReadyTables ==
  ASSUME TypesInv, ScopesInv, phase = "ready", Regular(prog)
  PROVE  Ready(prog, db.scope, db.function, cur, db.statement)
<1>1. ret = "SUCCESS" /\ prog \in Programs /\ cur \in Nat  BY DEF TypesInv
<1>2. WellFormed(prog) /\ Nested(prog)  BY <1>1, ProgramsAssumption, NestingAssumption
<1>3. Done = 1  BY DEF Done
<1>4. Stored(prog, cur, 1, db) /\ cur > Len(prog) /\ Stage(db.scope, db.function, db.statement, "ready")
  BY <1>1, <1>3 DEF ScopesInv
<1>5. Collection(prog, db.scope)  BY <1>1, <1>2, <1>4 DEF Collection, Stored
<1> QED  BY <1>1, <1>4, <1>5 DEF Stored, Stage, Ready

\* proc_func(), proc_block() and alter_db() (dbginfo.c:631, db.c:197): where the
\* debug information is regular, the scope of every statement and its ancestors are
\* exactly the functions and blocks of the program around the address of the
\* statement, for every program and however deep its blocks are nested.
THEOREM ScopesAreExact == Spec => []ScopesExact
<1>1. TypesInv /\ ScopesInv => ScopesExact
  <2> SUFFICES ASSUME TypesInv, ScopesInv, phase = "ready", Regular(prog), NEW x \in DOMAIN db.statement,
                      NEW s, s = db.statement[x]
               PROVE  IF s.scope = NULL THEN TrueScopes({"subprogram", "block"}, s.addr) = {}
                      ELSE {Extent(i) : i \in ScopeChain(db.scope, s.scope)} =
                             TrueScopes({"subprogram", "block"}, s.addr)
    BY DEF ScopesExact, Range
  <2>1. PICK p, S, a : p = prog /\ S = db.scope /\ a = s.addr  OBVIOUS
  <2>2. Collection(p, S) /\ PlacedIn(S, s) /\ a \in Nat
    BY <2>1, ReadyTables DEF Ready, Statements, StatementRow
  <2>3. CASE s.scope = NULL
    <3>1. \A r \in DOMAIN S : ~Covers(S[r], a)  BY <2>1, <2>2, <2>3 DEF PlacedIn
    <3> QED  BY <2>1, <2>2, <2>3, <3>1, NowhereExact
  <2>4. CASE s.scope # NULL
    <3>1. PICK k \in DOMAIN S : /\ k = s.scope /\ Covers(S[k], a)
                                /\ \A r \in DOMAIN S : Covers(S[r], a) => S[r].depth <= S[k].depth
      BY <2>1, <2>2, <2>4 DEF PlacedIn
    <3>2. {<<S[i].start, S[i].end>> : i \in ScopeChain(S, k)} = TrueScopes({"subprogram", "block"}, a)
      BY <2>1, <2>2, <3>1, DeepestExact
    <3> QED  BY <2>1, <2>4, <3>1, <3>2 DEF Extent
  <2> QED  BY <2>3, <2>4
<1> QED  BY <1>1, ScopesKnown, PTL

\* alter_db() (db.c:222-248): where the debug information is regular, in every
\* function exactly the statements at its first address are marked as its start and
\* exactly one of the others with the highest address as its end, and the statements
\* of the function are all told to be of one function.
THEOREM FlagsAreExact == Spec => []FlagsExact
<1>1. TypesInv /\ ScopesInv => FlagsExact
  <2> DEFINE Own(f) == {i \in DOMAIN db.statement :
                             f[1] <= db.statement[i].addr /\ db.statement[i].addr < f[2]}
             Ends(f) == {i \in Own(f) : db.statement[i].flag = 2}
             Body(f) == {i \in Own(f) : db.statement[i].addr # f[1]}
  <2> SUFFICES ASSUME TypesInv, ScopesInv, phase = "ready", Regular(prog),
                      NEW f \in UNION {TrueScopes({"subprogram"}, s.addr) : s \in Range(db.statement)}
               PROVE  /\ \A i \in Own(f) : db.statement[i].flag = 1 <=> db.statement[i].addr = f[1]
                      /\ Cardinality({db.statement[i].func : i \in Own(f)}) = 1
                      /\ Body(f) # {} => /\ Cardinality(Ends(f)) = 1
                                         /\ \A i \in Ends(f), j \in Body(f) :
                                              db.statement[j].addr <= db.statement[i].addr
    BY DEF FlagsExact
  <2>0. PICK x \in DOMAIN db.statement : f \in TrueScopes({"subprogram"}, db.statement[x].addr)
    BY DEF Range
  <2>1. PICK p, S, G, c, st, a : /\ p = prog /\ S = db.scope /\ G = db.function /\ c = cur
                                 /\ st = db.statement /\ a = db.statement[x].addr
    OBVIOUS
  <2>2. PICK inside, body : inside = Own(f) /\ body = Body(f)  OBVIOUS
  <2>3. /\ inside = {i \in DOMAIN st : f[1] <= st[i].addr /\ st[i].addr < f[2]}
        /\ body = {i \in inside : st[i].addr # f[1]}
        /\ Ends(f) = {i \in inside : st[i].flag = 2}
    BY <2>1, <2>2
  <2>4. Ready(p, S, G, c, st)  BY <2>1, ReadyTables
  <2>5. f \in TrueScopes({"subprogram"}, a)  BY <2>0, <2>1
  <2>6. /\ \A i \in inside : st[i].flag = 1 <=> st[i].addr = f[1]
        /\ inside # {} => \E g : {st[i].func : i \in inside} = {g}
        /\ body # {} => \E e : {i \in inside : st[i].flag = 2} = {e}
                               /\ \A j \in body : st[j].addr <= st[e].addr
    <3>1. p = prog  BY <2>1
    <3>2. Marks(st, f)  BY <2>4, <2>5, <3>1, MarksExact
    <3>3. inside = InsideOf(st, f) /\ body = BehindStart(st, f)  BY <2>3 DEF InsideOf, BehindStart
    <3> QED  BY <3>2, <3>3 DEF Marks
  <2>7. x \in inside
    <3>1. PICK u \in DOMAIN p : \E i \in DOMAIN p[u].dies :
            f = <<StartAt(p, u, i), EndAt(p, u, i)>> /\ StartAt(p, u, i) <= a /\ a < EndAt(p, u, i)
      BY <2>1, <2>5, TrueScopesAre
    <3>2. PICK lo, hi : f = <<lo, hi>> /\ lo <= a /\ a < hi  BY <3>1
    <3>3. f[1] = lo /\ f[2] = hi  BY <3>2
    <3> QED  BY <2>1, <2>3, <3>2, <3>3
  <2>8. Cardinality({st[i].func : i \in inside}) = 1
    <3>1. PICK g : {st[i].func : i \in inside} = {g}  BY <2>6, <2>7
    <3> QED  BY <3>1, FS_Singleton
  <2>9. ASSUME body # {}
        PROVE  Cardinality(Ends(f)) = 1 /\ \A i \in Ends(f), j \in body : st[j].addr <= st[i].addr
    <3>1. PICK e : Ends(f) = {e} /\ \A j \in body : st[j].addr <= st[e].addr  BY <2>3, <2>6, <2>9
    <3> QED  BY <3>1, FS_Singleton
  <2> HIDE DEF Ends
  <2> QED  BY <2>1, <2>2, <2>6, <2>8, <2>9
<1> QED  BY <1>1, ScopesKnown, PTL
=============================================================================
