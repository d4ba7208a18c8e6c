------------------------------- MODULE Symbols -------------------------------
(***************************************************************************)
(* Collecting the debug information (src/record/dbginfo.c) and deriving    *)
(* what the debugger needs from it (alter_db() in src/record/db.c).        *)
(*                                                                         *)
(* A program is a sequence of compilation units.  A unit has its line      *)
(* table and its debug information entries (DIEs) in the order they are    *)
(* stored, each with its nesting level; the members of an aggregate are    *)
(* part of its entry.  proc_symbols() descends into functions and blocks   *)
(* only, so its recursion is a position in that sequence and a stack of    *)
(* scopes.  The tables are sequences: the position of a row is its rowid,  *)
(* which is its id where the table has one.                                *)
(***************************************************************************)
EXTENDS Integers, Sequences, FiniteSets, SequencesExt, Globals

CONSTANTS
  Programs,       \* the programs that may be recorded
  process_unit,   \* names of white-listed units ({}: no such option)
  ignore_unit     \* names of black-listed units

GLOBAL_SCOPE == 0
NULL == -1
NOKIND == "none"
Propagating == {"const", "volatile", "restrict"}   \* attributes, no TKIND_TYPE part
Derived == Propagating \cup {"alias", "pointer", "func"}
Aggregates == {"struct", "union", "enum"}
Ignored == {"label", "namespace", "unspecified"}
Encodings == {NOKIND, "signed", "unsigned", "float"}
TypeTags == Derived \cup Aggregates \cup {"base", "array"}
Tags == TypeTags \cup Ignored \cup {"subprogram", "block", "variable"}

\* What DWARF says of the entries of types: an offset is the identity of a type,
\* pointers have a size, and qualified types, aliases and functions have none.
TypeDie(d) ==
  /\ d.off \in Nat \ {0}
  /\ d.tag # "array" => d.size \in Nat
  /\ d.tag \in Derived \cup {"array"} => d.type \in Nat
  /\ d.tag = "pointer" => d.size # 0
  /\ d.tag \in Propagating \cup {"alias", "func"} => d.size = 0
  /\ d.tag = "array" => d.bound \in Int
  /\ d.tag = "base" => d.encoding \in Encodings
WellFormed(p) ==
  /\ p \in Seq(Range(p))
  /\ \A u \in DOMAIN p : /\ p[u].dies \in Seq(Range(p[u].dies))
                         /\ \A i \in DOMAIN p[u].dies : p[u].dies[i].tag \in TypeTags => TypeDie(p[u].dies[i])
                         /\ p[u].lines \in Seq(Range(p[u].lines))
                         /\ \A i \in DOMAIN p[u].lines : p[u].lines[i].addr \in Nat
  /\ \A u, v \in DOMAIN p : \A i \in DOMAIN p[u].dies, j \in DOMAIN p[v].dies :
       {p[u].dies[i].tag, p[v].dies[j].tag} \subseteq TypeTags /\ p[u].dies[i].off = p[v].dies[j].off
         => u = v /\ i = j

ASSUME ProgramsAssumption == \A p \in Programs : WellFormed(p)

-----------------------------------------------------------------------------
(* What the program really is *)

\* proc_unit(): the path comes first, then the white list, else the black list.
Accepted(u) ==
  /\ u.inPath
  /\ IF process_unit # {} THEN u.name \in process_unit ELSE u.name \notin ignore_unit

ScopeTag(d) == d.tag = "block" \/ (d.tag = "subprogram" /\ d.pc)
TrueStart(u, d) == IF d.tag = "block" /\ d.ranges # <<>> THEN u.low + Head(d.ranges)[1] ELSE d.lo
TrueEnd(u, d) ==
  IF d.tag = "block" /\ d.ranges # <<>> THEN u.low + Last(d.ranges)[2]
  ELSE IF d.rel THEN d.lo + d.hi ELSE d.hi

\* The debug information the code's guesses are right about: a high address that
\* is an offset is below the low address, ranges are one interval, and a unit
\* that has ranges has a low address.
Regular(p) ==
  \A u \in Range(p) : Accepted(u) => \A i \in DOMAIN u.dies :
    LET d == u.dies[i]
    IN  ScopeTag(d) => IF d.tag = "block" /\ d.ranges # <<>>
                         THEN u.low # NULL /\ Len(d.ranges) = 1
                         ELSE d.rel => d.hi < d.lo

\* What DWARF says of scopes: an entry is below the last one before it with a lower
\* level; scopes are inside scopes only, and within their extent; scopes of one
\* level have no address in common, and neither have functions (C does not nest them).
ScopeAt(p, u, i) == Accepted(p[u]) /\ ScopeTag(p[u].dies[i])
StartAt(p, u, i) == TrueStart(p[u], p[u].dies[i])
EndAt(p, u, i) == TrueEnd(p[u], p[u].dies[i])
UnderDie(dies, i, j) == i < j /\ \A k \in i + 1 .. j : dies[i].lvl < dies[k].lvl
Levels(dies) ==
  \A i \in DOMAIN dies : /\ dies[i].lvl \in Nat \ {0}
                         /\ dies[i].lvl <= IF i = 1 THEN 1 ELSE dies[i - 1].lvl + 1
Extents(p, u, i) ==
  /\ StartAt(p, u, i) \in Nat /\ EndAt(p, u, i) \in Nat /\ StartAt(p, u, i) <= EndAt(p, u, i)
  /\ p[u].dies[i].tag = "subprogram" \/ p[u].dies[i].ranges = <<>> =>
       p[u].dies[i].lo \in Nat /\ p[u].dies[i].hi \in Nat
Apart(p, u, i, v, j) == EndAt(p, u, i) <= StartAt(p, v, j) \/ EndAt(p, v, j) <= StartAt(p, u, i)
SameKind(d, e) == d.lvl = e.lvl \/ {d.tag, e.tag} = {"subprogram"}
Nested(p) ==
  /\ \A u \in DOMAIN p : Accepted(p[u]) =>
       /\ Levels(p[u].dies)
       /\ \A i \in DOMAIN p[u].dies : ScopeAt(p, u, i) => Extents(p, u, i)
       /\ \A i, j \in DOMAIN p[u].dies : UnderDie(p[u].dies, i, j) /\ ScopeAt(p, u, j) =>
            ScopeAt(p, u, i) /\ StartAt(p, u, i) <= StartAt(p, u, j) /\ EndAt(p, u, j) <= EndAt(p, u, i)
  /\ \A u, v \in DOMAIN p : \A i \in DOMAIN p[u].dies, j \in DOMAIN p[v].dies :
       ScopeAt(p, u, i) /\ ScopeAt(p, v, j) /\ SameKind(p[u].dies[i], p[v].dies[j]) /\ (u # v \/ i # j)
         => Apart(p, u, i, v, j)

ASSUME NestingAssumption == \A p \in Programs : Regular(p) => Nested(p)

VARIABLES
  prog,             \* the program
  cur, pos,         \* unit and DIE being processed
  stack,            \* stack[l]: scope of the DIEs at level l
  db,               \* the tables
  saved,            \* the tables at BEGIN
  cu_base_address,  \* static: keeps its value for a unit without DW_AT_low_pc
  phase,            \* "unit", "symbols", the steps of alter_db(), "ready", "failed"
  ret               \* what dbg_srcinfo() will return

symVars == <<prog, cur, pos, stack, db, saved, unit_count, cu_base_address, phase, ret>>
walkVars == <<prog, cur, saved, unit_count, cu_base_address, ret>>

TypeRow(u, d, size, dim, parent, kind, attrs) ==
  [unit |-> u, off |-> d.off, size |-> size, dim |-> dim, parent |-> parent,
   kind |-> kind, attrs |-> attrs, indirect |-> 0]
EmptyDb == [file |-> <<>>, statement |-> <<>>, scope |-> <<>>, function |-> <<>>,
            type |-> <<>>, member |-> <<>>, var |-> <<>>]

Insert(t, row) == [db EXCEPT ![t] = Append(@, row)]
Dies == prog[cur].dies
Die == Dies[pos]

\* dwarf_siblingof(): the next DIE that is not below this one.
NextSibling ==
  LET after == {i \in pos + 1 .. Len(Dies) : Dies[i].lvl <= Die.lvl}
  IN  IF after = {} THEN Len(Dies) + 1 ELSE CHOOSE i \in after : \A j \in after : i <= j

SymInit ==
  /\ prog \in Programs
  /\ cur = 1 /\ pos = 1 /\ stack = <<>>
  /\ db = EmptyDb /\ saved = EmptyDb
  /\ unit_count = 0 /\ cu_base_address = 0
  /\ phase = "unit" /\ ret = "SUCCESS"

-----------------------------------------------------------------------------
(* proc_unit() and proc_lines() *)

\* The files in the accepted path get a row with their number in the unit, and
\* the lines of those files that begin a statement get a row each.
FileRows(u) == SelectSeq([i \in DOMAIN u.files |-> [unit |-> cur, seq |-> i, inPath |-> u.files[i]]],
                         LAMBDA f : f.inPath)
FileId(files, u, seq) ==
  LET ids == {i \in DOMAIN files : files[i].unit = u /\ files[i].seq = seq}
  IN  IF ids = {} THEN 0 ELSE CHOOSE i \in ids : TRUE
proc_lines(u) ==
  LET files == db.file \o FileRows(u)
      kept(l) == l.is_stmt /\ ~l.end /\ FileId(files, cur, l.file) # 0
      row(l) == [file |-> FileId(files, cur, l.file), line |-> l.line, addr |-> l.addr,
                 scope |-> NULL, func |-> NULL, flag |-> NULL]
      stored[n \in 0 .. Len(u.lines)] ==
        IF n = 0 THEN db.statement
        ELSE IF kept(u.lines[n]) THEN Append(stored[n - 1], row(u.lines[n])) ELSE stored[n - 1]
  IN  [db EXCEPT !.file = files, !.statement = stored[Len(u.lines)]]

LowPc(u) == IF u.low = NULL THEN cu_base_address ELSE u.low

SkipUnit ==
  /\ phase = "unit" /\ cur <= Len(prog) /\ ~Accepted(prog[cur])
  /\ cu_base_address' = LowPc(prog[cur])
  /\ cur' = cur + 1
  /\ UNCHANGED <<prog, pos, stack, db, saved, unit_count, phase, ret>>

BeginUnit ==
  /\ phase = "unit" /\ cur <= Len(prog) /\ Accepted(prog[cur])
  /\ cu_base_address' = LowPc(prog[cur])
  /\ unit_count' = unit_count + 1
  /\ saved' = db
  /\ db' = proc_lines(prog[cur])
  /\ pos' = 1 /\ stack' = <<GLOBAL_SCOPE>>
  /\ phase' = "symbols"
  /\ UNCHANGED <<prog, cur, ret>>

CommitUnit ==
  /\ phase = "symbols" /\ pos > Len(Dies)
  /\ cur' = cur + 1 /\ phase' = "unit"
  /\ UNCHANGED <<prog, pos, stack, db, saved, unit_count, cu_base_address, ret>>

\* dbg_srcinfo() leaves its loop at the last unit; alter_db() follows.
LastUnit ==
  /\ phase = "unit" /\ cur > Len(prog)
  /\ phase' = "scopes"
  /\ UNCHANGED <<prog, cur, pos, stack, db, saved, unit_count, cu_base_address, ret>>

\* A failure anywhere in the unit rolls it back, and ends the loop as well.
Rollback ==
  /\ db' = saved /\ ret' = "FAILURE" /\ phase' = "scopes"
  /\ UNCHANGED <<prog, cur, pos, stack, saved, unit_count, cu_base_address>>

-----------------------------------------------------------------------------
(* proc_symbols(): one action per handler *)

AtTag(tags) == phase = "symbols" /\ pos <= Len(Dies) /\ Die.tag \in tags
SkipDie == pos' = NextSibling /\ UNCHANGED <<walkVars, stack, db, phase>>
AddRow(t, row) == db' = Insert(t, row) /\ pos' = NextSibling
                  /\ UNCHANGED <<walkVars, stack, phase>>

\* "sometimes in DWARF4 high address is just offset from low"
HighAddr(lo, hi) == IF hi < lo THEN hi + lo ELSE hi
ScopeRow(lo, hi) == [parent |-> stack[Die.lvl], depth |-> Die.lvl - 1,
                     start |-> lo, end |-> HighAddr(lo, hi)]
Descend(d) ==
  /\ db' = d
  /\ stack' = Append(SubSeq(stack, 1, Die.lvl), Len(d.scope))
  /\ pos' = pos + 1
  /\ UNCHANGED <<walkVars, phase>>

proc_func ==
  /\ AtTag({"subprogram"})
  /\ \/ /\ Die.named /\ Die.pc
        /\ LET d == Insert("scope", ScopeRow(Die.lo, Die.hi))
           IN  Descend([d EXCEPT !.function = Append(@, [scope |-> Len(d.scope), off |-> Die.off])])
     \/ Die.named /\ ~Die.pc /\ Die.external /\ SkipDie
     \/ (~Die.named \/ (~Die.pc /\ ~Die.external)) /\ Rollback

\* Ranges are taken as one block, from the first start to the last end.
proc_block ==
  /\ AtTag({"block"})
  /\ \/ /\ Die.ranges = <<>>
        /\ Descend(Insert("scope", ScopeRow(Die.lo, Die.hi)))
     \/ /\ Die.ranges # <<>>
        /\ Descend(Insert("scope", ScopeRow(cu_base_address + Head(Die.ranges)[1],
                                            cu_base_address + Last(Die.ranges)[2])))

\* An unknown encoding is reported and the type stored without a kind.
proc_base_type ==
  /\ AtTag({"base"})
  /\ \/ Die.named /\ AddRow("type", TypeRow(cur, Die, Die.size, 0, 0, Die.encoding, {}))
     \/ ~Die.named /\ Rollback

\* A derived type without a base type is skipped, unless a pointer or a function.
proc_custom_type ==
  /\ AtTag(Derived)
  /\ \/ Die.type = 0 /\ Die.tag \notin {"pointer", "func"} /\ SkipDie
     \/ /\ Die.type # 0 \/ Die.tag \in {"pointer", "func"}
        /\ IF Die.tag \in Propagating
             THEN AddRow("type", TypeRow(cur, Die, Die.size, 0, Die.type, NOKIND, {Die.tag}))
             ELSE AddRow("type", TypeRow(cur, Die, Die.size, 0, Die.type, Die.tag, {}))

\* The dimension is that of the first subrange, 0 without an upper bound.
proc_array_type ==
  /\ AtTag({"array"})
  /\ \/ Die.type # 0 /\ AddRow("type", TypeRow(cur, Die, 0, Die.bound + 1, Die.type, "array", {}))
     \/ Die.type = 0 /\ Rollback

\* Members and enumerators become rows; a child of another kind (NULL) is an error.
proc_aggr_type ==
  /\ AtTag(Aggregates)
  /\ \/ /\ \A i \in DOMAIN Die.members : Die.members[i] # NULL
        /\ db' = [db EXCEPT !.type = Append(@, TypeRow(cur, Die, Die.size, 0, 0, Die.tag, {})),
                            !.member = @ \o [i \in DOMAIN Die.members |->
                                              [off |-> Die.off, type |-> Die.members[i]]]]
        /\ pos' = NextSibling
        /\ UNCHANGED <<walkVars, stack, phase>>
     \/ (\E i \in DOMAIN Die.members : Die.members[i] = NULL) /\ Rollback

\* A definition of a variable declared before replaces the declaration's place.
\* A file number outside the unit's list is noticed first (get_attrs).
proc_var ==
  /\ AtTag({"variable"})
  /\ \/ Die.file > Len(prog[cur].files) /\ Rollback
     \/ /\ Die.file <= Len(prog[cur].files)
        /\ \/ (Die.artificial \/ (~Die.named /\ Die.spec = 0)) /\ SkipDie
           \/ ~Die.artificial /\ Die.spec = 0 /\ Die.named /\ Die.type = 0 /\ Rollback
           \/ /\ ~Die.artificial /\ Die.spec = 0 /\ Die.named /\ Die.type # 0
              /\ AddRow("var", [unit |-> cur, type |-> Die.type, off |-> Die.off,
                                scope |-> IF Die.external THEN GLOBAL_SCOPE ELSE stack[Die.lvl],
                                file |-> Die.file, line |-> Die.line])
           \/ /\ ~Die.artificial /\ Die.spec # 0
              /\ db' = [db EXCEPT !.var = [i \in DOMAIN @ |->
                           IF @[i].unit = cur /\ @[i].off = Die.spec
                             THEN [@[i] EXCEPT !.file = Die.file, !.line = Die.line] ELSE @[i]]]
              /\ pos' = NextSibling
              /\ UNCHANGED <<walkVars, stack, phase>>

IgnoredDie == AtTag(Ignored) /\ SkipDie
UnknownDie == phase = "symbols" /\ pos <= Len(Dies) /\ Die.tag \notin Tags /\ Rollback
\* A statement of the database or a call of libdwarf fails.
UnitError == phase = "symbols" /\ Rollback
HeaderError ==
  /\ phase = "unit" /\ ret' = "FAILURE" /\ phase' = "scopes"
  /\ UNCHANGED <<prog, cur, pos, stack, db, saved, unit_count, cu_base_address>>

-----------------------------------------------------------------------------
(* alter_db(): every statement of SQL that derives something, in order *)

AlterStep(from, to, d) ==
  /\ phase = from /\ db' = d /\ phase' = to
  /\ UNCHANGED <<walkVars, pos, stack>>

Covers(s, a) == s.start <= a /\ a < s.end
Scopes(a) == {i \in DOMAIN db.scope : Covers(db.scope[i], a)}
\* Mutant: the scopes are ordered by depth the wrong way round.
MutantOutermost(a) ==
  {i \in Scopes(a) : \A j \in Scopes(a) : db.scope[i].depth <= db.scope[j].depth}
Innermost(a) == {i \in Scopes(a) : \A j \in Scopes(a) : db.scope[j].depth <= db.scope[i].depth}
Functions(a) == {i \in DOMAIN db.function : Covers(db.scope[db.function[i].scope], a)}
OrNull(S) == IF S = {} THEN {NULL} ELSE S
ScopeOf(a) == OrNull(Innermost(a))
FunctionOf(a) == OrNull(Functions(a))
\* The values a subquery may give the rows, where it may match several: one of Q[i] to row i.
Assignments(Q) ==
  LET upto[n \in 0 .. Len(Q)] ==
        IF n = 0 THEN {<<>>} ELSE {Append(f, v) : f \in upto[n - 1], v \in Q[n]}
  IN  upto[Len(Q)]

\* The unique index on (file, line, address) is created before.
SetScopes ==
  /\ IsInjective([i \in DOMAIN db.statement |->
                   <<db.statement[i].file, db.statement[i].line, db.statement[i].addr>>])
  /\ \E f \in Assignments([i \in DOMAIN db.statement |-> ScopeOf(db.statement[i].addr)]) :
       AlterStep("scopes", "functions",
         [db EXCEPT !.statement = [i \in DOMAIN @ |-> [@[i] EXCEPT !.scope = f[i]]]])

SetFunctions ==
  \E f \in Assignments([i \in DOMAIN db.statement |-> FunctionOf(db.statement[i].addr)]) :
    AlterStep("functions", "flags",
      [db EXCEPT !.statement = [i \in DOMAIN @ |-> [@[i] EXCEPT !.func = f[i]]]])

MarkStart(stmts) ==
  [i \in DOMAIN stmts |->
     IF \E f \in DOMAIN db.function : db.scope[db.function[f].scope].start = stmts[i].addr
       THEN [stmts[i] EXCEPT !.flag = 1] ELSE stmts[i]]
\* Mutant: the start of a function may become its end as well.
MutantEndRowsAny(stmts, f) ==
  LET own == {i \in DOMAIN stmts : stmts[i].func = f /\ stmts[i].scope # NULL}
  IN  {i \in own : \A j \in own : stmts[j].addr <= stmts[i].addr}
\* The row with the highest address of each function among those not marked yet.
EndRows(stmts, f) ==
  LET open == {i \in DOMAIN stmts : /\ stmts[i].flag = NULL /\ stmts[i].func = f
                                    /\ stmts[i].scope # NULL}
  IN  {i \in open : \A j \in open : stmts[j].addr <= stmts[i].addr}
SetFlags ==
  LET started == MarkStart(db.statement)
      groups == {EndRows(started, f) : f \in {started[i].func : i \in DOMAIN started}} \ {{}}
  IN  \E ends \in SUBSET UNION groups :
        /\ \A g \in groups : Cardinality(g \cap ends) = 1
        /\ AlterStep("flags", "types",
             [db EXCEPT !.statement = [i \in DOMAIN @ |->
                IF i \in ends THEN [started[i] EXCEPT !.flag = 2] ELSE started[i]]])

\* type_relation: the offsets reached through parent from a type.
Ancestors(types, off) ==
  LET up(S) == S \cup {types[i].parent : i \in {j \in DOMAIN types : types[j].off \in S}}
      closed[n \in 0 .. Len(types)] == IF n = 0 THEN {off} ELSE up(closed[n - 1])
  IN  closed[Len(types)]
SetIndirect(types) ==
  [i \in DOMAIN types |->
     LET own == IF types[i].kind = "pointer" THEN 1 ELSE 0
         derived == \E j \in DOMAIN types : /\ types[j].kind = "pointer" /\ j # i
                                            /\ types[j].off \in Ancestors(types, types[i].off)
     IN  [types[i] EXCEPT !.indirect =
            own + (IF derived /\ types[i].kind # "alias" THEN 1 ELSE 0)]]

ParentOf(types, t) == {types[i] : i \in {j \in DOMAIN types : types[j].off = t.parent}}
\* One UPDATE goes over the rows once, in the order of rowid, and each row sees
\* the new values of the rows before it.
Update(types, Row(_, _)) ==
  LET after[n \in 0 .. Len(types)] ==
        IF n = 0 THEN types ELSE [after[n - 1] EXCEPT ![n] = Row(after[n - 1], n)]
  IN  after[Len(types)]

FlagsRow(ts, i) ==
  LET p == CHOOSE x \in ParentOf(ts, ts[i]) : TRUE
  IN  IF ts[i].kind # NOKIND THEN ts[i]
      ELSE [ts[i] EXCEPT !.kind = p.kind, !.attrs = @ \cup p.attrs]
PropagateFlags(types) == Update(types, FlagsRow)

SizeOf(ps) == IF ps = {} THEN NULL ELSE (CHOOSE p \in ps : TRUE).size
SizeRow(ts, i) ==
  IF ts[i].size # 0 THEN ts[i] ELSE [ts[i] EXCEPT !.size = SizeOf(ParentOf(ts, ts[i]))]
\* Mutant: every row sees the values from before the UPDATE.
MutantPropagateOld(types) == [i \in DOMAIN types |-> SizeRow(types, i)]
PropagateSize(types) == Update(types, SizeRow)

ArrayRow(ts, i) ==
  LET s == SizeOf({p \in ParentOf(ts, ts[i]) : p.size > 0})
  IN  IF ts[i].size # 0 \/ ts[i].kind # "array" THEN ts[i]
      ELSE [ts[i] EXCEPT !.size = IF s = NULL THEN NULL ELSE ts[i].dim * s]
ArraySize(types) == Update(types, ArrayRow)

CountMembers(types) ==
  [i \in DOMAIN types |->
     IF types[i].kind \notin {"struct", "union"} THEN types[i]
     ELSE [types[i] EXCEPT !.dim =
             Cardinality({m \in DOMAIN db.member : db.member[m].off = types[i].off})]]

\* A type left without flags (NULL) violates NOT NULL.
Orphan(types) == \E i \in DOMAIN types : types[i].kind = NOKIND /\ ParentOf(types, types[i]) = {}
SetTypes ==
  /\ ~Orphan(db.type)
  /\ AlterStep("types", "vars",
       [db EXCEPT !.type = CountMembers(ArraySize(PropagateSize(PropagateFlags(SetIndirect(@)))))])

\* The number of the file in the unit becomes the id of the file, and globals
\* without a file are dropped.
SetVars ==
  LET placed == [i \in DOMAIN db.var |->
                   [db.var[i] EXCEPT !.file = FileId(db.file, db.var[i].unit, @)]]
  IN  /\ phase = "vars"
      /\ db' = [db EXCEPT !.var = SelectSeq(placed, LAMBDA v : v.scope # GLOBAL_SCOPE \/ v.file # 0)]
      /\ phase' = IF ret = "SUCCESS" THEN "ready" ELSE "failed"
      /\ UNCHANGED <<walkVars, pos, stack>>

\* A statement of alter_db() fails: the index is not unique, a type is an
\* orphan, or the database reports an error.
AlterError ==
  /\ phase \in {"scopes", "functions", "flags", "types", "vars"}
  /\ phase' = "failed" /\ ret' = "FAILURE"
  /\ UNCHANGED <<prog, cur, pos, stack, db, saved, unit_count, cu_base_address>>

dbg_srcinfo ==
  \/ SkipUnit \/ BeginUnit \/ CommitUnit \/ LastUnit
  \/ proc_func \/ proc_block \/ proc_base_type \/ proc_custom_type \/ proc_array_type
  \/ proc_aggr_type \/ proc_var \/ IgnoredDie \/ UnknownDie \/ UnitError \/ HeaderError
  \/ SetScopes \/ SetFunctions \/ SetFlags \/ SetTypes \/ SetVars \/ AlterError

-----------------------------------------------------------------------------
(* What the program really is, and what is derived from it *)

\* The extents of the scopes with tag in tags that contain address a.
TrueScopes(tags, a) ==
  {e \in UNION {{<<TrueStart(u, u.dies[i]), TrueEnd(u, u.dies[i])>> :
                   i \in {j \in DOMAIN u.dies : u.dies[j].tag \in tags /\ ScopeTag(u.dies[j])}} :
                 u \in {v \in Range(prog) : Accepted(v)}} : e[1] <= a /\ a < e[2]}

Extent(i) == <<db.scope[i].start, db.scope[i].end>>
\* scope_ancestor, and the scope itself.
ScopeChain(scopes, i) ==
  LET up(S) == S \cup ({scopes[j].parent : j \in S} \ {GLOBAL_SCOPE})
      closed[n \in 0 .. Len(scopes)] == IF n = 0 THEN {i} ELSE up(closed[n - 1])
  IN  closed[Len(scopes)]

\* dbginfo.c:631, db.c:197: the scope of a statement and the ancestors stored
\* for it are exactly the functions and blocks of the program around its
\* address: the debugger shows the variables of those and of no other.
ScopesExact ==
  phase = "ready" /\ Regular(prog) =>
    \A s \in Range(db.statement) :
      IF s.scope = NULL THEN TrueScopes({"subprogram", "block"}, s.addr) = {}
      ELSE {Extent(i) : i \in ScopeChain(db.scope, s.scope)} = TrueScopes({"subprogram", "block"}, s.addr)

\* db.c:222-248: in every function the statements at its first address, and
\* no others, are marked as its start, and the last of the others, if there is
\* one, and only that, as its end.  The call depth of the recorder counts those
\* marks.
FlagsExact ==
  phase = "ready" /\ Regular(prog) =>
    \A f \in UNION {TrueScopes({"subprogram"}, s.addr) : s \in Range(db.statement)} :
      LET inside == {i \in DOMAIN db.statement :
                       f[1] <= db.statement[i].addr /\ db.statement[i].addr < f[2]}
          ends == {i \in inside : db.statement[i].flag = 2}
          body == {i \in inside : db.statement[i].addr # f[1]}
      IN  /\ \A i \in inside : db.statement[i].flag = 1 <=> db.statement[i].addr = f[1]
          /\ Cardinality({db.statement[i].func : i \in inside}) = 1
          /\ body # {} => /\ Cardinality(ends) = 1
                          /\ \A i \in ends, j \in body : db.statement[j].addr <= db.statement[i].addr

\* Types that take their kind or their size from the type they refer to.
Inherits(t) == t.kind = "alias" \/ t.attrs # {}
Backward ==
  \A i \in DOMAIN db.type :
    Inherits(db.type[i]) \/ db.type[i].kind \in {"array", "func"} =>
      db.type[i].parent = 0 \/ \E j \in 1 .. i - 1 : db.type[j].off = db.type[i].parent

\* db.c:285-305: one pass over the types is enough where every type refers to
\* a type stored before it: at the end each derived type has the size of its
\* parent and a qualified type its kind and qualifiers, down the whole chain.
\* A size of 0 would be a divisor in the debugger.
TypesResolved ==
  phase = "ready" /\ Backward =>
    \A i \in DOMAIN db.type : Inherits(db.type[i]) =>
      \E p \in ParentOf(db.type, db.type[i]) :
        /\ p.size = db.type[i].size
        /\ db.type[i].kind # "alias" \/ db.type[i].attrs # {} =>
             (db.type[i].kind = p.kind /\ p.attrs \subseteq db.type[i].attrs)
=============================================================================
