------------------------------ MODULE MCStartup ------------------------------
(***************************************************************************)
(* Programs for the start of a recording.  Two families: programs whose    *)
(* code and statements vary, and programs whose types vary.                *)
(***************************************************************************)
EXTENDS Startup

Fn(off, lvl, lo, hi, rel) ==
  [tag |-> "subprogram", lvl |-> lvl, off |-> off, named |-> TRUE, pc |-> TRUE,
   external |-> TRUE, lo |-> lo, hi |-> hi, rel |-> rel]
Decl(off, named, external) ==
  [tag |-> "subprogram", lvl |-> 1, off |-> off, named |-> named, pc |-> FALSE,
   external |-> external, lo |-> 0, hi |-> 0, rel |-> FALSE]
Block(off, lvl, lo, hi, rel, ranges) ==
  [tag |-> "block", lvl |-> lvl, off |-> off, lo |-> lo, hi |-> hi, rel |-> rel, ranges |-> ranges]
Var(off, lvl, type, external, spec, file) ==
  [tag |-> "variable", lvl |-> lvl, off |-> off, named |-> spec = 0, artificial |-> FALSE,
   type |-> type, external |-> external, spec |-> spec, file |-> file, line |-> 1]
Line(file, line, addr) == [file |-> file, line |-> line, addr |-> addr, is_stmt |-> TRUE, end |-> FALSE]
Unit(name, low, lines, dies) ==
  [name |-> name, inPath |-> TRUE, low |-> low, files |-> <<TRUE, FALSE>>,
   lines |-> lines, dies |-> dies]
Base(off, encoding) ==
  [tag |-> "base", lvl |-> 1, off |-> off, named |-> TRUE, size |-> 4, encoding |-> encoding]
Type(tag, off, type) == [tag |-> tag, lvl |-> 1, off |-> off, type |-> type,
                         size |-> IF tag = "pointer" THEN 8 ELSE 0]

(* ---- code: a function with two nested blocks at lo, a plain one at lo2 ---- *)
Select(all, S) == SelectSeq(all, LAMBDA l : l.line \in S)
Candidates(lo, lo2) ==
  <<Line(1, 1, lo), Line(1, 2, lo + 1), Line(1, 3, lo + 3), Line(1, 4, lo + 6),
    Line(1, 5, lo + 6), Line(1, 8, lo2 - 11), Line(1, 6, lo2), Line(1, 7, lo2 + 1)>>
CodeA(lo, lo2, rel, ranges, S) ==
  LET end(a, b) == IF rel THEN b - a ELSE b
  IN  Unit("a", lo,
        Append(Select(Candidates(lo, lo2), S), [Line(1, 9, lo2 + 2) EXCEPT !.end = TRUE]),
        <<Fn(101, 1, lo, end(lo, lo + 7), rel),
          Var(102, 2, 500, FALSE, 0, 1),
          IF ranges
            THEN Block(103, 2, 0, 0, FALSE, <<<<1, 5>>>>)
            ELSE Block(103, 2, lo + 1, end(lo + 1, lo + 5), rel, <<>>),
          Block(104, 3, lo + 2, end(lo + 2, lo + 4), rel, <<>>),
          Var(105, 4, 500, FALSE, 0, 1),
          Var(106, 2, 500, TRUE, 0, 2),
          Fn(107, 1, lo2, end(lo2, lo2 + 2), rel)>>)
CodeB(name, lo, S) ==
  Unit(name, NULL, Select(<<Line(1, 1, lo), Line(1, 2, lo + 2), Line(2, 3, lo + 2)>>, S),
       <<Fn(201, 1, lo, 3, TRUE), Decl(202, TRUE, TRUE)>>)
Data == Unit("c", NULL, <<>>, <<Var(301, 1, 500, TRUE, 0, 1)>>)
Ignore == Unit("x", 50, <<Line(1, 1, 50)>>, <<>>)

\* Low addresses defeat the guess about offsets; lo2 = 40 puts unit b inside the
\* range of unit a; unit c has no statements; an address of unit d is not mapped
\* in every image.
CodePrograms ==
  {<<CodeA(lo, lo2, form = "rel", form = "ranges", S)>> \o rest :
     lo \in {5, 20}, lo2 \in {27, 40}, form \in {"abs", "rel", "ranges"},
     S \in {{1}, {2, 3, 4}, {1, 3, 4, 5}, {1, 6, 7, 8}, 1 .. 8},
     rest \in {<<>>, <<Ignore, CodeB("b", 37, {1, 2, 3}), CodeB("d", 50, {1, 2})>>,
               <<Data, Data, CodeB("b", 37, {1, 2})>>}}

(* ---- types: four of them, referring to each other in any way ---- *)
Offs == {501, 502, 503}
Kinds == {"alias", "const", "pointer", "array"}
Derive(k, off, type) ==
  IF k = "array" THEN [tag |-> k, lvl |-> 1, off |-> off, type |-> type, bound |-> 1] ELSE Type(k, off, type)
TypePrograms ==
  {<<Unit("t", 0, <<>>, <<Base(500, "signed"), Derive(k1, 501, t1), Derive(k2, 502, t2),
                          Derive("alias", 503, t3)>>)>> :
     k1 \in Kinds, k2 \in Kinds, t1 \in {500, 502, 0}, t2 \in {500, 501}, t3 \in {501, 502}}

(* ---- what ends the collection, and what it leaves aside ---- *)
Odd == {<<>>, <<Decl(401, FALSE, TRUE)>>, <<Decl(401, TRUE, FALSE)>>,
        <<[tag |-> "inlined", lvl |-> 1, off |-> 401]>>,
        <<[tag |-> "label", lvl |-> 1, off |-> 401]>>,
        <<[Base(401, "signed") EXCEPT !.named = FALSE]>>, <<Base(401, "none")>>,
        <<Var(401, 1, 0, FALSE, 0, 1)>>, <<Var(401, 1, 500, FALSE, 0, 9)>>,
        <<[Var(401, 1, 500, FALSE, 0, 1) EXCEPT !.artificial = TRUE]>>,
        <<Var(401, 1, 500, TRUE, 0, 2), Var(402, 1, 500, TRUE, 401, 1)>>,
        <<[tag |-> "struct", lvl |-> 1, off |-> 401, size |-> 8, members |-> <<500, 500>>]>>,
        <<[tag |-> "struct", lvl |-> 1, off |-> 401, size |-> 8, members |-> <<NULL>>]>>}
OddPrograms == {<<CodeB("b", 30, {1, 2}), Unit("o", 0, <<>>, d)>> : d \in Odd}

MCPrograms == CodePrograms \cup TypePrograms \cup OddPrograms
MCImages == {[load |-> 0, text |-> 5, size |-> 40], [load |-> 100, text |-> 0, size |-> 60],
             [load |-> 100, text |-> 4, size |-> 60]}
=============================================================================
