----------------------------- MODULE MCExamine -----------------------------
(* Instances of Examine for TLC. *)
EXTENDS Examine

S(file, name, line, scope, func, flag) ==
    [file |-> file, name |-> name, line |-> line, scope |-> scope,
     func |-> func, flag |-> flag]

\* main() and f() in two files; the second line of main() has two statements,
\* as a line with two calls has.
MCStmts == {"m1", "m2", "m3", "m4", "f1", "f2"}
MCInfo == [s \in MCStmts |->
    CASE s = "m1" -> S(1, "main.c", 1, 1, "main", "START")
      [] s = "m2" -> S(1, "main.c", 2, 1, "main", "NONE")
      [] s = "m3" -> S(1, "main.c", 2, 1, "main", "NONE")
      [] s = "m4" -> S(1, "main.c", 3, 1, "main", "END")
      [] s = "f1" -> S(2, "f.c", 1, 2, "f", "START")
      [] s = "f2" -> S(2, "f.c", 2, 2, "f", "END")]

\* The executions of at most n steps in which main() is the outermost call
\* and is called once.
Extend(ts) ==
    {t \in {Append(u, s) : u \in ts, s \in MCStmts} :
        /\ Execution(t)
        /\ \A i \in 1 .. Len(t) : CallsOf(t)[i][1] = 1 /\ (t[i] = "m1" <=> i = 1)}
ExecutionsUpTo(n) ==
    LET of[i \in 0 .. n] == IF i = 0 THEN {<<>>} ELSE of[i - 1] \cup Extend(of[i - 1])
    IN  of[n]

RecordingsUpTo(n) == [steps : ExecutionsUpTo(n), signal : {0, 11}]
MCRecordings5 == RecordingsUpTo(5)
MCRecordings6 == RecordingsUpTo(6)

\* Two calls on a line, a crash in a recursive call, no steps at all.
MCThreeRecordings ==
    {[steps |-> <<"m1", "m2", "f1", "f2", "f1", "f2", "m4">>, signal |-> 0],
     [steps |-> <<"m1", "f1", "f1">>, signal |-> 11],
     [steps |-> <<>>, signal |-> 0]}

B(name, lines) == [name |-> name, lines |-> lines]
MCBreakRequests == {B("main.c", <<2>>), B("main.c", <<2, 2>>), B("f.c", <<1>>),
                    B("f.c", <<>>), B("none.c", <<1>>)}
MCNoRequests == {}
MCStackRequests == {[start |-> 0, levels |-> 20], [start |-> 1, levels |-> 20],
                    [start |-> 0, levels |-> 1]}
MCFullStack == {[start |-> 0, levels |-> 20]}
=============================================================================
