---------------------------- MODULE MCVariables ----------------------------
(***************************************************************************)
(* A program with a list of nodes.  main() has a number and a pointer that *)
(* is called as a field is; f(), called at step 1, has a number of the     *)
(* same name, and a block in f() has another one, and a number that is     *)
(* declared too late.  Steps 1 and 2 are on the first lines of main() and  *)
(* f(), step 3 is in the block.                                            *)
(***************************************************************************)
EXTENDS Expressions

T(kind, size, dim, parent, indirect, members) ==
    [kind |-> kind, size |-> size, dim |-> dim, parent |-> parent,
     indirect |-> indirect, members |-> members]
M(name, start, type) == [name |-> name, start |-> start, type |-> type]
V(name, scope, op, opd, type, line) ==
    [name |-> name, scope |-> scope, op |-> op, opd |-> opd, type |-> type, line |-> line]

\* long, unsigned long, struct node, struct node *, count_t, long[2], char, char *
MCType == <<
    T("signed", 2, 0, 0, 0, << >>),
    T("unsigned", 2, 0, 0, 0, << >>),
    T("struct", 4, 2, 0, 0, <<M("n", 0, 5), M("next", 2, 4)>>),
    T("pointer", 2, 0, 3, 1, << >>),
    T("alias", 2, 0, 1, 0, << >>),
    T("array", 2, 2, 1, 0, << >>),
    T("signed", 1, 0, 0, 0, << >>),
    T("pointer", 2, 0, 7, 1, << >>)>>

\* Globals g, arr, s, head and p; main's next and x; f's x; the block's x and y.
MCVar == <<
    V("g", 0, "addr", 8, 2, 1), V("arr", 0, "addr", 16, 6, 2),
    V("s", 0, "addr", 6, 8, 3), V("head", 0, "addr", 40, 3, 3), V("p", 0, "addr", 4, 4, 3),
    V("next", 1, "fbreg", -6, 4, 12), V("x", 1, "fbreg", -3, 1, 12),
    V("x", 2, "fbreg", -2, 2, 5),
    V("x", 3, "fbreg", -20, 5, 8), V("y", 3, "breg", 22, 5, 10)>>

\* main(), f() and its block.
MCParent == <<0, 0, 2>>
MCScopeAt == <<1, 2, 3>>
MCLineAt == <<13, 6, 9>>
MCFlagAt == <<"START", "START", "NONE">>
MCCallAt == <<0, 1, 1>>
MCFrameBase == <<16, 22, 22>>
MCStatics == (2 .. 21) \cup (40 .. 45)
MCHeapCells == 24 .. 39

At(address, cells) == [c \in address .. address + Len(cells) - 1 |-> cells[c - address + 1]]

\* p = 24, s = 32, g = 2, head = {5, 24}, next = &head, and x = 4 in the block;
\* then p = 32 with *p = {1, 24}, p->next->n = 6, x = -1, and x = 3 in f().
MCProgram == <<
    At(2, <<4, 0, 0, 3, 0, 4, 2, 0>>) @@ At(10, <<0, 5>>) @@ At(40, <<5, 0, 0, 3>>),
    At(4, <<0, 4>>) @@ At(32, <<1, 0, 0, 3>>) @@ At(24, <<6, 0>>) @@ At(13, <<7, 7>>)
        @@ At(20, <<3, 0>>)>>

Name(x) == <<"name", x>>
Bin(op, a, b) == <<"binary", op, a, b>>
MCTree == [
    x |-> Name("x"),
    less |-> Bin("==", Bin("<", Bin("-", Name("g"), Name("x")), <<"int", 1>>),
                 Bin("<", Bin("*", <<"unary", "neg", Name("x")>>, <<"int", 2>>), <<"int", 1>>)),
    logic |-> Bin("+", Bin("&&", Name("x"), Bin("||", <<"int", 0>>, <<"unary", "!", Name("x")>>)),
                       Bin("&", Bin(">>", Bin("/", Name("g"), <<"int", 1>>), <<"int", 1>>), <<"int", 1>>)),
    p |-> Name("p"),
    s |-> Name("s"),
    next |-> <<"arrow", <<"arrow", Name("p"), "next">>, "n">>,
    item |-> <<"item", Name("p"), <<"int", 1>>>>]
=============================================================================
