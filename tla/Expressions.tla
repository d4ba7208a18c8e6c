----------------------------- MODULE Expressions -----------------------------
(***************************************************************************)
(* The evaluate request of the debug server: the cache of expressions, the *)
(* grammar with its types (examine/expressions/expr.y, expr.l) and the     *)
(* evaluation over the recording (examine/expressions/expression.c).       *)
(*                                                                         *)
(* An expression is given by a name; Tree is what the grammar makes of its *)
(* text, without types.  A value is a word without a sign, as in union     *)
(* node_value; floating point and string constants are left out.           *)
(***************************************************************************)
EXTENDS Vars, Bitwise

CONSTANTS
    Tree                \* the syntax of each expression

VARIABLES
    expr                \* rows of table local.expr, a row's number is its id

allVars == <<vars, expr>>

FULL == Power(WORD)
Wrap(n) == n % FULL
AsSigned(n) == IF 2 * n >= FULL THEN n - FULL ELSE n
BITS == CHOOSE n \in 1 .. FULL : 2 ^ n = FULL

-----------------------------------------------------------------------------
(* Nodes.                                                                  *)

\* struct ast_node: what it is, its type, and its operands.
Node(node, kind, size, indirect, offset, kids, val) ==
    [node |-> node, kind |-> kind, size |-> size, indirect |-> indirect,
     offset |-> offset, kids |-> kids, val |-> val]
NoTree == Node("none", "none", 0, 0, 0, << >>, 0)
Bad(message) == Node("error", message, 0, 0, 0, << >>, 0)
Failed(n) == n.node = "error"

IsInteger(n) == n.kind \in Integer /\ n.indirect = 0
CastToSigned(n) == Node("type", "signed", WORD, 0, 0, <<n>>, 0)
Promoted(n) == IF n.kind = "signed" THEN n ELSE CastToSigned(n)

\* The types that lead to type t, nearest first: view type_relation.
Chain[t \in DOMAIN Type] ==
    IF Type[t].parent = 0 THEN <<t>> ELSE <<t>> \o Chain[Type[t].parent]

\* get_var_details(): the variables of that name in the scope and its
\* ancestors, ordered by the distance of the nearest type that is not a pointer
\* only, and the node for one of them, with that type.
Direct(t) == SelectSeq(Chain[t], LAMBDA a : Type[a].indirect = 0)[1]
Candidates(name, scope) ==
    LET depth(t) == CHOOSE i \in DOMAIN Chain[t] : Chain[t][i] = Direct(t)
        visible == {v \in DOMAIN Var : Var[v].name = name
                                       /\ Var[v].scope \in {scope} \cup Ancestors[scope]}
    IN  {v \in visible : \A w \in visible : depth(Var[v].type) <= depth(Var[w].type)}
VarNode(v) ==
    LET t == Direct(Var[v].type)
    IN  Node("var", Type[t].kind, Type[t].size, Type[Var[v].type].indirect, t, << >>, v)

\* get_field_details(): the farthest type of the field; its start is the value.
Field(object, name) ==
    LET members == SelectSeq(Type[object.offset].members, LAMBDA m : m.name = name)
        m == members[1]
        a == Chain[m.type][Len(Chain[m.type])]
    IN  IF members = << >> THEN Bad("Cannot find field")
        ELSE Node("field", Type[a].kind, Type[a].size, Type[m.type].indirect, a, <<object>>, m.start)

\* get_base_type_details(): the farthest type an array is made of.
Item(object, index) ==
    LET chain == Chain[object.offset]
        a == chain[Len(chain)]
    IN  IF object.indirect = 0 /\ object.kind # "array" THEN Bad("Object is non-subscriptable")
        ELSE IF index.kind \notin Integer THEN Bad("Subscript isn't countable")
        ELSE IF object.kind = "array"
        THEN Node("item", Type[a].kind, Type[a].size, Type[object.offset].indirect, a, <<object, index>>, 0)
        ELSE [object EXCEPT !.node = "item", !.indirect = @ - 1, !.kids = <<object, index>>]

Deref(operand) ==
    IF operand.indirect = 0 THEN Bad("Cannot dereference non-pointer")
    ELSE [operand EXCEPT !.node = "deref", !.indirect = @ - 1, !.kids = <<operand>>]

-----------------------------------------------------------------------------
(* The grammar: the type of every node from the types of its operands.     *)

Unary(op, n) ==
    CASE op = "&" -> IF n.node \notin {"var", "field", "item"}
                     THEN Bad("Cannot take an address on non-lvalue")
                     ELSE [n EXCEPT !.node = "addr", !.indirect = @ + 1, !.kids = <<n>>]
      [] op = "*" -> Deref(n)
      [] op = "neg" -> IF IsInteger(n) THEN Node("neg", "signed", WORD, 0, 0, <<n>>, 0)
                       ELSE Bad("Cannot apply unary minus to non-number")
      [] op = "~" -> IF IsInteger(n) THEN Node("inv", "unsigned", WORD, 0, 0, <<n>>, 0)
                     ELSE Bad("Cannot invert non-number")
      [] op = "!" -> IF n.kind \in Integer \/ n.indirect # 0
                     THEN Node("not", "unsigned", WORD, 0, 0, <<n>>, 0)
                     ELSE Bad("Cannot negate non-number/non-pointer")
      [] op = "sizeof" -> Node("int", "unsigned", WORD, 0, 0, << >>, n.size)

\* A cast to type t with the given number of stars.
Cast(t, stars, n) ==
    IF \/ stars # 0 /\ (n.indirect # 0 \/ n.kind = "array" \/ n.kind \in Integer)
       \/ n.indirect # 0 /\ Type[t].kind \in Integer /\ Type[t].size = WORD
       \/ Type[t].kind \in Integer /\ n.kind \in Integer
    THEN Node("type", Type[t].kind, Type[t].size, stars, t, <<n>>, 0)
    ELSE Bad("Unsupported types for cast")

Relational == {"<", ">", "<=", ">=", "==", "!="}
Bits == {"<<", ">>", "&", "|", "^"}
Logical == {"&&", "||"}

\* binary_op(), with promote_operands_to_signed().
binary_op(op, l, r) ==
    IF "signed" \in {l.kind, r.kind}
    THEN Node(op, "signed", WORD, 0, 0, <<Promoted(l), Promoted(r)>>, 0)
    ELSE Node(op, IF op = "-" THEN "signed" ELSE "unsigned", WORD, 0, 0, <<l, r>>, 0)

\* Pointer arithmetic: a pointer and an integer, or the difference of pointers.
PointerOp(op, l, r) ==
    IF r.indirect # 0
    THEN IF op = "-" /\ l.indirect = r.indirect /\ l.size = r.size
         THEN Node(op, "signed", WORD, 0, 0, <<l, r>>, 0)
         ELSE Bad("Pointer operands do not match")
    ELSE IF r.kind \in Integer
    THEN Node(op, l.kind, l.size, l.indirect, l.offset, <<l, Promoted(r)>>, 0)
    ELSE Bad("Second operand must be an integer")

Binary(op, l, r) ==
    LET numbers == IsInteger(l) /\ IsInteger(r) IN
    CASE op \in {"+", "-"} /\ l.indirect # 0 -> PointerOp(op, l, r)
      [] op \in {"+", "-", "*", "/"} /\ numbers -> binary_op(op, l, r)
      [] op = "%" /\ numbers -> Node(op, "signed", WORD, 0, 0, <<Promoted(l), Promoted(r)>>, 0)
      [] op \in Bits /\ numbers -> Node(op, "unsigned", WORD, 0, 0, <<l, r>>, 0)
      [] op \in Relational /\ numbers ->
            IF "signed" \in {l.kind, r.kind}
            THEN Node(op, "unsigned", WORD, 0, 0, <<Promoted(l), Promoted(r)>>, 0)
            ELSE Node(op, "unsigned", WORD, 0, 0, <<l, r>>, 0)
      [] op \in Logical /\ (l.kind \in Integer \/ l.indirect # 0)
                        /\ (r.kind \in Integer \/ r.indirect # 0) ->
            Node(op, "unsigned", WORD, 0, 0, <<l, r>>, 0)
      [] OTHER -> Bad("Cannot perform operation on non-numbers")

\* yyparse() of a tree, with the nodes that names stand for; the first error wins.
RECURSIVE Parse(_, _)
Parse(tree, names) ==
    LET second == Parse(tree[2], names)
        third == Parse(tree[3], names)
        fourth == Parse(tree[4], names)
        on(k, node) == IF Failed(k) THEN k ELSE node
    IN  CASE tree[1] = "int" -> Node("int", "unsigned", WORD, 0, 0, << >>, tree[2])
          [] tree[1] = "name" -> names[tree[2]]
          [] tree[1] = "item" -> on(second, on(third, Item(second, third)))
          [] tree[1] = "field" -> on(second, Field(second, tree[3]))
          [] tree[1] = "arrow" -> on(second, IF second.indirect > 1 THEN Bad("Not enough dereferences")
                                        ELSE IF Failed(Deref(second)) THEN Deref(second)
                                        ELSE Field(Deref(second), tree[3]))
          [] tree[1] = "cast" -> on(fourth, Cast(tree[2], tree[3], fourth))
          [] tree[1] = "unary" -> on(third, Unary(tree[2], third))
          [] tree[1] = "binary" -> on(third, on(fourth, Binary(tree[2], third, fourth)))

-----------------------------------------------------------------------------
(* The evaluation of a tree at a step.                                     *)

Value(v) == [v |-> v, error |-> ""]
Error(message) == [v |-> 0, error |-> message]

\* var_value(): the value of a node at an address.
var_value(n, addr, step) ==
    LET cells == get_var_value(addr, n.size, step) IN
    CASE n.indirect # 0 -> Value(Wrap(Unsigned(cells)))
      [] n.indirect = 0 /\ n.kind \in Integer -> Value(Wrap(Number(n.kind, cells)))
      [] OTHER -> Error("Unsupported type for variable")

\* Division as in C; one by zero, or whose result is too large, ends the server.
Quotient(a, b) ==
    LET q == (IF a < 0 THEN -a ELSE a) \div (IF b < 0 THEN -b ELSE b)
    IN  IF (a < 0) = (b < 0) THEN q ELSE -q
Divide(op, a, b) ==
    IF b = 0 \/ (2 * a = -FULL /\ b = -1) THEN Error("crash")
    ELSE Value(Wrap(IF op = "/" THEN Quotient(a, b) ELSE a - b * Quotient(a, b)))

\* The operators that signed_bin_op() and unsigned_bin_op() share.
Truth(b) == IF b THEN Value(1) ELSE Value(0)
Arithmetic(op, a, b) ==
    CASE op = "+" -> Value(Wrap(a + b))
      [] op = "-" -> Value(Wrap(a - b))
      [] op = "*" -> Value(Wrap(a * b))
      [] op = "/" -> Divide(op, a, b)
      [] op = "<" -> Truth(a < b)
      [] op = ">" -> Truth(a > b)
      [] op = "<=" -> Truth(a <= b)
      [] op = ">=" -> Truth(a >= b)
      [] op = "==" -> Truth(a = b)
      [] op = "!=" -> Truth(a # b)

signed_bin_op(op, a, b) ==
    IF op = "%" THEN Divide(op, AsSigned(a), AsSigned(b))
    ELSE IF op \in Bits THEN Error("internal error")
    ELSE Arithmetic(op, AsSigned(a), AsSigned(b))

\* The processor takes the count of a shift modulo the width.
unsigned_bin_op(op, a, b) ==
    CASE op = "%" -> Error("internal error")
      [] op = "&" -> Value(a & b)
      [] op = "|" -> Value(a | b)
      [] op = "^" -> Value(a ^^ b)
      [] op = "<<" -> Value(Wrap(a * 2 ^ (b % BITS)))
      [] op = ">>" -> Value(a \div 2 ^ (b % BITS))
      [] OTHER -> Arithmetic(op, a, b)

\* The bounds check of evaluate_node() for item number index of a node at addr.
ItemError(oracle, object, addr, index) ==
    LET t == Type[object.offset]
        v == get_pointer_size(oracle, addr)
    IN  IF t.dim # 0 /\ object.indirect = 0
        THEN IF index >= t.dim THEN "Array access out of bounds" ELSE ""
        ELSE IF v.what = "released" THEN "Memory has been already released"
        ELSE IF v.what = "success" /\ v.size # 0 /\ index >= v.size \div t.size
        THEN "Pointer access out of bounds" ELSE ""

\* A node whose left operand is a pointer: the test before the operation lets
\* pointer + integer through, and neither of the differences.
PointerRefused(n) ==
    LET r == n.kids[2] IN
    /\ ~(n.node = "+" /\ r.kind = "signed")
    /\ n.node = "-" /\ (r.kind = "signed" \/ r.indirect # 0)
PointerMath(n, left, right) ==
    LET size == n.kids[1].size
        offset == AsSigned(right) * size
        diff == Wrap(left - right)
    IN  IF n.kids[2].kind = "signed"
        THEN Value(Wrap(IF n.node = "+" THEN left + offset ELSE left - offset))
        ELSE IF diff % size # 0 THEN Error("Pointer difference isn't divisible by pointer size")
        ELSE Value(diff \div size)

\* evaluate_node(); address is FLAG_ADDR.
RECURSIVE evaluate_node(_, _, _, _)
evaluate_node(n, step, address, oracle) ==
    LET kid(i, flag) == evaluate_node(n.kids[i], step, flag, oracle)
        at(addr) == IF address THEN Value(Wrap(addr)) ELSE var_value(n, Wrap(addr), step)
        with(k, res) == IF k.error # "" THEN k ELSE res
        l == kid(1, FALSE)
        r == kid(2, FALSE)
        place == kid(1, TRUE)
        object == IF n.kids[1].indirect = 0 THEN place ELSE l
        problem == ItemError(oracle, n.kids[1], object.v, r.v)
    IN  CASE n.node = "int" -> Value(Wrap(n.val))
          [] n.node = "var" -> at(get_var_address(Var[n.val], step))
          [] n.node = "field" -> with(place, at(place.v + n.val))
          [] n.node = "item" ->
                with(object, with(r,
                     IF problem # "" THEN Error(problem) ELSE at(object.v + r.v * n.size)))
          [] n.node = "addr" -> place
          [] n.node = "deref" -> with(l, at(l.v))
          [] n.node = "neg" -> with(l, Value(Wrap(-l.v)))
          [] n.node = "inv" -> with(l, Value(FULL - 1 - l.v))
          [] n.node = "not" -> with(l, Truth(l.v = 0))
          [] n.node = "type" ->
                IF n.indirect = 0 /\ n.kind \notin Integer THEN Error("internal error")
                ELSE kid(1, n.kids[1].kind \in Compound \cup {"array"})
          [] OTHER ->
                IF n.kids[1].indirect # 0
                THEN IF PointerRefused(n)
                     THEN Error("Invalid operator or second operand type for pointer math")
                     ELSE with(l, with(r, PointerMath(n, l.v, r.v)))
                ELSE IF n.node \in Logical
                THEN with(l, IF (n.node = "&&") = (l.v = 0) THEN Truth(l.v # 0)
                             ELSE with(r, Truth(r.v # 0)))
                ELSE with(l, with(r,
                       IF "signed" \in {n.kids[1].kind, n.kids[2].kind}
                       THEN signed_bin_op(n.node, l.v, r.v)
                       ELSE unsigned_bin_op(n.node, l.v, r.v)))

\* The end of get_eval_result(), for arrays and for pointers to addr.
ArrayResult(id, n, what, addr, pointer_size) ==
    LET t == Type[n.offset]
        under == IF t.parent = 0 THEN t.size = 1 ELSE Type[t.parent].kind \in Integer
        dim == IF what = "array" THEN t.dim
               ELSE IF pointer_size = 0 THEN 1 ELSE pointer_size \div n.size
        length == IF pointer_size = 0 THEN STRING_LIMIT ELSE dim
        r == get_var_ref(ref, PTYPE_EXPR, id, "", addr, n.offset, n.indirect)
    IN  IF n.size = 1 /\ under
        THEN [out |-> <<StringEntry("", addr, get_var_value(addr, length, cur_step))>>, ref |-> ref]
        ELSE [out |-> <<Entry("", what, addr, << >>, r.id, dim)>>, ref |-> r.ref]

\* get_eval_result(): values of the frame's step, pointers of the current one.
get_eval_result(id, n, step, oracle) ==
    LET basic == n.indirect = 0 /\ n.kind \in Integer
        e == evaluate_node(n, step, ~basic /\ n.indirect = 0, oracle)
        v == get_pointer_size(oracle, e.v)
        only(entry) == [out |-> <<entry>>, ref |-> ref]
        r == get_var_ref(ref, PTYPE_EXPR, id, "", e.v, n.offset, 0)
    IN  CASE e.error # "" -> only(Plain("", IF e.error = "crash" THEN "crash" ELSE "error", 0))
          [] e.error = "" /\ basic ->
                only(Plain("", "number", IF n.kind = "signed" THEN AsSigned(e.v) ELSE e.v))
          [] e.error = "" /\ n.indirect = 0 /\ n.kind = "struct" ->
                [out |-> <<Entry("", "struct", 0, << >>, r.id, Type[n.offset].dim)>>, ref |-> r.ref]
          [] e.error = "" /\ n.indirect # 0 ->
                IF e.v = NULL THEN only(Plain("", "NULL", 0))
                ELSE IF v.what = "released" THEN only(Plain("", "dangling", e.v))
                ELSE IF v.what = "notfound" THEN only(Plain("", "invalid", e.v))
                ELSE ArrayResult(id, n, "at", e.v, v.size)
          [] OTHER -> ArrayResult(id, n, "array", e.v, 0)

-----------------------------------------------------------------------------
(* What an expression means in C, in a frame, from the memory the program  *)
(* had at the step of the frame (on the first line of a function, at the   *)
(* last step before it that is not one) and the heap at the current step.  *)

\* A number, or a place with its type under some stars and what it holds; "no"
\* if nothing is claimed, "error" if the server has to refuse.
Meant(ok, num, at, type, stars) ==
    [ok |-> ok, num |-> num, at |-> at, type |-> type, stars |-> stars]
Rvalue(num) ==
    Meant(IF -FULL <= 2 * num /\ 2 * num < FULL THEN "yes" ELSE "no", num, 0, 0, 0)
Unclear == Meant("no", 0, 0, 0, 0)
Refused == Meant("error", 0, 0, 0, 0)
\* Nothing is claimed of a pointer to something smaller than a word, of which the
\* server reads the first cells only, and of arrays and unions.
Lvalue(at, type, stars, step) ==
    LET size == IF stars # 0 THEN WORD ELSE Type[type].size
        num == IF stars # 0 THEN Unsigned(TrueCells(at, WORD, step))
               ELSE IF Type[type].kind \in Integer
               THEN Number(Type[type].kind, TrueCells(at, size, step)) ELSE 0
    IN  IF \/ ~IsMapped(at, size, step)
           \/ stars # 0 /\ Type[type].size < WORD
           \/ stars = 0 /\ Type[type].kind \notin Integer \cup {"struct"}
        THEN Unclear
        ELSE Meant(IF stars # 0 THEN "yes" ELSE Rvalue(num).ok, num, at, type, stars)

Under[t \in DOMAIN Type] ==
    IF Type[t].kind \in {"pointer", "alias"} THEN Under[Type[t].parent] ELSE t
Stars[t \in DOMAIN Type] ==
    CASE Type[t].kind = "pointer" -> 1 + Stars[Type[t].parent]
      [] Type[t].kind = "alias" -> Stars[Type[t].parent]
      [] OTHER -> 0
LvalueOf(at, t, step) == Lvalue(at, Under[t], Stars[t], step)

\* The variable a name stands for on a line: nothing is claimed of a name that
\* hides another one, for the server takes the one whose type is the simplest, of
\* a variable that is not declared yet, and of one whose type has a name, which
\* the server does not look behind.
MeantName(name, f) ==
    LET all == {v \in DOMAIN Var : /\ Var[v].name = name
                                   /\ Var[v].scope \in {f.scope} \cup Ancestors[f.scope]}
        v == Var[CHOOSE x \in all : TRUE]
    IN  IF all = {} THEN Refused
        ELSE IF \/ Cardinality(all) > 1
                \/ v.scope # GLOBAL_SCOPE /\ v.line >= f.line
                \/ \E i \in DOMAIN Chain[v.type] : Type[Chain[v.type][i]].kind = "alias"
        THEN Unclear
        ELSE LvalueOf(get_var_address(v, f.step), v.type, f.step)

\* Item i of the block a pointer leads to.
MeantItem(p, i, step) ==
    LET size == Type[p.type].size
        block == IF p.num \in Blocks THEN lives[cur_step][p.num] ELSE Never
    IN  IF p.num \in blurs[cur_step] \/ i < 0 \/ block = Never \/ size < WORD
        THEN Unclear
        ELSE IF block = Freed \/ i >= block \div size THEN Refused
        ELSE Lvalue(p.num + i * size, p.type, p.stars - 1, step)

MeantBinary(op, l, r) ==
    LET yes(b) == Rvalue(IF b THEN 1 ELSE 0) IN
    CASE op = "+" -> Rvalue(l.num + r.num)
      [] op = "-" -> Rvalue(l.num - r.num)
      [] op = "*" -> Rvalue(l.num * r.num)
      [] op = "/" /\ r.num # 0 -> Rvalue(Quotient(l.num, r.num))
      [] op = ">>" /\ l.num >= 0 /\ r.num \in 0 .. BITS - 1 -> Rvalue(l.num \div 2 ^ r.num)
      [] op = "&" /\ l.num >= 0 /\ r.num >= 0 -> Rvalue(l.num & r.num)
      [] op = "<" -> yes(l.num < r.num)
      [] op = "==" -> yes(l.num = r.num)
      [] op = "&&" -> yes(l.num # 0 /\ r.num # 0)
      [] op = "||" -> yes(l.num # 0 \/ r.num # 0)
      [] OTHER -> Unclear

RECURSIVE Denote(_, _)
Denote(tree, f) ==
    LET second == Denote(tree[2], f)
        third == Denote(tree[3], f)
        fourth == Denote(tree[4], f)
        on(k, m) == IF k.ok # "yes" THEN k ELSE m
        field(at, type, name) ==
            LET m == SelectSeq(Type[type].members, LAMBDA x : x.name = name)[1]
            IN  LvalueOf(at + m.start, m.type, f.step)
    IN  CASE tree[1] = "int" -> Rvalue(tree[2])
          [] tree[1] = "name" -> MeantName(tree[2], f)
          [] tree[1] = "item" -> on(second, on(third, IF second.stars = 0 THEN Unclear
                                             ELSE MeantItem(second, third.num, f.step)))
          [] tree[1] = "field" -> on(second, field(second.at, second.type, tree[3]))
          [] tree[1] = "arrow" -> on(second, IF second.num \notin Cells THEN Unclear
                                        ELSE field(second.num, second.type, tree[3]))
          [] tree[1] = "unary" /\ tree[2] = "neg" -> on(third, Rvalue(-third.num))
          [] tree[1] = "unary" /\ tree[2] = "!" ->
                on(third, Rvalue(IF third.num = 0 THEN 1 ELSE 0))
          [] tree[1] = "unary" /\ tree[2] = "*" ->
                on(third, Lvalue(third.num, third.type, third.stars - 1, f.step))
          [] tree[1] = "binary" ->
                on(third, on(fourth, IF third.stars + fourth.stars # 0 THEN Unclear
                            ELSE MeantBinary(tree[2], third, fourth)))
          [] OTHER -> Unclear

\* The answer that goes with a meaning.
WantResult(m) ==
    LET p == WantPointer("", m.num, m.type) IN
    CASE m.ok = "no" -> Unknown("")
      [] m.ok = "error" -> Wanted("", "error", 0, << >>, 0, Nowhere)
      [] m.ok = "yes" /\ m.stars # 0 ->
            [p EXCEPT !.dim = IF p.what = "at" THEN p.place.count ELSE @]
      [] m.ok = "yes" /\ m.stars = 0 /\ m.at # 0 /\ Type[m.type].kind = "struct" ->
            Wanted("", "struct", 0, << >>, Type[m.type].dim, Place(m.at, m.type, 1))
      [] OTHER -> Wanted("", "number", m.num, << >>, 0, Nowhere)

-----------------------------------------------------------------------------
(* The evaluate request.                                                   *)

\* query_expr_cache(): the row of the text, which is added when it is new.
query_expr_cache(text) ==
    LET at == {i \in DOMAIN expr : expr[i].text = text} IN
    IF at # {} THEN [expr |-> expr, id |-> CHOOSE i \in at : TRUE]
    ELSE [expr |-> Append(expr, [text |-> text, ast |-> NoTree]), id |-> Len(expr) + 1]

\* Mutant: the tree is stored in the row of its text.
MutantCacheTree(table, id, ast) == [table EXCEPT ![id].ast = ast]

\* update_expr_cache(): the number and the tree are bound in the wrong order, so
\* the statement looks for the row whose number is the address of the tree.
update_expr_cache(table, id, ast) == table

\* What the names of the program may stand for in a scope.
Names == {Var[v].name : v \in DOMAIN Var}
Resolutions == [scope \in DOMAIN Parent |->
    LET of(x) == Candidates(x, scope)
        choices == {S \in SUBSET UNION {of(x) : x \in Names} :
                      \A x \in Names : of(x) # {} => Cardinality(S \cap of(x)) = 1}
    IN  {[x \in Names |-> IF of(x) = {} THEN Bad("Unknown variable")
                          ELSE VarNode(CHOOSE v \in S : Var[v].name = x)] : S \in choices}]

\* What the parser may make of a text in a scope.
Parsed == [text \in DOMAIN Tree |-> [scope \in DOMAIN Parent |->
    {Parse(Tree[text], names) : names \in Resolutions[scope]}]]

\* process_evaluate() in a frame of the list.
Evaluate(text, frame) ==
    \E oracle \in Oracles : \E parsed \in Parsed[text][frame.scope] :
        LET q == query_expr_cache(text)
            cached == q.expr[q.id].ast
            ast == IF cached # NoTree THEN cached ELSE parsed
            answer == IF Failed(ast) THEN [out |-> <<Plain("", "error", 0)>>, ref |-> ref]
                      ELSE get_eval_result(q.id, ast, frame.step, oracle)
        IN  /\ expr' = IF Failed(ast) \/ cached # NoTree THEN q.expr
                       ELSE update_expr_cache(q.expr, q.id, ast)
            /\ Reply(answer, <<WantResult(Denote(Tree[text], frame))>>, PTYPE_EXPR, q.id)

-----------------------------------------------------------------------------
(* Specification.                                                          *)

ExprInit == VarsInit /\ expr = << >>

Ask == Asking /\ \E text \in DOMAIN Tree, i \in DOMAIN Frames : Evaluate(text, Frames[i])

ExprNext == (VarsNext /\ UNCHANGED expr) \/ Ask

ExprSpec == ExprInit /\ [][ExprNext]_allVars

\* An expression that is evaluated in a frame has the value it has in C there, as
\* long as no result leaves the range of a signed word: its names are the ones of
\* that frame, whatever the same text meant in the frames it was evaluated in
\* before; its variables have the values of the frame's step, on the first line
\* of a function of the last step before it that is not one; differences of
\* unsigned numbers may be negative; items beyond the end of a block and of a
\* released block are refused.  Nothing is claimed of names that are visible in
\* several scopes, or not declared yet on the frame's line, or of a type with a
\* name; of pointers to something smaller than a word; of arrays and unions
\* (process_evaluate, the grammar, evaluate_node).
EvaluatedExact ==
    \A i \in DOMAIN want : want[i].name = "" => Agrees(shown[i], want[i])
=============================================================================
