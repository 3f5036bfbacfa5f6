----------------------------- MODULE Expressions -----------------------------
(***************************************************************************)
(* Conditions over records (adabt-ir expr.rs), evaluated in three-valued    *)
(* logic by walking the tree, and the same conditions compiled once and run *)
(* per row on a machine with two stacks (vm.rs).  One action is one         *)
(* instruction of the machine.  The binary form a partial index keeps its   *)
(* condition in (adabt-engine exprcodec.rs), the fields a condition reads   *)
(* and the equalities it implies, which the executor and the planner go by, *)
(* are operators over the same trees.                                       *)
(***************************************************************************)
EXTENDS Values, Sequences, SequencesExt

CONSTANTS
    Fields,
    Exprs,      \* conditions
    Records,    \* functions from Fields to values, Missing where a field is absent
    Texts,      \* the texts text values stand for, a sequence of them
    MAX_DEPTH   \* nesting the binary form allows

VARIABLES
    expr, rec,      \* the condition and the row
    ops,            \* the program compiled from it
    pc,
    vals, truths    \* the two stacks

vmvars == <<expr, rec, ops, pc, vals, truths>>

Lit(v) == [k |-> "lit", v |-> v]
Field(f) == [k |-> "field", f |-> f]
ValueKinds == {"lit", "field", "arith"}
Bool(b) == [t |-> "bool", n |-> IF b THEN 1 ELSE 0, s |-> 0]
Absent(v) == v.t \in {"missing", "null"}

Truth(b) == IF b THEN "true" ELSE "false"
not(x) == IF x = "true" THEN "false" ELSE IF x = "false" THEN "true" ELSE "unknown"
and3(x, y) == IF "false" \in {x, y} THEN "false" ELSE IF "unknown" \in {x, y} THEN "unknown" ELSE "true"
or3(x, y) == IF "true" \in {x, y} THEN "true" ELSE IF "unknown" \in {x, y} THEN "unknown" ELSE "false"
AsTruth(v) == IF v.t = "bool" THEN Truth(v.n = 1) ELSE "unknown"

applies(op, a, b) ==
    LET c == cmp(a, b) IN
    CASE op = "eq" -> c = 0 [] op = "ne" -> c # 0 [] op = "lt" -> c < 0
      [] op = "le" -> c <= 0 [] op = "gt" -> c > 0 [] op = "ge" -> c >= 0
Compared(op, a, b) ==
    IF Absent(a) \/ Absent(b) THEN "unknown" ELSE Truth(applies(op, a, b))
Computed(op, a, b) ==
    IF "missing" \in {a.t, b.t} THEN Missing ELSE checked_arith(op, a, b)
\* The list is a sequence of values.
Among(v, list) ==
    IF Absent(v) THEN "unknown"
    ELSE IF \E i \in DOMAIN list : ~Absent(list[i]) /\ Same(list[i], v) THEN "true"
    ELSE IF \E i \in DOMAIN list : Absent(list[i]) THEN "unknown" ELSE "false"

-----------------------------------------------------------------------------
\* Patterns: a text, like a pattern, is a sequence of characters; a piece is a
\* character, any one character, or any run of them.

AnyRun == [any |-> "run", c |-> ""]
AnyOne == [any |-> "one", c |-> ""]
Char(c) == [any |-> "no", c |-> c]

RECURSIVE parse_like_pattern(_)
parse_like_pattern(p) ==
    IF p = <<>> THEN <<>>
    ELSE IF Head(p) = "%" THEN <<AnyRun>> \o parse_like_pattern(Tail(p))
    ELSE IF Head(p) = "_" THEN <<AnyOne>> \o parse_like_pattern(Tail(p))
    ELSE IF Head(p) = "\\" /\ Len(p) > 1 THEN <<Char(p[2])>> \o parse_like_pattern(SubSeq(p, 3, Len(p)))
    ELSE <<Char(Head(p))>> \o parse_like_pattern(Tail(p))

RECURSIVE matches_from(_, _)
matches_from(text, p) ==
    IF p = <<>> THEN text = <<>>
    ELSE IF Head(p).any = "run"
         THEN matches_from(text, Tail(p)) \/ (text # <<>> /\ matches_from(Tail(text), p))
    ELSE /\ text # <<>> /\ (Head(p).any = "one" \/ Head(text) = Head(p).c)
         /\ matches_from(Tail(text), Tail(p))

\* The text of a text value, and what a condition asks of it.
TextOf(v) == Texts[v.n + 1]
Likened(v, p) ==
    IF v.t = "str" THEN Truth(matches_from(TextOf(v), parse_like_pattern(p))) ELSE "unknown"

-----------------------------------------------------------------------------
\* The tree walker

RECURSIVE value(_, _)
value(e, r) ==
    IF e.k = "lit" THEN e.v
    ELSE IF e.k = "field" THEN r[e.f]
    ELSE IF e.k = "arith" THEN Computed(e.op, value(e.a, r), value(e.b, r))
    ELSE Missing

RECURSIVE evaluate(_, _)
evaluate(e, r) ==
    CASE e.k \in ValueKinds -> AsTruth(value(e, r))
      [] e.k = "cmp" -> Compared(e.op, value(e.a, r), value(e.b, r))
      [] e.k = "not" -> not(evaluate(e.a, r))
      [] e.k = "isnull" -> Truth(Absent(value(e.a, r)))
      [] e.k = "notnull" -> Truth(~Absent(value(e.a, r)))
      [] e.k = "in" -> Among(value(e.a, r), [i \in DOMAIN e.list |-> value(e.list[i], r)])
      [] e.k = "like" -> Likened(value(e.a, r), e.p)
      [] e.k = "and" -> FoldLeft(and3, "true", [i \in DOMAIN e.list |-> evaluate(e.list[i], r)])
      [] e.k = "or" -> FoldLeft(or3, "false", [i \in DOMAIN e.list |-> evaluate(e.list[i], r)])
matches(e, r) == evaluate(e, r) = "true"

\* The parts of an expression.
Parts(e) ==
    CASE e.k \in {"lit", "field"} -> <<>>
      [] e.k \in {"cmp", "arith"} -> <<e.a, e.b>>
      [] e.k \in {"and", "or"} -> e.list
      [] e.k = "in" -> <<e.a>> \o e.list
      [] OTHER -> <<e.a>>

RECURSIVE referenced_fields(_)
referenced_fields(e) ==
    IF e.k = "field" THEN {e.f} ELSE UNION {referenced_fields(Parts(e)[i]) : i \in DOMAIN Parts(e)}

\* The equalities every row the condition keeps must satisfy.
RECURSIVE equality_constraints(_)
equality_constraints(e) ==
    IF e.k = "cmp" /\ e.op = "eq" /\ {e.a.k, e.b.k} = {"field", "lit"}
    THEN {IF e.a.k = "field" THEN <<e.a.f, e.b.v>> ELSE <<e.b.f, e.a.v>>}
    ELSE IF e.k = "and" THEN UNION {equality_constraints(e.list[i]) : i \in DOMAIN e.list} ELSE {}

-----------------------------------------------------------------------------
\* The compiler.  A jump's target is an instruction's index, or the one past the last.

I(op) == [op |-> op]
RECURSIVE emit_value(_)
emit_value(e) ==
    IF e.k = "lit" THEN <<[op |-> "val", v |-> e.v]>>
    ELSE IF e.k = "field" THEN <<[op |-> "load", f |-> e.f]>>
    ELSE IF e.k = "arith" THEN emit_value(e.a) \o emit_value(e.b) \o <<[op |-> "arith", by |-> e.op]>>
    ELSE <<[op |-> "val", v |-> Missing]>>

\* A part's program at its place in the whole.
Shifted(code, n) ==
    [i \in DOMAIN code |->
        IF code[i].op \in {"jumpfalse", "jumptrue"} THEN [code[i] EXCEPT !.to = @ + n] ELSE code[i]]

\* The parts' programs with a fold after each but the first, and after each but the last
\* a jump, once the answer is settled, to a distance past the last instruction.
FoldedUpTo(codes, is_and, past) ==
    LET fold == I(IF is_and THEN "and" ELSE "or")
        jump(to) == [op |-> IF is_and THEN "jumpfalse" ELSE "jumptrue", to |-> to]
        size(i) == Len(codes[i]) + (IF i > 1 THEN 1 ELSE 0) + (IF i < Len(codes) THEN 1 ELSE 0)
        start[i \in 1..(Len(codes) + 1)] == IF i = 1 THEN 0 ELSE start[i - 1] + size(i - 1)
    IN FlattenSeq([i \in DOMAIN codes |->
           Shifted(codes[i], start[i])
           \o (IF i > 1 THEN <<fold>> ELSE <<>>)
           \o (IF i < Len(codes) THEN <<jump(start[Len(codes) + 1] + past)>> ELSE <<>>)])
Folded(codes, is_and) == FoldedUpTo(codes, is_and, 1)

RECURSIVE emit_pred(_)
emit_pred(e) ==
    CASE e.k = "lit" /\ e.v.t \in {"bool", "null"} -> <<[op |-> "truth", is |-> AsTruth(e.v)]>>
      [] e.k \in ValueKinds /\ ~(e.k = "lit" /\ e.v.t \in {"bool", "null"}) -> emit_value(e) \o <<I("totruth")>>
      [] e.k = "cmp" -> emit_value(e.a) \o emit_value(e.b) \o <<[op |-> "cmp", by |-> e.op]>>
      [] e.k = "not" -> emit_pred(e.a) \o <<I("not")>>
      [] e.k \in {"isnull", "notnull"} -> emit_value(e.a) \o <<I(e.k)>>
      [] e.k = "in" -> emit_value(e.a) \o FlattenSeq([i \in DOMAIN e.list |-> emit_value(e.list[i])])
                       \o <<[op |-> "in", n |-> Len(e.list)]>>
      [] e.k = "like" -> emit_value(e.a) \o <<[op |-> "like", p |-> e.p]>>
      [] e.k \in {"and", "or"} ->
            IF e.list = <<>> THEN <<[op |-> "truth", is |-> Truth(e.k = "and")]>>
            ELSE Folded([i \in DOMAIN e.list |-> emit_pred(e.list[i])], e.k = "and")

-----------------------------------------------------------------------------
\* The machine.  An empty stack answers a pop with no value, or with unknown.

Val(k) == IF Len(vals) >= k THEN vals[Len(vals) - k + 1] ELSE Missing
Tru(k) == IF Len(truths) >= k THEN truths[Len(truths) - k + 1] ELSE "unknown"
Without(s, k) == SubSeq(s, 1, IF Len(s) >= k THEN Len(s) - k ELSE 0)
Running == pc <= Len(ops)
Now == ops[pc]

PushVal(n, v) ==
    /\ vals' = Append(Without(vals, n), v)
    /\ pc' = pc + 1 /\ UNCHANGED <<expr, rec, ops, truths>>
Judge(n, x) ==
    /\ vals' = Without(vals, n) /\ truths' = Append(truths, x)
    /\ pc' = pc + 1 /\ UNCHANGED <<expr, rec, ops>>
PushTruth(n, x) ==
    /\ truths' = Append(Without(truths, n), x)
    /\ pc' = pc + 1 /\ UNCHANGED <<expr, rec, ops, vals>>

load ==
    /\ Running
    /\ \/ Now.op = "val" /\ PushVal(0, Now.v)
       \/ Now.op = "load" /\ PushVal(0, rec[Now.f])

arith == Running /\ Now.op = "arith" /\ PushVal(2, Computed(Now.by, Val(2), Val(1)))

compare == Running /\ Now.op = "cmp" /\ Judge(2, Compared(Now.by, Val(2), Val(1)))

judge ==
    /\ Running
    /\ \/ Now.op = "totruth" /\ Judge(1, AsTruth(Val(1)))
       \/ Now.op = "isnull" /\ Judge(1, Truth(Absent(Val(1))))
       \/ Now.op = "notnull" /\ Judge(1, Truth(~Absent(Val(1))))
       \/ Now.op = "like" /\ Judge(1, Likened(Val(1), Now.p))

among ==
    /\ Running /\ Now.op = "in"
    /\ Judge(Now.n + 1, Among(Val(Now.n + 1), SubSeq(vals, Len(vals) - Now.n + 1, Len(vals))))

fold ==
    /\ Running
    /\ \/ Now.op = "truth" /\ PushTruth(0, Now.is)
       \/ Now.op = "not" /\ PushTruth(1, not(Tru(1)))
       \/ Now.op = "and" /\ PushTruth(2, and3(Tru(2), Tru(1)))
       \/ Now.op = "or" /\ PushTruth(2, or3(Tru(2), Tru(1)))

\* An answer that is not true taken for false.
Settled_by_unknown(op, x) == IF op = "jumpfalse" THEN x # "true" ELSE x = "true"
Settled(op, x) == x = IF op = "jumpfalse" THEN "false" ELSE "true"

jump ==
    /\ Running /\ Now.op \in {"jumpfalse", "jumptrue"}
    /\ pc' = IF truths # <<>> /\ Settled(Now.op, Tru(1)) THEN Now.to ELSE pc + 1
    /\ UNCHANGED <<expr, rec, ops, vals, truths>>

VmInit ==
    /\ expr \in Exprs /\ rec \in Records
    /\ ops = emit_pred(expr) /\ pc = 1 /\ vals = <<>> /\ truths = <<>>
VmNext == load \/ arith \/ compare \/ judge \/ among \/ fold \/ jump
VmSpec == VmInit /\ [][VmNext]_vmvars

-----------------------------------------------------------------------------
\* The binary form: a token per tag, operator, count, name or value.

Error == [k |-> "error"]
T(v) == <<[tok |-> v]>>
Flat(seqs) == IF \E i \in DOMAIN seqs : seqs[i] = <<Error>> THEN <<Error>> ELSE FlattenSeq(seqs)

RECURSIVE encode(_, _)
encode(e, depth) ==
    LET below(x) == encode(x, depth + 1)
        all(list) == Flat([i \in DOMAIN list |-> below(list[i])])
    IN IF depth > MAX_DEPTH THEN <<Error>>
       ELSE CASE e.k = "lit" -> T("lit") \o T(e.v)
              [] e.k = "field" -> T("field") \o T(e.f)
              [] e.k \in {"cmp", "arith"} -> Flat(<<T(e.k) \o T(e.op), below(e.a), below(e.b)>>)
              [] e.k \in {"and", "or"} -> Flat(<<T(e.k) \o T(Len(e.list)), all(e.list)>>)
              [] e.k = "in" -> Flat(<<T("in"), below(e.a), T(Len(e.list)), all(e.list)>>)
              [] e.k = "like" -> Flat(<<T("like"), below(e.a), T(e.p)>>)
              [] OTHER -> Flat(<<T(e.k), below(e.a)>>)

\* What was read from a place on, and where the next token is.
Got(e, at) == [e |-> e, at |-> at]
Bad == Got(Error, 0)
Counted == [k |-> "count"]
Combine(parts, Make(_)) ==
    IF \E i \in DOMAIN parts : parts[i].e = Error THEN Bad
    ELSE Got(Make([i \in DOMAIN parts |-> parts[i].e]), parts[Len(parts)].at)

RECURSIVE get(_, _, _), gets(_, _, _, _)
gets(buf, at, depth, n) ==
    IF n = 0 THEN <<>>
    ELSE LET first == get(buf, at, depth) IN
         IF first.e = Error THEN <<Bad>> ELSE <<first>> \o gets(buf, first.at, depth, n - 1)
get(buf, at, depth) ==
    IF depth > MAX_DEPTH \/ at > Len(buf) THEN Bad
    ELSE
    LET k == buf[at].tok
        has(i) == at + i <= Len(buf)
        below(from, n) == gets(buf, from, depth + 1, n)
        \* A count is not believed beyond what is left.
        counted(from) == from <= Len(buf) /\ buf[from].tok <= Len(buf) - from
        items(from) == <<Got(Counted, from + 1)>> \o below(from + 1, buf[from].tok)
    IN CASE k = "lit" -> IF has(1) THEN Got(Lit(buf[at + 1].tok), at + 2) ELSE Bad
         [] k = "field" -> IF has(1) THEN Got(Field(buf[at + 1].tok), at + 2) ELSE Bad
         [] k \in {"cmp", "arith"} ->
              IF ~has(1) THEN Bad
              ELSE Combine(below(at + 2, 2),
                       LAMBDA es : [k |-> k, op |-> buf[at + 1].tok, a |-> es[1], b |-> es[2]])
         [] k \in {"and", "or"} ->
              IF ~counted(at + 1) THEN Bad
              ELSE Combine(items(at + 1), LAMBDA es : [k |-> k, list |-> Tail(es)])
         [] k = "in" ->
              LET needle == get(buf, at + 1, depth + 1) IN
              IF needle.e = Error \/ ~counted(needle.at) THEN Bad
              ELSE Combine(items(needle.at), LAMBDA es : [k |-> k, a |-> needle.e, list |-> Tail(es)])
         [] k = "like" ->
              LET text == get(buf, at + 1, depth + 1) IN
              IF text.e = Error \/ text.at > Len(buf) THEN Bad
              ELSE Got([k |-> k, a |-> text.e, p |-> buf[text.at].tok], text.at + 1)
         [] OTHER -> Combine(below(at + 1, 1), LAMBDA es : [k |-> k, a |-> es[1]])

encode_expr(e) == encode(e, 0)
decode_expr(buf) ==
    LET all == get(buf, 1, 0) IN IF all.at = Len(buf) + 1 THEN all.e ELSE Error

-----------------------------------------------------------------------------
\* Properties

\* The machine never pops what was not pushed, and ends with one answer and nothing
\* else (Program::run, whose pops would take an empty stack for "unknown").
Operands ==
    [val |-> <<0, 0>>, load |-> <<0, 0>>, truth |-> <<0, 0>>, arith |-> <<2, 0>>, cmp |-> <<2, 0>>,
     totruth |-> <<1, 0>>, isnull |-> <<1, 0>>, notnull |-> <<1, 0>>, like |-> <<1, 0>>,
     not |-> <<0, 1>>, and |-> <<0, 2>>, or |-> <<0, 2>>, jumpfalse |-> <<0, 1>>, jumptrue |-> <<0, 1>>]
StacksBalance ==
    /\ pc \in 1..(Len(ops) + 1)
    /\ IF Running
       THEN IF Now.op = "in" THEN Len(vals) > Now.n
            ELSE Len(vals) >= Operands[Now.op][1] /\ Len(truths) >= Operands[Now.op][2]
       ELSE vals = <<>> /\ Len(truths) = 1

\* The compiled condition answers as the tree does, unknown included (vm.rs's promise
\* that "the compiled and interpreted evaluators never disagree").
CompiledAgrees == ~Running => Tru(1) = evaluate(expr, rec)

\* A row is decided by the fields its condition names: evaluated over those alone it
\* gives the same answer (Expr::referenced_fields, on which filter_by_peek rests).
ReferencedFieldsSuffice ==
    pc = 1 => LET probe == [f \in Fields |-> IF f \in referenced_fields(expr) THEN rec[f] ELSE Missing]
              IN evaluate(expr, probe) = evaluate(expr, rec)

\* Every row a condition keeps has the equalities read off it, so looking its rows up by
\* one of them loses none (Expr::equality_constraints, which the planner's index
\* choice and the partial index test go by).
ConstraintsAreImplied ==
    (pc = 1 /\ matches(expr, rec)) => \A c \in equality_constraints(expr) : Same(rec[c[1]], c[2])

\* A condition that is stored comes back as it was, and any part of it is refused: a
\* partial index never returns with another condition than its own (exprcodec.rs).
ConditionsComeBack ==
    LET buf == encode_expr(expr) IN
    (pc = 1 /\ buf # <<Error>>) =>
        /\ decode_expr(buf) = expr
        /\ \A n \in 0..(Len(buf) - 1) : decode_expr(SubSeq(buf, 1, n)) = Error
        /\ decode_expr(buf \o T("lit")) = Error

\* A pattern matches a text when the text can be cut into one stretch per piece, each
\* what its piece allows (matches_from).
Cuts(n, k) == {c \in [0..k -> 0..n] : c[0] = 0 /\ c[k] = n /\ \A i \in 1..k : c[i - 1] <= c[i]}
PatternsMatchByCutting ==
    (pc = 1 /\ expr.k = "like" /\ value(expr.a, rec).t = "str") =>
        LET text == TextOf(value(expr.a, rec))
            p == parse_like_pattern(expr.p)
        IN matches_from(text, p) =
             \E c \in Cuts(Len(text), Len(p)) : \A i \in DOMAIN p :
                \/ p[i].any = "run"
                \/ /\ c[i] = c[i - 1] + 1
                   /\ (p[i].any = "one" \/ text[c[i]] = p[i].c)

\* Every use that is made of a condition agrees with evaluating it.
ExpressionInvariant ==
    /\ StacksBalance /\ CompiledAgrees /\ ReferencedFieldsSuffice /\ ConstraintsAreImplied
    /\ ConditionsComeBack /\ PatternsMatchByCutting
=============================================================================
