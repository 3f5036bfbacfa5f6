--------------------------------- MODULE Sql ---------------------------------
(***************************************************************************)
(* The SQL front-end of adabt-ir: a recursive-descent parser from tokens to *)
(* the logical plan.  The lexer is abstracted: a token is a string, and a   *)
(* column is the sequence of its parts.  A plan is the sequence of its      *)
(* operators from the scan upwards.  Somebody types a statement, perhaps    *)
(* with a token missing or twice, and the parser answers with a plan or     *)
(* refuses.                                                                 *)
(***************************************************************************)
EXTENDS Integers, Sequences, FiniteSets, Functions, SequencesExt

CONSTANTS Statements,   \* [list, base, join, where, group, order, limit]
          Table,        \* the rows a plan without a join is evaluated on, in record order
          MaxEdits      \* bound: tokens dropped or doubled

Symbols == {"(", ")", ",", "*", ".", "=", "<", ">", "<=", ">=", "<>"}
Comparisons == {"=", "<", ">", "<=", ">=", "<>"}
Numerals == {"0", "1", "2"}
Texts == {"'x'"}
Words(t) == t # <<>> /\ t[1] \notin Symbols \cup Numerals \cup Texts
reserved == {"from", "where", "group", "order", "by", "limit", "join", "on", "left", "inner",
             "and", "or", "not", "is", "null", "as"}
Refused == {"insert", "update", "delete", "create", "drop", "alter", "with"}
Aggregates == {"count", "sum"}

VARIABLES toks,     \* the statement as typed
          meant,    \* the statement it was printed from
          plan,     \* what the parser made of it
          edits     \* tokens dropped or doubled so far

sqlvars == <<toks, meant, plan, edits>>

----------------------------------------------------------------------------
(* The parser: each function takes the tokens left and gives what it read    *)
(* and what it left, or Bad.                                                 *)

Got(val, rest) == [ok |-> TRUE, val |-> val, rest |-> rest]
Bad == [ok |-> FALSE]
Then(r, F(_, _)) == IF r.ok THEN F(r.val, r.rest) ELSE Bad

Eats(t, w) == t # <<>> /\ t[1] = w
Past(t, w) == IF Eats(t, w) THEN Tail(t) ELSE t
expect(t, w) == IF Eats(t, w) THEN Got(w, Tail(t)) ELSE Bad
identifier(t) == IF Words(t) THEN Got(t[1], Tail(t)) ELSE Bad
column(t) ==
    Then(identifier(t), LAMBDA first, r :
        IF Eats(r, ".") THEN Then(identifier(Tail(r)), LAMBDA second, s : Got(<<first, second>>, s))
        ELSE Got(<<first>>, r))
Separated(P(_), by, t) ==
    LET RECURSIVE More(_, _)
        More(got, r) ==
            Then(P(r), LAMBDA v, s : IF Eats(s, by) THEN More(Append(got, v), Tail(s))
                                     ELSE Got(Append(got, v), s))
    IN More(<<>>, t)

E(is, of) == [is |-> is, of |-> of]
parse_value(t) ==
    CASE t # <<>> /\ t[1] \in Numerals \cup Texts \cup {"null", "true", "false"} ->
             Got([is |-> "literal", of |-> <<>>, name |-> <<t[1]>>], Tail(t))
      [] Words(t) /\ t[1] \notin {"null", "true", "false"} ->
             Then(column(t), LAMBDA c, r : Got([is |-> "field", of |-> <<>>, name |-> c], r))
      [] OTHER -> Bad

Negated(negated, e) == IF negated THEN E("not", <<e>>) ELSE e
Tested(lhs, r) ==
    LET negated == Eats(r, "not")
        s == Past(r, "not")
    IN CASE Eats(r, "is") ->
                LET kind == IF Eats(Tail(r), "not") THEN "is not null" ELSE "is null"
                IN Then(expect(Past(Tail(r), "not"), "null"), LAMBDA w, u : Got(E(kind, <<lhs>>), u))
         [] Eats(s, "in") ->
                Then(expect(Tail(s), "("), LAMBDA w, u :
                Then(Separated(parse_value, ",", u), LAMBDA list, v :
                Then(expect(v, ")"), LAMBDA x, y : Got(Negated(negated, E("in", <<lhs>> \o list)), y))))
         [] Eats(s, "like") /\ Len(s) > 1 /\ s[2] \in Texts ->
                Got(Negated(negated, E("like", <<lhs, parse_value(Tail(s)).val>>)), Tail(Tail(s)))
         [] ~ negated /\ r # <<>> /\ r[1] \in Comparisons ->
                Then(parse_value(Tail(r)), LAMBDA rhs, u : Got(E(r[1], <<lhs, rhs>>), u))
         [] OTHER -> Bad

RECURSIVE parse_or(_), parse_not(_)
One(r, is) == Then(r, LAMBDA parts, s : Got(IF Len(parts) = 1 THEN parts[1] ELSE E(is, parts), s))
parse_predicate(t) ==
    IF Eats(t, "(")
    THEN Then(parse_or(Tail(t)), LAMBDA e, r : Then(expect(r, ")"), LAMBDA w, s : Got(e, s)))
    ELSE Then(parse_value(t), Tested)
parse_not(t) ==
    IF Eats(t, "not") THEN Then(parse_not(Tail(t)), LAMBDA e, r : Got(E("not", <<e>>), r))
    ELSE parse_predicate(t)
parse_and(t) == One(Separated(parse_not, "and", t), "and")
parse_or(t) == One(Separated(parse_and, "or", t), "or")

\* What an aggregate's column is called when the statement does not say.
default_output(kind, of) == <<kind, IF of = <<>> THEN "star" ELSE of[Len(of)]>>
parse_aggregate(t) ==
    LET named(of, r) ==
            IF Eats(r, "as") THEN identifier(Tail(r))
            ELSE IF Words(r) /\ r[1] \notin reserved THEN identifier(r)
            ELSE Got(default_output(t[1], of), r)
        closed(of, r) ==
            Then(expect(r, ")"), LAMBDA w, s :
                IF of = <<>> /\ t[1] # "count" THEN Bad
                ELSE Then(named(of, s), LAMBDA out, u :
                         Got([kind |-> t[1], of |-> of,
                              out |-> IF u = s THEN out ELSE <<out>>], u)))
    IN IF Eats(Tail(Tail(t)), "*") THEN closed(<<>>, Tail(Tail(Tail(t))))
       ELSE Then(column(Tail(Tail(t))), closed)
item(t) ==
    CASE Eats(t, "*") -> Got([kind |-> "star", of |-> <<>>, out |-> <<>>], Tail(t))
      [] Len(t) > 1 /\ t[1] \in Aggregates /\ t[2] = "(" -> parse_aggregate(t)
      [] OTHER -> Then(column(t), LAMBDA c, r : Got([kind |-> "column", of |-> c, out |-> c], r))

Op(op, of) == <<[op |-> op, of |-> of]>>
Joins(t) == Eats(t, "left") \/ Eats(t, "inner") \/ Eats(t, "join")
joined(p, t) ==
    LET kind == IF Eats(t, "left") THEN "left" ELSE "inner"
        r == Past(IF kind = "left" THEN Past(Tail(t), "outer") ELSE Past(t, "inner"), "join")
    IN IF ~ Joins(t) THEN Got(p, t)
       ELSE Then(expect(IF kind = "left" THEN Past(Tail(t), "outer") ELSE Past(t, "inner"), "join"),
                 LAMBDA w, r0 :
            Then(identifier(r), LAMBDA right, r1 :
            Then(expect(r1, "on"), LAMBDA x, r2 :
            Then(column(r2), LAMBDA lk, r3 :
            Then(expect(r3, "="), LAMBDA y, r4 :
            Then(column(r4), LAMBDA rk, r5 :
                IF Joins(r5) THEN Bad
                ELSE Got(p \o Op("join", <<kind, right, lk[Len(lk)], rk[Len(rk)]>>), r5)))))))
filtered(p, t) ==
    IF Eats(t, "where") THEN Then(parse_or(Tail(t)), LAMBDA e, r : Got(p \o Op("filter", <<e>>), r))
    ELSE Got(p, t)

\* The items of the select list that are columns, and those that are aggregates.
Columns(items) == LET kept == SelectSeq(items, LAMBDA i : i.kind = "column")
                  IN [i \in DOMAIN kept |-> kept[i].of]
Aggs(items) == SelectSeq(items, LAMBDA i : i.kind \in Aggregates)
shaped(items, p, t) ==
    Then(IF Eats(t, "group")
         THEN Then(expect(Tail(t), "by"), LAMBDA w, r : Separated(column, ",", r))
         ELSE Got(<<>>, t),
         LAMBDA group, r :
             CASE Aggs(items) # <<>> -> Got(p \o Op("aggregate", <<group, Aggs(items)>>), r)
               [] Aggs(items) = <<>> /\ group # <<>> -> Bad
               [] OTHER -> Got(IF \E i \in DOMAIN items : items[i].kind = "star" THEN p
                               ELSE p \o Op("project", Columns(items)), r))
sort_key_upwards(t) ==
    Then(column(t), LAMBDA c, r :
        Got([by |-> c, descending |-> FALSE], IF Eats(r, "desc") THEN Tail(r) ELSE Past(r, "asc")))
sort_key(t) ==
    Then(column(t), LAMBDA c, r :
        Got([by |-> c, descending |-> Eats(r, "desc")], IF Eats(r, "desc") THEN Tail(r) ELSE Past(r, "asc")))
ordered(p, t) ==
    IF Eats(t, "order")
    THEN Then(expect(Tail(t), "by"), LAMBDA w, r :
         Then(Separated(sort_key, ",", r), LAMBDA keys, s : Got(p \o Op("sort", keys), s)))
    ELSE Got(p, t)
limited(p, t) ==
    CASE ~ Eats(t, "limit") -> Got(p, t)
      [] Len(t) > 1 /\ t[2] \in Numerals -> Got(p \o Op("limit", <<t[2]>>), Tail(Tail(t)))
      [] OTHER -> Bad
ended(p, t) == IF t = <<>> THEN Got(p, t) ELSE Bad

Clauses(items, p, t) ==
    Then(filtered(p, t), LAMBDA p1, r1 :
    Then(shaped(items, p1, r1), LAMBDA p2, r2 :
    Then(ordered(p2, r2), LAMBDA p3, r3 :
    Then(limited(p3, r3), LAMBDA p4, r4 : ended(p4, r4)))))

parse_select(t) ==
    IF t = <<>> \/ t[1] \in Refused THEN Bad
    ELSE Then(expect(t, "select"), LAMBDA w, r1 :
         Then(Separated(item, ",", r1), LAMBDA items, r2 :
         Then(expect(r2, "from"), LAMBDA x, r3 :
         Then(identifier(r3), LAMBDA base, r4 :
         Then(joined(Op("scan", <<base>>), r4), LAMBDA p, r5 : Clauses(items, p, r5))))))

----------------------------------------------------------------------------
(* The language, written the other way round: statements printed as tokens,   *)
(* with parentheses only where precedence needs them.                         *)

Between(parts, sep) ==
    FlattenSeq([i \in DOMAIN parts |-> (IF i = 1 THEN <<>> ELSE <<sep>>) \o parts[i]])
Name(c) == Between([i \in DOMAIN c |-> <<c[i]>>], ".")
Named(cs) == Between([i \in DOMAIN cs |-> Name(cs[i])], ",")

RECURSIVE Shown(_, _)
\* An expression, where only what binds at least as tightly as `tight` goes unparenthesised.
Shown(e, tight) ==
    LET all(of, sep, t) == Between([i \in DOMAIN of |-> Shown(of[i], t)], sep)
        parens(s, level) == IF level < tight THEN <<"(">> \o s \o <<")">> ELSE s
        in(of, how) == Shown(of[1], 4) \o how \o <<"in", "(">> \o all(Tail(of), ",", 4) \o <<")">>
        like(of, how) == Shown(of[1], 4) \o how \o <<"like">> \o Shown(of[2], 4)
        inner == e.of[1]
    IN CASE e.is \in {"literal", "field"} -> Name(e.name)
         [] e.is = "or" -> parens(all(e.of, "or", 2), 1)
         [] e.is = "and" -> parens(all(e.of, "and", 3), 2)
         [] e.is = "not" /\ inner.is = "in" -> in(inner.of, <<"not">>)
         [] e.is = "not" /\ inner.is = "like" -> like(inner.of, <<"not">>)
         [] e.is = "not" /\ inner.is \notin {"in", "like"} -> <<"not">> \o Shown(inner, 3)
         [] e.is = "is null" -> Shown(inner, 4) \o <<"is", "null">>
         [] e.is = "is not null" -> Shown(inner, 4) \o <<"is", "not", "null">>
         [] e.is = "in" -> in(e.of, <<>>)
         [] e.is = "like" -> like(e.of, <<>>)
         [] e.is \in Comparisons -> Shown(e.of[1], 4) \o <<e.is>> \o Shown(e.of[2], 4)

ShownItem(i) ==
    CASE i.kind = "star" -> <<"*">>
      [] i.kind = "column" -> Name(i.of)
      [] OTHER -> <<i.kind, "(">> \o (IF i.of = <<>> THEN <<"*">> ELSE Name(i.of)) \o <<")">>
                    \o (IF i.out = default_output(i.kind, i.of) THEN <<>> ELSE i.out)
Shown_key(k) == Name(k.by) \o (IF k.descending THEN <<"desc">> ELSE <<>>)
Clause(words, of) == IF of = <<>> THEN <<>> ELSE words \o of
Typed(st) ==
    <<"select">> \o Between([i \in DOMAIN st.list |-> ShownItem(st.list[i])], ",")
      \o <<"from", st.base>>
      \o (IF st.join = <<>> THEN <<>>
          ELSE (IF st.join[1] = "left" THEN <<"left">> ELSE <<>>)
                 \o <<"join", st.join[2], "on", st.join[3], "=", st.join[4]>>)
      \o (IF st.where = <<>> THEN <<>> ELSE <<"where">> \o Shown(st.where[1], 1))
      \o Clause(<<"group", "by">>, Named(st.group))
      \o Clause(<<"order", "by">>, Between([i \in DOMAIN st.order |-> Shown_key(st.order[i])], ","))
      \o Clause(<<"limit">>, st.limit)

\* The statement a plan stands for.
Part(p, op) == LET found == SelectSeq(p, LAMBDA o : o.op = op)
               IN IF found = <<>> THEN <<>> ELSE found[1].of
Statement(p) ==
    [base |-> Part(p, "scan")[1], join |-> Part(p, "join"), where |-> Part(p, "filter"),
     order |-> Part(p, "sort"), limit |-> Part(p, "limit"),
     group |-> IF Part(p, "aggregate") = <<>> THEN <<>> ELSE Part(p, "aggregate")[1],
     list |-> CASE Part(p, "aggregate") # <<>> -> Part(p, "aggregate")[2]
                [] Part(p, "project") # <<>> ->
                     [i \in DOMAIN Part(p, "project") |->
                        [kind |-> "column", of |-> Part(p, "project")[i], out |-> Part(p, "project")[i]]]
                [] OTHER -> <<[kind |-> "star", of |-> <<>>, out |-> <<>>]>>]
Noise == {"inner", "outer", "asc", "as", "(", ")"}
Quiet(t) == SelectSeq(t, LAMBDA w : w \notin Noise)

----------------------------------------------------------------------------
(* What a plan answers, and what the statement asks: a row maps columns to    *)
(* numbers.                                                                   *)

Number == [t \in Numerals |-> CHOOSE n \in 0 .. 2 : ToString(n) = t]
RECURSIVE Holds(_, _)
Holds(e, row) ==
    LET v(x) == CASE x.is = "field" -> row[x.name]
                  [] x.name[1] \in Numerals -> Number[x.name[1]]
                  [] OTHER -> -1
    IN CASE e.is = "or" -> \E i \in DOMAIN e.of : Holds(e.of[i], row)
         [] e.is = "and" -> \A i \in DOMAIN e.of : Holds(e.of[i], row)
         [] e.is = "not" -> ~ Holds(e.of[1], row)
         [] e.is = "=" -> v(e.of[1]) = v(e.of[2])
         [] e.is = "<" -> v(e.of[1]) < v(e.of[2])
         [] e.is = "in" -> \E i \in 2 .. Len(e.of) : v(e.of[1]) = v(e.of[i])
         [] e.is \in {"is null", "like"} -> FALSE
         [] OTHER -> TRUE

Only(row, cs) == [c \in DOMAIN row \cap Range(cs) |-> row[c]]
Before(keys, r, s) ==
    \E i \in DOMAIN keys :
        LET at(x) == IF keys[i].by \in DOMAIN x THEN x[keys[i].by] ELSE 0
            same(j) == keys[j].by \in DOMAIN r => r[keys[j].by] = s[keys[j].by]
        IN /\ \A j \in 1 .. i - 1 : same(j)
           /\ IF keys[i].descending THEN at(r) > at(s) ELSE at(r) < at(s)
\* Stable: rows that tie keep their order.
Sorted(rows, keys) ==
    LET rank(i) == Cardinality({j \in DOMAIN rows : \/ Before(keys, rows[j], rows[i])
                                                    \/ j < i /\ ~ Before(keys, rows[i], rows[j])})
    IN [n \in DOMAIN rows |-> rows[CHOOSE i \in DOMAIN rows : rank(i) = n - 1]]
First(rows, limit) ==
    IF limit = <<>> \/ Number[limit[1]] >= Len(rows) THEN rows ELSE SubSeq(rows, 1, Number[limit[1]])
\* One row for each group, in the order of the groups' first rows.
Grouped(rows, group, aggs) ==
    LET key(r) == Only(r, group)
        total(k, a) ==
            LET of == SelectSeq(rows, LAMBDA r : key(r) = k)
            IN IF a.kind = "count" THEN Len(of) ELSE FoldLeft(LAMBDA n, r : n + r[a.of], 0, of)
        keys == FoldLeft(LAMBDA got, r : IF key(r) \in Range(got) THEN got ELSE Append(got, key(r)),
                         IF group = <<>> THEN <<key(<<>>)>> ELSE <<>>, rows)
    IN [i \in DOMAIN keys |->
          [c \in DOMAIN keys[i] \cup {aggs[j].out : j \in DOMAIN aggs} |->
             IF c \in DOMAIN keys[i] THEN keys[i][c]
             ELSE total(keys[i], aggs[CHOOSE j \in DOMAIN aggs : aggs[j].out = c])]]

Run(p) ==
    FoldLeft(LAMBDA rows, o :
        CASE o.op = "filter" -> SelectSeq(rows, LAMBDA r : Holds(o.of[1], r))
          [] o.op = "aggregate" -> Grouped(rows, o.of[1], o.of[2])
          [] o.op = "project" -> [i \in DOMAIN rows |-> Only(rows[i], o.of)]
          [] o.op = "sort" -> Sorted(rows, o.of)
          [] o.op = "limit" -> First(rows, o.of)
          [] OTHER -> rows, Table, p)
\* The clauses in the order SQL gives them: rows are ordered by any of their columns, and
\* what the list does not name is left out last.
Shows(st, rows) ==
    IF \E i \in DOMAIN st.list : st.list[i].kind = "star" THEN rows
    ELSE [n \in DOMAIN rows |-> Only(rows[n], [i \in DOMAIN st.list |-> st.list[i].out])]
Asked(st) ==
    LET chosen == IF st.where = <<>> THEN Table ELSE SelectSeq(Table, LAMBDA r : Holds(st.where[1], r))
        whole == IF Aggs(st.list) = <<>> THEN chosen ELSE Grouped(chosen, st.group, Aggs(st.list))
    IN Shows(st, First(Sorted(whole, st.order), st.limit))

----------------------------------------------------------------------------

SqlInit ==
    /\ meant \in Statements
    /\ toks = Typed(meant)
    /\ plan = parse_select(toks)
    /\ edits = 0

Become(t) == toks' = t /\ plan' = parse_select(t) /\ edits' = edits + 1 /\ UNCHANGED meant
drop(i) == edits < MaxEdits /\ Become(RemoveAt(toks, i))
double(i) == edits < MaxEdits /\ Become(InsertAt(toks, i, toks[i]))
SqlNext == \E i \in DOMAIN toks : drop(i) \/ double(i)
SqlSpec == SqlInit /\ [][SqlNext]_sqlvars

----------------------------------------------------------------------------
(* Properties *)

Mixed(items) == Aggs(items) # <<>> /\ Len(Aggs(items)) # Len(items)

\* A plan has the operators in the one order the executor expects, each at most once.
PlanShape ==
    plan.ok =>
        LET Rank == ("scan" :> 1) @@ ("join" :> 2) @@ ("filter" :> 3) @@ ("aggregate" :> 4)
                      @@ ("project" :> 4) @@ ("sort" :> 5) @@ ("limit" :> 6)
        IN \A i, j \in DOMAIN plan.val : i < j => Rank[plan.val[i].op] < Rank[plan.val[j].op]

\* Whatever is accepted, as typed or with a token dropped or doubled, is accepted for what it
\* says: the plan printed back gives the same tokens, but for the words that mean nothing and
\* for parentheses.
\* (Columns beside an aggregate are dropped: EveryAnswerIsSqls is about those.)
AcceptedAsTyped ==
    plan.ok /\ ~ Mixed(meant.list) => Quiet(Typed(Statement(plan.val))) = Quiet(toks)

\* Every statement the front-end means to accept is accepted, with the condition it was
\* printed from: NOT binds tighter than AND, AND tighter than OR, parentheses tighter still.
ConditionsBindAsWritten ==
    edits = 0 => plan.ok /\ Part(plan.val, "filter") = meant.where

\* A statement that orders by what it selects answers with the rows SQL gives, in its order.
Honest(st) ==
    /\ Mixed(st.list) => Range(Columns(st.list)) \subseteq Range(st.group)
    /\ Columns(st.list) # <<>> /\ Aggs(st.list) = <<>> =>
           \A i \in DOMAIN st.order : st.order[i].by \in Range(Columns(st.list))
AnswersLikeSql ==
    edits = 0 /\ meant.join = <<>> /\ Honest(meant) => Shows(meant, Run(plan.val)) = Asked(meant)

\* What a text that was typed or damaged is taken to mean, and answers.
SqlInvariant == PlanShape /\ AcceptedAsTyped /\ ConditionsBindAsWritten /\ AnswersLikeSql

\* "it refuses everything else rather than approximating it ... the caller cannot tell the
\* difference until the answer is wrong" (sql.rs:17-24): what is accepted answers like SQL.
EveryAnswerIsSqls ==
    edits = 0 /\ meant.join = <<>> /\ plan.ok => Shows(meant, Run(plan.val)) = Asked(meant)
=============================================================================
