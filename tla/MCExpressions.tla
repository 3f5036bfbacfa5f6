---------------------------- MODULE MCExpressions ----------------------------
(* Conditions, rows and texts for Expressions.                               *)
EXTENDS Integers

Lit(v) == [k |-> "lit", v |-> v]
Field(f) == [k |-> "field", f |-> f]
Bool(b) == [t |-> "bool", n |-> IF b THEN 1 ELSE 0, s |-> 0]
Null == [t |-> "null", n |-> 0, s |-> 0]
Missing == [t |-> "missing", n |-> 0, s |-> 0]
N(n) == [t |-> "i64", n |-> n, s |-> 0]
S(n) == [t |-> "str", n |-> n, s |-> 0]
\* The empty text, and three of one or two characters.
MCTexts == <<<<>>, <<"a">>, <<"a", "b">>, <<"%">>>>

Cmp(op, a, b) == [k |-> "cmp", op |-> op, a |-> a, b |-> b]
Arith(op, a, b) == [k |-> "arith", op |-> op, a |-> a, b |-> b]
One(k, a) == [k |-> k, a |-> a]
In(a, list) == [k |-> "in", a |-> a, list |-> list]
Like(a, p) == [k |-> "like", a |-> a, p |-> p]
Many(k, list) == [k |-> k, list |-> list]

X == Field("x")
Y == Field("y")
Zero == Lit(N(0))
\* Conditions of one level, among them those a value stands in for a truth and a truth
\* for a value.
Simple ==
    {Cmp("eq", X, Lit(N(1))), Cmp("eq", Lit(S(1)), Y), Cmp("lt", X, Y),
     Cmp("ge", Arith("add", X, Lit(N(1))), Lit(N(2))), Cmp("eq", Arith("div", X, Zero), X),
     X, Lit(Bool(TRUE)), Lit(Null), One("isnull", X), One("notnull", Y),
     In(X, <<Y, Lit(N(1))>>), In(Y, <<Lit(Null), Lit(S(1))>>), In(X, <<>>),
     Like(Y, <<"a", "%">>), One("isnull", One("not", X))}
Patterns ==
    {<<"%">>, <<"_">>, <<"%", "b">>, <<"%", "a", "%">>, <<"\\", "%">>, <<"a", "\\">>, <<"_", "%">>, <<>>}
Few == {Cmp("eq", X, Lit(N(1))), Cmp("eq", Lit(S(1)), Y), X, Lit(Null), In(Y, <<Lit(Null), Lit(S(1))>>)}
Nested ==
    {Many(k, <<a, b>>) : k \in {"and", "or"}, a \in Few, b \in Few}
    \cup {Many(k, <<a, b, c>>) : k \in {"and", "or"}, a \in Few, b \in Few, c \in {X, Lit(Null)}}
    \cup {Many(k, <<>>) : k \in {"and", "or"}} \cup {Many("and", <<X>>)}
MCExprs ==
    Simple \cup Nested \cup {One("not", e) : e \in Simple \cup Nested}
    \cup {Like(Y, p) : p \in Patterns}
    \cup {Many(k, <<Many(j, <<a, b>>), c>>) :
             k \in {"and", "or"}, j \in {"and", "or"}, a \in Few, b \in Few, c \in {X, Lit(Null)}}
    \cup {Many(k, <<c, Many(j, <<a, b>>)>>) :
             k \in {"and", "or"}, j \in {"and", "or"}, a \in Few, b \in Few, c \in {X, Lit(Null)}}
    \cup {Many("and", <<One("not", Many("or", <<X, One("not", a)>>)), b>>) : a \in Few, b \in Few}

MCRecords ==
    [x : {Missing, Null, Bool(TRUE), N(1)}, y : {Missing, Bool(FALSE), N(1), S(0), S(1), S(2), S(3)}]
=============================================================================
