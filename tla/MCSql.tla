-------------------------------- MODULE MCSql --------------------------------
(* Every clause, alone and with every other: seven select lists, conditions of *)
(* every form and of every nesting precedence tells apart, a table of three     *)
(* rows on which no two orders agree.                                           *)
EXTENDS Integers, Sequences, TLC

E(is, of) == [is |-> is, of |-> of]
F(name) == [is |-> "field", of |-> <<>>, name |-> name]
L(text) == [is |-> "literal", of |-> <<>>, name |-> <<text>>]
A == E("=", <<F(<<"a">>), L("1")>>)
B == E("<", <<F(<<"b">>), L("2")>>)
C == E("is not null", <<F(<<"u", "a">>)>>)
N(e) == E("not", <<e>>)

Col(c) == [kind |-> "column", of |-> <<c>>, out |-> <<c>>]
Star == [kind |-> "star", of |-> <<>>, out |-> <<>>]
Agg(kind, of, out) == [kind |-> kind, of |-> of, out |-> out]
Lists == {<<Star>>, <<Col("a")>>, <<Col("a"), Col("b")>>,
          <<Agg("count", <<>>, <<"count", "star">>)>>, <<Agg("sum", <<"a">>, <<"n">>)>>,
          <<Col("b"), Agg("count", <<>>, <<"n">>)>>}
Conditions == {<<>>, <<A>>, <<N(A)>>, <<E("and", <<N(A), B>>)>>, <<N(E("and", <<A, B>>))>>,
               <<E("or", <<A, E("and", <<B, C>>)>>)>>, <<E("and", <<E("or", <<A, B>>), C>>)>>,
               <<E("or", <<E("or", <<A, B>>), C>>)>>, <<N(N(E("or", <<A, B>>)))>>,
               <<N(E("in", <<F(<<"a">>), L("1"), L("null")>>))>>,
               <<E("and", <<E("in", <<F(<<"a">>), L("2")>>), E("is null", <<F(<<"b">>)>>)>>)>>,
               <<E("or", <<E("like", <<F(<<"a">>), L("'x'")>>), N(E("like", <<F(<<"b">>), L("'x'")>>))>>)>>}
Key(c, desc) == [by |-> <<c>>, descending |-> desc]
Orders == {<<>>, <<Key("a", FALSE)>>, <<Key("b", TRUE)>>, <<Key("b", FALSE), Key("a", TRUE)>>, <<Key("n", TRUE)>>}
Limits == {<<>>, <<"0">>, <<"1">>}

St(list, join, where, group, order, limit) ==
    [list |-> list, base |-> "u", join |-> join, where |-> where, group |-> group,
     order |-> order, limit |-> limit]
Grouping(list) == IF \A i \in DOMAIN list : list[i].kind \in {"star", "column"} THEN {<<>>} ELSE {<<>>, <<<<"b">>>>}
\* Every form of condition; and every combination of the other clauses.
MCStatements ==
    {St(<<Star>>, join, where, <<>>, <<>>, limit) :
        join \in {<<>>, <<"left", "v", "a", "b">>, <<"inner", "v", "a", "b">>},
        where \in Conditions, limit \in {<<>>, <<"1">>}}
      \cup UNION {{St(list, <<>>, where, group, order, limit) :
                      where \in {<<>>, <<N(A)>>}, group \in Grouping(list), order \in Orders, limit \in Limits}
                    : list \in Lists}
Row(a, b) == (<<"a">> :> a) @@ (<<"b">> :> b) @@ (<<"u", "a">> :> a) @@ (<<"n">> :> 0)
MCTable == <<Row(1, 2), Row(2, 0), Row(0, 2), Row(2, 1)>>
=============================================================================
