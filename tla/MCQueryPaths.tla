---------------------------- MODULE MCQueryPaths ----------------------------
(* Cases for QueryPaths: fields "a" and "b", an index of every type.        *)
CONSTANTS None, Left, Right

Is(f, op, v) == [f |-> f, op |-> op, v |-> v]
And(parts) == [conn |-> "and", parts |-> parts]
Or(parts) == [conn |-> "or", parts |-> parts]
Nor(parts) == [conn |-> "nor", parts |-> parts]

Name(c, type, kind, fields, covers, cond) ==
    [coll |-> c, type |-> type, kind |-> kind, fields |-> fields, covers |-> covers, cond |-> cond]

MCLeftRecords == {[a |-> 1, b |-> 2], [a |-> 2, b |-> 1], [b |-> 1]}
MCRightRecords == {[b |-> 1]}

MCNames ==
    {Name(Left, "plain", k, <<"a">>, {}, None) : k \in {"bitmap", "btree"}}
    \cup {Name(Left, "composite", "hash", <<"a", "b">>, {}, None),
          Name(Left, "covering", "btree", <<"a">>, {"a"}, None),
          Name(Left, "partial", "hash", <<"b">>, {}, And(<<Is("a", "=", 1)>>)),
          Name(Right, "plain", "hash", <<"b">>, {}, None)}

Select(pred) == [coll |-> Left, pred |-> pred, fields |-> None, group |-> None, sort |-> None, n |-> None]

MCQueries ==
    {Select(e) : e \in {And(<<Is("a", "=", 1), Is("b", "=", 2)>>), And(<<Is("a", "=", 2), Is("b", "=", 1)>>),
                        Or(<<Is("a", "=", 1), Is("b", "=", 1)>>), Nor(<<Is("a", "=", 1)>>),
                        And(<<Is("a", "null", 0)>>),
                        And(<<Is("a", ">", 1), Is("a", "<", 2), Is("a", ">=", 1)>>),
                        And(<<Is("a", ">", 2), Is("a", "<", 1)>>)}}
    \cup {[Select(And(<<Is("a", op, 1)>>)) EXCEPT !.fields = {"a"}, !.n = 1] :
            op \in {"=", ">="}}
    \cup {[Select(And(<<Is("a", "=", 2)>>)) EXCEPT !.fields = {"a"}]}
    \cup {[Select(None) EXCEPT !.sort = [f |-> "a", desc |-> d], !.n = 1] : d \in BOOLEAN}
    \cup {[Select(e) EXCEPT !.group = <<>>] : e \in {None, And(<<Is("a", "!=", 1)>>)}}
    \cup {[Select(None) EXCEPT !.group = <<"a">>]}

MCJoins == {[left |-> Select(e), on |-> "a", to |-> "b", outer |-> o] :
              e \in {None, And(<<Is("b", "=", 1)>>)}, o \in BOOLEAN}
=============================================================================
