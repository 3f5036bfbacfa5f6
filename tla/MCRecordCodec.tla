---------------------------- MODULE MCRecordCodec ----------------------------
(* Schemas and records for RecordCodec.                                     *)
EXTENDS Integers

CONSTANT None

Names == 1..3

F(f, ty) == [name |-> f, ty |-> ty, nullable |-> TRUE]
R(f, ty) == [name |-> f, ty |-> ty, nullable |-> FALSE]
S(mode, fields) == [mode |-> mode, fields |-> fields]

\* Two fields a bitmap cell: the third field starts another.
MCSchemas ==
    {S("fixed", <<F(1, "i64")>>),
     S("fixed", <<F(1, "i64"), F(2, "char")>>),
     S("fixed", <<F(1, "i64"), R(2, "u64")>>),
     S("fixed", <<F(1, "i64"), F(2, "char"), F(3, "u64")>>),
     S("strict", <<R(1, "u64"), F(2, "str")>>),
     S("strict", <<R(1, "u64"), F(2, "str"), F(3, "str")>>),
     S("strict", <<R(1, "u64")>>),
     S("declared", <<F(1, "u64"), F(2, "str")>>),
     S("declared", <<F(1, "u64")>>),
     S("dynamic", <<>>)}

N(t, n) == [t |-> t, n |-> n]
Ints == {N("i64", -2), N("u64", 1), N("u64", 3)}
MCRecords ==
    {[f \in Names |-> IF f = 1 THEN a ELSE IF f = 2 THEN b ELSE c] :
        a \in Ints, b \in {None, N("str", 1), N("u64", 2)},
        c \in {None, N("u64", 1), N("str", 2)}}
    \cup {[f \in Names |-> IF f = 2 THEN N("str", 3) ELSE None]}
=============================================================================
