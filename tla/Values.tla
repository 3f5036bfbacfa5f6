-------------------------------- MODULE Values --------------------------------
(***************************************************************************)
(* The value domain every comparison, index, join and sum stands on         *)
(* (adabt-core value.rs): one order over all values, equality and hashing   *)
(* from it, arithmetic that is exact where both operands are, and moves     *)
(* between decimal scales.                                                  *)
(*                                                                         *)
(* A value is [t, n, s]: an i64, u64 or bool n, a decimal of n units at     *)
(* scale s, a float of n / 2^Fraction, a text n.  Floats have Mantissa      *)
(* significant bits and are never finer than 2^-Fraction; the wide integers *)
(* of the exact path (i128) stop at Wide.                                   *)
(***************************************************************************)
EXTENDS Integers, FiniteSets

CONSTANTS Mantissa, Fraction, Wide

\* What the constants must satisfy; a module that gives them values assumes it.
ValuesAssumption == Mantissa \in Nat \ {0} /\ Fraction \in Nat /\ Wide \in Nat

Null == [t |-> "null", n |-> 0, s |-> 0]
Missing == [t |-> "missing", n |-> 0, s |-> 0]      \* no value at all
Exact == {"i64", "u64", "dec"}
Numeric == Exact \cup {"f64"}

Ordered(x, y) == IF x < y THEN -1 ELSE IF x > y THEN 1 ELSE 0
Magnitude(x) == IF x < 0 THEN -x ELSE x
Fits(x) == Magnitude(x) <= Wide

Decimal(x, scale) == IF Fits(x) THEN [t |-> "dec", n |-> x, s |-> scale] ELSE Missing

\* The decimal at another scale, or Missing: a widening that overflows, a narrowing that
\* would lose a digit.
rescale(units, from, to) ==
    IF to >= from THEN Decimal(units * 10^(to - from), to)
    ELSE IF units % 10^(from - to) = 0 THEN Decimal(units \div 10^(from - to), to)
    ELSE Missing

-----------------------------------------------------------------------------
\* Floats

\* num / den (num >= 0) to Mantissa bits, half to even.
Nearest(num, den) ==
    LET q == num \div den
        e == CHOOSE e \in 0..q : q < 2^(Mantissa + e) /\ (e = 0 \/ q >= 2^(Mantissa + e - 1))
        d == den * 2^e
        m == num \div d
        rest == 2 * (num - m * d)
    IN (IF rest > d \/ (rest = d /\ m % 2 = 1) THEN m + 1 ELSE m) * 2^e
ToFloat(num, den) == IF num < 0 THEN -Nearest(-num, den) ELSE Nearest(num, den)

\* A number as a float, in units of 2^-Fraction; a decimal's units are rounded before
\* they are divided.
as_num(v) ==
    IF v.t = "f64" THEN v.n
    ELSE ToFloat(ToFloat(v.n, 1) * 2^Fraction, 10^v.s)

-----------------------------------------------------------------------------
\* Order and hash

rank(v) ==
    IF v.t = "null" THEN 0 ELSE IF v.t = "bool" THEN 1 ELSE IF v.t \in Numeric THEN 2
    ELSE IF v.t = "str" THEN 3 ELSE 7

Finer(a, b) == IF a.s >= b.s THEN a.s ELSE b.s
Lifted(v, scale) == v.n * 10^(scale - v.s)
Comparable(a, b) ==
    /\ a.t \in Exact /\ b.t \in Exact
    /\ Fits(Lifted(a, Finer(a, b))) /\ Fits(Lifted(b, Finer(a, b)))
cmp_exact(a, b) == Ordered(Lifted(a, Finer(a, b)), Lifted(b, Finer(a, b)))

cmp(a, b) ==
    IF rank(a) # rank(b) THEN Ordered(rank(a), rank(b))
    ELSE IF rank(a) # 2 THEN Ordered(a.n, b.n)
    ELSE IF Comparable(a, b) THEN cmp_exact(a, b)
    ELSE Ordered(as_num(a), as_num(b))

Same(a, b) == cmp(a, b) = 0
hash(v) == <<rank(v), IF rank(v) = 2 THEN as_num(v) ELSE v.n>>

-----------------------------------------------------------------------------
\* Arithmetic

Truncated(x, y) ==
    IF (x < 0) = (y < 0) THEN Magnitude(x) \div Magnitude(y) ELSE -(Magnitude(x) \div Magnitude(y))

\* The exact result of lifted operands, or Missing.
exact_arith(op, x, y, scale) ==
    IF op = "add" THEN Decimal(x + y, scale)
    ELSE IF op = "sub" THEN Decimal(x - y, scale)
    ELSE IF op = "mul"
         THEN IF Fits(x * y) THEN Decimal(Truncated(x * y, 10^scale), scale) ELSE Missing
    ELSE IF y = 0 \/ ~Fits(x * 10^scale) THEN Missing
         ELSE Decimal(Truncated(x * 10^scale, y), scale)

float_arith(op, x, y) ==
    LET one == 2^Fraction
        at(num, den) == [t |-> "f64", n |-> ToFloat(num, den), s |-> 0]
    IN IF op = "add" THEN at(x + y, 1)
       ELSE IF op = "sub" THEN at(x - y, 1)
       ELSE IF op = "mul" THEN at(x * y, one)
       ELSE IF y = 0 THEN Missing
       ELSE IF y > 0 THEN at(x * one, y) ELSE at(-x * one, -y)

checked_arith(op, a, b) ==
    IF a.t \notin Numeric \/ b.t \notin Numeric THEN Missing
    ELSE LET exact == IF ~Comparable(a, b) THEN Missing
                      ELSE exact_arith(op, Lifted(a, Finer(a, b)), Lifted(b, Finer(a, b)), Finer(a, b))
         IN IF exact # Missing THEN exact ELSE float_arith(op, as_num(a), as_num(b))
=============================================================================
