------------------------------ MODULE MCValues ------------------------------
(***************************************************************************)
(* Every three values of Samples, as the keys of an index, the members of a *)
(* group or the operands of an expression.                                  *)
(***************************************************************************)
EXTENDS Values

CONSTANTS Samples
VARIABLE held

ValuesInit == held \in [1..3 -> Samples] /\ held[1] = Null
ValuesNext == \E v \in Samples : held[1] # v /\ held' = [held EXCEPT ![1] = v]
ValuesSpec == ValuesInit /\ [][ValuesNext]_held

V(t, n, s) == [t |-> t, n |-> n, s |-> s]
MCSamples ==
    {Null, V("bool", 0, 0), V("bool", 1, 0), V("str", 1, 0)}
    \cup {V("i64", n, 0) : n \in {-9, -1, 0, 1, 8, 9}}
    \cup {V("u64", n, 0) : n \in {1, 9}}
    \cup {V("dec", n, s) : n \in {-10, 0, 9, 10, 15, 90, 150}, s \in {1, 2}}
    \cup {V("f64", 256 * n, 0) : n \in {-1, 0, 1, 8, 10}}

Operations == {"add", "sub", "mul", "div"}
\* The rational n / 10^s equals m / 10^r.
EqualNumbers(n, s, m, r) == n * 10^r = m * 10^s
AllExact == \A i \in 1..3 : held[i].t \notin Numeric \/ held[i].t \in Exact
InRoom == \A i, j \in 1..3 : {held[i].t, held[j].t} \subseteq Exact => Comparable(held[i], held[j])

\* One order over all values: no two are each before the other, and among values that
\* are exact and within the wide integers' room it is transitive, so a sorted index
\* stays sorted (Ord for Value, cmp_exact).
ExactValuesAreOrdered ==
    LET a == held[1] b == held[2] c == held[3] IN
    /\ cmp(a, b) = -cmp(b, a)
    /\ AllExact /\ InRoom =>
         /\ cmp(a, b) <= 0 /\ cmp(b, c) <= 0 => cmp(a, c) <= 0
         /\ {a.t, b.t} \subseteq Exact => Same(a, b) = EqualNumbers(a.n, a.s, b.n, b.s)

\* Integers, floats, truths and texts that compare equal hash alike, which hash indexes,
\* hash joins and duplicate checks assume (Hash for Value).
EqualWholesHashAlike ==
    LET a == held[1] b == held[2] IN
    (a.t # "dec" /\ b.t # "dec" /\ Same(a, b)) => hash(a) = hash(b)

\* A sum of exact numbers is the exact one, or is a float because the exact one has no
\* room, and taking a summand away again gives the other (checked_arith).
ExactArithmeticIsExact ==
    LET a == held[1] b == held[2] c == checked_arith("add", a, b)
        d == checked_arith("sub", c, b)
    IN {a.t, b.t} \subseteq Exact /\ c.t = "dec" =>
         /\ EqualNumbers(Lifted(a, Finer(a, b)) + Lifted(b, Finer(a, b)), Finer(a, b), c.n, c.s)
         /\ d.t = "dec" => Same(d, a)

\* A change of scale keeps the number or is refused, and one that was made can be
\* undone (rescale, which schema checks and fixed slots rely on).
RescalingKeepsTheNumber ==
    LET a == held[1] IN
    a.t = "dec" => \A scale \in 0..3 :
        LET r == rescale(a.n, a.s, scale) IN
        r # Missing => EqualNumbers(a.n, a.s, r.n, r.s) /\ rescale(r.n, r.s, a.s) = a

\* value.rs 3: "`Value` carries a **total** order".  Two integers too long for a float
\* are each equal to the float between them and not to each other.
EveryOrderIsTransitive ==
    cmp(held[1], held[2]) <= 0 /\ cmp(held[2], held[3]) <= 0 => cmp(held[1], held[3]) <= 0

\* value.rs 314: "two values that compare equal have the same numeric content, so they
\* round to the same float".  A decimal's units are rounded before they are divided by
\* its scale, so one number at two scales can hash to two places.
HashFollowsEquality == Same(held[1], held[2]) => hash(held[1]) = hash(held[2])

\* What comparing, hashing and computing promise of any three values, in one invariant.
ValuesInvariant ==
    ExactValuesAreOrdered /\ EqualWholesHashAlike /\ ExactArithmeticIsExact /\ RescalingKeepsTheNumber
=============================================================================
