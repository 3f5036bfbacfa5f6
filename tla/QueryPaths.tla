----------------------------- MODULE QueryPaths -----------------------------
(***************************************************************************)
(* The planner and the executor (crates/adabt-exec), the index structures   *)
(* they read (crates/adabt-index) and the engine calls that keep those in   *)
(* step with the rows: whichever access path is chosen, and whatever the    *)
(* plan cache remembers, a query answers what a scan of the rows answers.   *)
(*                                                                         *)
(* A record is a function on the fields it has.  An expression is a list of *)
(* comparisons under And, under Or, or under Not(Or).  A query is           *)
(* Project(Limit(Sort(Aggregate(Filter(Scan))))), each of them optional;    *)
(* the aggregates are COUNT of all rows and SUM of one field.               *)
(***************************************************************************)
EXTENDS Integers, SequencesExt, FiniteSetsExt, Functions

CONSTANTS
    None,
    Left, Right,        \* the two collections; only a join reads Right
    MaxId, MaxValue,    \* record ids and values are 1 .. MaxId, 1 .. MaxValue
    LeftRecords, RightRecords,  \* the records written to each
    Names,              \* the indexes that may be created
    Queries, Joins,     \* what is asked
    Summed,             \* the field that is summed
    LowCardinality,     \* LOW_CARDINALITY_KEY_COUNT
    CostFloor,          \* the rows below which a scan never wins (1000)
    PlanCapacity,       \* capacity of the plan cache
    MaxIndexes, MaxWrites   \* bounds

\* What the constants must satisfy; a module that gives them values assumes it.
QueryAssumption ==
    /\ {MaxId, MaxValue, PlanCapacity, CostFloor, LowCardinality} \subseteq Nat
    /\ \A n \in Names : n.kind \in {"hash", "btree", "bitmap"}

VARIABLES
    rows,       \* collection -> id -> record or None
    indexes,    \* the indexes of both collections, oldest first: name, map, rows
    columns,    \* the column store of Left: id -> record, or None when there is none
    columnOf,   \* the fields it has a column for
    plans,      \* the plan cache: shape and decision, oldest first
    writes      \* bound

queryVars == <<rows, indexes, columns, columnOf, plans, writes>>

Ids == 1 .. MaxId

Without(f, S) == [x \in DOMAIN f \ S |-> f[x]]
Project(rec, S) == [f \in DOMAIN rec \cap S |-> rec[f]]
Live(c) == {id \in Ids : rows[c][id] # None}
Ascending(S) == SelectSeq([i \in 1 .. MaxId |-> i], LAMBDA i : i \in S)
FirstIn(s, Test(_)) ==
    LET hits == {i \in DOMAIN s : Test(s[i])} IN IF hits = {} THEN None ELSE s[Min(hits)]
Filter(s, Test(_)) == SelectSeq(s, Test)

-----------------------------------------------------------------------------
(* Expressions, three-valued: a comparison with a missing field is Unknown.  *)

not(t) == CASE t = "true" -> "false" [] t = "false" -> "true" [] OTHER -> "unknown"

Holds(op, x, y) == CASE op = "=" -> x = y [] op = "!=" -> x # y [] op = "<" -> x < y
                     [] op = "<=" -> x <= y [] op = ">" -> x > y [] op = ">=" -> x >= y

Compare(p, rec) ==
    IF p.op = "null" THEN IF p.f \in DOMAIN rec THEN "false" ELSE "true"
    ELSE IF p.f \notin DOMAIN rec THEN "unknown"
    ELSE IF Holds(p.op, rec[p.f], p.v) THEN "true" ELSE "false"

evaluate(e, rec) ==
    LET ts == {Compare(p, rec) : p \in ToSet(e.parts)}
        AnyOf == IF "true" \in ts THEN "true" ELSE IF "unknown" \in ts THEN "unknown" ELSE "false"
    IN  CASE e.conn = "and" -> IF "false" \in ts THEN "false"
                               ELSE IF "unknown" \in ts THEN "unknown" ELSE "true"
          [] e.conn = "or"  -> AnyOf
          [] e.conn = "nor" -> not(AnyOf)

matches(e, rec) == e = None \/ evaluate(e, rec) = "true"

\* Only And narrows: nothing under Or or Not constrains every match.
Conjuncts(e) == IF e # None /\ e.conn = "and" THEN e.parts ELSE <<>>

equality_constraints(e) == Filter(Conjuncts(e), LAMBDA p : p.op = "=")
referenced_fields(e) == IF e = None THEN {} ELSE {p.f : p \in ToSet(e.parts)}

-----------------------------------------------------------------------------
(* Index structures.  A name says what an index is: its collection, type,    *)
(* kind, key fields, the fields it covers, the condition of a partial one.   *)

\* The key of a record, None when a key field is missing.
key_for(n, rec) == IF ToSet(n.fields) \subseteq DOMAIN rec
                   THEN [i \in DOMAIN n.fields |-> rec[n.fields[i]]] ELSE None

admits(n, rec) == n.cond = None \/ evaluate(n.cond, rec) = "true"

KeyInsert(map, k, id) ==
    [x \in DOMAIN map \cup {k} |-> IF x = k THEN {id} \cup (IF k \in DOMAIN map THEN map[k] ELSE {})
                                   ELSE map[x]]

\* A key whose last id goes is dropped.
KeyRemove(map, k, id) ==
    IF k \notin DOMAIN map THEN map
    ELSE IF map[k] \subseteq {id} THEN Without(map, {k}) ELSE [map EXCEPT ![k] = @ \ {id}]

index_record(i, id, rec) ==
    LET k == key_for(i.name, rec) IN
    [i EXCEPT !.map = IF k = None THEN @
                      ELSE IF admits(i.name, rec) THEN KeyInsert(@, k, id)
                      ELSE KeyRemove(@, k, id),
              !.rows = IF i.name.covers = {} THEN @
                       ELSE IF k = None THEN Without(@, {id})
                       ELSE [x \in DOMAIN @ \cup {id} |->
                                IF x = id THEN Project(rec, i.name.covers) ELSE @[x]]]

unindex_record(i, id, rec) ==
    LET k == key_for(i.name, rec) IN
    [i EXCEPT !.map = IF k = None THEN @ ELSE KeyRemove(@, k, id),
              !.rows = Without(@, {id})]

Build(n, table) ==
    FoldSet(LAMBDA id, i : IF table[id] = None THEN i ELSE index_record(i, id, table[id]),
            [name |-> n, map |-> <<>>, rows |-> <<>>], Ids)

lookup(i, k) == IF k \in DOMAIN i.map THEN i.map[k] ELSE {}
key_count(i) == Cardinality(DOMAIN i.map)

Within(x, b) == /\ b.lo # None => IF b.loIn THEN x >= b.lo ELSE x > b.lo
                /\ b.hi # None => IF b.hiIn THEN x <= b.hi ELSE x < b.hi

\* BTreeMap::range panics when the bounds are the wrong way round.
Panics(b) == /\ b.lo # None /\ b.hi # None
             /\ b.lo > b.hi \/ (b.lo = b.hi /\ ~ b.loIn /\ ~ b.hiIn)

\* Keys ascending, the ids of a key ascending.
range(i, b) ==
    FlattenSeq([v \in 1 .. MaxValue |->
        IF Within(v, b) THEN Ascending(lookup(i, <<v>>)) ELSE <<>>])

-----------------------------------------------------------------------------
(* The planner.                                                              *)

On(c, type) == Filter(indexes, LAMBDA i : i.name.coll = c /\ i.name.type = type)

\* What of each record the plan reads; None when whole records reach the caller.
required_fields(q) ==
    IF q.group # None THEN ToSet(q.group) \cup {Summed} \cup referenced_fields(q.pred)
    ELSE IF q.fields # None THEN q.fields \cup referenced_fields(q.pred)
                                 \cup (IF q.sort = None THEN {} ELSE {q.sort.f})
    ELSE None

implies(pred, cond) == pred = cond \/ \E p \in ToSet(Conjuncts(pred)) : cond.parts = <<p>>

Unmeasured == 1000000

\* Of several estimates for one field the last one stays.
cardinality(c, f) ==
    LET s == Filter(On(c, "plain"), LAMBDA i : i.name.fields = <<f>>)
    IN  IF s = <<>> THEN Unmeasured ELSE key_count(Last(s))

\* Bitmap before hash where the field is known to have few values.
index_for(c, f) ==
    LET s == Filter(On(c, "plain"), LAMBDA i : i.name.fields = <<f>>)
        OfKind(k) == FirstIn(s, LAMBDA i : i.name.kind = k)
        order == IF cardinality(c, f) <= LowCardinality
                 THEN <<"bitmap", "hash", "btree">> ELSE <<"hash", "bitmap", "btree">>
        kind == FirstIn(order, LAMBDA k : OfKind(k) # None)
    IN  IF kind = None THEN None ELSE OfKind(kind)

partial_for(c, f, pred) ==
    FirstIn(On(c, "partial"), LAMBDA i : i.name.fields = <<f>> /\ implies(pred, i.name.cond))

EqualFields(e) == {p.f : p \in ToSet(equality_constraints(e))}

\* The longest composite index all of whose fields are pinned, the oldest of them.
composite_for(c, pred) ==
    LET ok == Filter(On(c, "composite"), LAMBDA i : ToSet(i.name.fields) \subseteq EqualFields(pred))
    IN  FirstIn(ok, LAMBDA i : \A j \in ToSet(ok) : Len(i.name.fields) >= Len(j.name.fields))

covering_for(c, pred, needed) ==
    FirstIn(On(c, "covering"), LAMBDA i :
        ToSet(i.name.fields) \subseteq EqualFields(pred) /\ needed \subseteq i.name.covers)

range_fields(e) == Filter(Conjuncts(e), LAMBDA p : p.op \in {"<", "<=", ">", ">="})

covering_range_for(c, pred, needed) ==
    FirstIn(On(c, "covering"), LAMBDA i :
        /\ i.name.kind = "btree" /\ needed \subseteq i.name.covers
        /\ \E p \in ToSet(range_fields(pred)) : i.name.fields = <<p.f>>)

\* Of several bounds on one side the last one stands; the filter applies them all.
range_constraint(e, f) ==
    LET los == Filter(Conjuncts(e), LAMBDA p : p.f = f /\ p.op \in {">", ">="})
        his == Filter(Conjuncts(e), LAMBDA p : p.f = f /\ p.op \in {"<", "<="})
    IN  [lo |-> IF los = <<>> THEN None ELSE Last(los).v, loIn |-> los # <<>> /\ Last(los).op = ">=",
         hi |-> IF his = <<>> THEN None ELSE Last(his).v, hiIn |-> his # <<>> /\ Last(his).op = "<="]

\* The field of an indexed equality with the most distinct values, the first of them.
BestField(q) ==
    LET able == Filter(equality_constraints(q.pred), LAMBDA p :
                    \/ partial_for(q.coll, p.f, q.pred) # None
                    \/ index_for(q.coll, p.f) # None)
    IN  FirstIn(able, LAMBDA p : \A r \in ToSet(able) :
                    cardinality(q.coll, p.f) >= cardinality(q.coll, r.f))

\* An index that matches more than a third of a large collection loses to a scan.
scan_wins(c, f) ==
    LET n == Cardinality(Live(c))
        d == cardinality(c, f)
        matched == IF n \div d > 1 THEN n \div d ELSE 1
    IN  d # Unmeasured /\ d # 0 /\ n >= CostFloor /\ matched * 3 > n

Access(kind, name) == [kind |-> kind, name |-> name]

\* decide: the access path, from the shape of the query and the structures there are.
decide(q) ==
    LET c == q.coll
        needed == required_fields(q)
        covering == IF needed = None THEN None ELSE covering_for(c, q.pred, needed)
        covered == IF needed = None THEN None ELSE covering_range_for(c, q.pred, needed)
        composite == IF q.pred = None THEN None ELSE composite_for(c, q.pred)
        best == BestField(q)
        usable == best # None /\ ~ scan_wins(c, best.f)
        ranged == FirstIn(range_fields(q.pred), LAMBDA p :
                      \E i \in ToSet(On(c, "plain")) : i.name.fields = <<p.f>> /\ i.name.kind = "btree")
    IN  CASE covering # None -> Access("covering", covering.name)
          [] covering = None /\ covered # None -> Access("coveringRange", covered.name)
          [] covering = None /\ covered = None ->
             IF /\ q.pred = None /\ q.group = None /\ q.sort # None /\ q.n # None
                /\ c = Left /\ columns # None /\ q.sort.f \in columnOf
             THEN Access("topk", None)
             ELSE IF composite # None THEN Access("composite", composite.name)
             ELSE IF usable
                  THEN LET p == partial_for(c, best.f, q.pred)
                       IN  Access("index", IF p # None THEN p.name ELSE index_for(c, best.f).name)
             ELSE IF ranged # None THEN Access("range", ranged.f)
             ELSE IF c = Left /\ columns # None /\ needed # None THEN Access("columns", None)
             ELSE Access("scan", None)

\* QueryShape::of: literals, and the n of a limit, are erased.
Shape(q) ==
    [q EXCEPT !.n = @ # None,
              !.pred = IF @ = None THEN None
                       ELSE [@ EXCEPT !.parts = [i \in DOMAIN @ |-> <<@[i].f, @[i].op>>]]]

Cached(q) == FirstIn(plans, LAMBDA e : e.shape = Shape(q))
Decision(q) == IF Cached(q) = None THEN decide(q) ELSE Cached(q).decision

-----------------------------------------------------------------------------
(* The executor.                                                             *)

\* fetch_batches: the rows that exist, ascending by id, each once.
fetch_batches(c, S) ==
    LET s == Ascending(S \cap Live(c)) IN [i \in DOMAIN s |-> [id |-> s[i], rec |-> rows[c][s[i]]]]

\* What a covering index holds beside the ids.
covered(i, ids) ==
    LET s == Filter(ids, LAMBDA id : id \in DOMAIN i.rows)
    IN  [j \in DOMAIN s |-> [id |-> s[j], rec |-> i.rows[s[j]]]]

\* Database::index_lookup: any index of that field, a small bitmap first; None when
\* there is none.
index_lookup(c, f, k) ==
    LET s == Filter(On(c, "plain"), LAMBDA i : i.name.fields = <<f>>)
        small == FirstIn(s, LAMBDA i : i.name.kind = "bitmap" /\ key_count(i) <= LowCardinality)
    IN  IF s = <<>> THEN None ELSE lookup(IF small # None THEN small ELSE s[1], k)

Structure(n) == FirstIn(indexes, LAMBDA i : i.name = n)

FirstEqual(e, f) == FirstIn(equality_constraints(e), LAMBDA p : p.f = f).v

\* The key of an index, from the literals of this query.
key_from_equalities(n, e) == [i \in DOMAIN n.fields |-> FirstEqual(e, n.fields[i])]

ColumnRows(S) ==
    LET s == Ascending(DOMAIN columns)
    IN  [i \in DOMAIN s |-> [id |-> s[i], rec |-> Project(columns[s[i]], S)]]

\* An id whose row is compared as the sort key asks; missing last, ties by id.
Before(k, x, y) ==
    LET h == k.f \in DOMAIN x.rec /\ k.f \in DOMAIN y.rec
        less == \/ h /\ x.rec[k.f] < y.rec[k.f]
                \/ k.f \in DOMAIN x.rec /\ k.f \notin DOMAIN y.rec
        same == (k.f \in DOMAIN x.rec <=> k.f \in DOMAIN y.rec) /\ (h => x.rec[k.f] = y.rec[k.f])
    IN  IF same THEN x.id < y.id ELSE less # k.desc

Sorted(s, k) ==
    [j \in DOMAIN s |-> s[CHOOSE i \in DOMAIN s :
        Cardinality({m \in DOMAIN s : Before(k, s[m], s[i])}) = j - 1]]

Limited(s, n) == IF n = None \/ n >= Len(s) THEN s ELSE SubSeq(s, 1, n)

\* The winners are picked from the column and then fetched.
column_topk(q) ==
    LET s == Limited(Sorted(ColumnRows({q.sort.f}), q.sort), q.n)
    IN  [i \in DOMAIN s |-> [id |-> s[i].id, rec |-> rows[q.coll][s[i].id]]]

SumOf(recs) == LET f == Filter(recs, LAMBDA r : Summed \in DOMAIN r)
               IN  IF f = <<>> THEN None ELSE SumFunction([i \in DOMAIN f |-> f[i][Summed]])

GroupKey(g, rec) == [i \in DOMAIN g |-> IF g[i] \in DOMAIN rec THEN rec[g[i]] ELSE None]

\* One row a group; a group is one row with the number of its rows and their sum.
Groups(s, g) ==
    {[key |-> k, count |-> Len(m), sum |-> SumOf(m)] :
        <<k, m>> \in {<<k, LET t == Filter(s, LAMBDA x : GroupKey(g, x.rec) = k)
                           IN [i \in DOMAIN t |-> t[i].rec]>> :
                      k \in {GroupKey(g, x.rec) : x \in ToSet(s)}}}

\* Without GROUP BY there is one row even when nothing matched.
aggregate(s, g) ==
    IF s = <<>> /\ g = <<>> THEN {[key |-> <<>>, count |-> 0, sum |-> None]} ELSE Groups(s, g)

Panic == "panic"
Bounds(q, d) == range_constraint(q.pred, IF d.kind = "range" THEN d.name ELSE d.name.fields[1])

\* What the access path hands to the filter above it.
Leaf(q, d) ==
    LET c == q.coll
        i == Structure(d.name)
        All == fetch_batches(c, Ids)
        found == index_lookup(c, d.name.fields[1], key_from_equalities(d.name, q.pred))
        tree == FirstIn(On(c, "plain"), LAMBDA x : x.name.fields = <<d.name>> /\ x.name.kind = "btree")
    IN  CASE d.kind = "scan" -> All
          [] d.kind = "topk" -> IF columns = None THEN Limited(Sorted(All, q.sort), q.n) ELSE column_topk(q)
          [] d.kind = "columns" -> IF columns = None THEN All ELSE ColumnRows(required_fields(q))
          [] d.kind = "index" /\ d.name.type = "plain" ->
                IF found = None THEN All ELSE fetch_batches(c, found)
          [] d.kind = "composite" \/ (d.kind = "index" /\ d.name.type = "partial") ->
                IF i = None THEN All
                ELSE fetch_batches(c, lookup(i, key_from_equalities(d.name, q.pred)))
          [] d.kind = "covering" ->
                IF i # None THEN covered(i, Ascending(lookup(i, key_from_equalities(d.name, q.pred))))
                ELSE IF found = None THEN All ELSE fetch_batches(c, found)
          [] d.kind = "coveringRange" -> IF i = None THEN All ELSE covered(i, range(i, Bounds(q, d)))
          [] d.kind = "range" -> IF tree = None THEN All
                                 ELSE fetch_batches(c, ToSet(range(tree, Bounds(q, d))))

\* The operators above it; an aggregate over columns is taken inside the column store.
Above(q, d, leaf) ==
    LET kept == Filter(leaf, LAMBDA x : matches(q.pred, x.rec))
        sorted == IF q.sort = None \/ d.kind = "topk" THEN kept ELSE Sorted(kept, q.sort)
        limited == Limited(sorted, q.n)
    IN  IF q.group # None
        THEN IF d.kind = "columns" /\ columns # None THEN Groups(kept, q.group)
             ELSE aggregate(kept, q.group)
        ELSE IF q.fields = None THEN limited
        ELSE [j \in DOMAIN limited |-> [limited[j] EXCEPT !.rec = Project(@, q.fields)]]

Answer(q, d) ==
    IF d.kind \in {"range", "coveringRange"} /\ Panics(Bounds(q, d)) THEN Panic
    ELSE Above(q, d, Leaf(q, d))

\* merge_joined_fields over the matches of one left row; a left join keeps a row
\* without any.
Pairs(j, x, ids) ==
    IF ids = <<>> THEN IF j.outer THEN <<[left |-> x, right |-> None]>> ELSE <<>>
    ELSE [i \in DOMAIN ids |-> [left |-> x, right |-> ids[i]]]

\* The right side is scanned into a table of its keys.
hash_join(j, left) ==
    FlattenSeq([i \in DOMAIN left |-> Pairs(j, left[i],
        IF j.on \notin DOMAIN left[i].rec THEN <<>>
        ELSE Ascending({id \in Live(Right) : /\ j.to \in DOMAIN rows[Right][id]
                                             /\ rows[Right][id][j.to] = left[i].rec[j.on]}))])

\* An index of the right field is probed for each left row that has the field.
indexed_join(j, left) ==
    FlattenSeq([i \in DOMAIN left |-> Pairs(j, left[i],
        IF j.on \notin DOMAIN left[i].rec THEN <<>>
        ELSE Ascending(index_lookup(Right, j.to, <<left[i].rec[j.on]>>) \cap Live(Right)))])

Joined(j, left) ==
    LET keyed == Filter(left, LAMBDA x : j.on \in DOMAIN x.rec)
    IN  IF keyed # <<>> /\ index_lookup(Right, j.to, <<keyed[1].rec[j.on]>>) # None
        THEN indexed_join(j, left) ELSE hash_join(j, left)
JoinAnswer(j) == Joined(j, Answer(j.left, decide(j.left)))

-----------------------------------------------------------------------------
QueryInit ==
    /\ rows = [c \in {Left, Right} |-> [id \in Ids |-> None]]
    /\ indexes = <<>> /\ columns = None /\ columnOf = {} /\ plans = <<>> /\ writes = 0

Spend == writes < MaxWrites /\ writes' = writes + 1

Mapped(c, F(_)) == [j \in DOMAIN indexes |->
                        IF indexes[j].name.coll = c THEN F(indexes[j]) ELSE indexes[j]]

\* A put that leaves the old keys of the record in the indexes.
put_over(c, id, rec) ==
    /\ Spend
    /\ rows' = [rows EXCEPT ![c][id] = rec]
    /\ indexes' = Mapped(c, LAMBDA i : index_record(i, id, rec))
    /\ IF c = Left /\ columns # None
       THEN /\ columns' = [x \in DOMAIN columns \cup {id} |-> IF x = id THEN rec ELSE columns[x]]
            /\ columnOf' = columnOf \cup DOMAIN rec
       ELSE UNCHANGED <<columns, columnOf>>
    /\ UNCHANGED plans

\* Insert and update: the old record leaves the structures, the new one enters them.
put(c, id, rec) ==
    /\ Spend
    /\ rows' = [rows EXCEPT ![c][id] = rec]
    /\ indexes' = Mapped(c, LAMBDA i :
                    index_record(IF rows[c][id] = None THEN i ELSE unindex_record(i, id, rows[c][id]),
                                 id, rec))
    /\ IF c = Left /\ columns # None
       THEN /\ columns' = [x \in DOMAIN columns \cup {id} |-> IF x = id THEN rec ELSE columns[x]]
            /\ columnOf' = columnOf \cup DOMAIN rec
       ELSE UNCHANGED <<columns, columnOf>>
    /\ UNCHANGED plans

delete(c, id) ==
    /\ Spend /\ rows[c][id] # None
    /\ rows' = [rows EXCEPT ![c][id] = None]
    /\ indexes' = Mapped(c, LAMBDA i : unindex_record(i, id, rows[c][id]))
    /\ columns' = IF c = Left /\ columns # None THEN Without(columns, {id}) ELSE columns
    /\ UNCHANGED <<columnOf, plans>>

create_index(n) ==
    /\ Len(indexes) < MaxIndexes /\ Structure(n) = None
    /\ indexes' = Append(indexes, Build(n, rows[n.coll]))
    /\ plans' = <<>>
    /\ UNCHANGED <<rows, columns, columnOf, writes>>

drop_index(n) ==
    /\ Structure(n) # None
    /\ indexes' = SelectSeq(indexes, LAMBDA i : i.name # n)
    /\ plans' = <<>>
    /\ UNCHANGED <<rows, columns, columnOf, writes>>

enable_column_store ==
    /\ columns = None
    /\ columns' = [id \in Live(Left) |-> rows[Left][id]]
    /\ columnOf' = UNION {DOMAIN rows[Left][id] : id \in Live(Left)}
    /\ plans' = <<>>
    /\ UNCHANGED <<rows, indexes, writes>>

disable_column_store ==
    /\ columns # None
    /\ columns' = None /\ columnOf' = {} /\ plans' = <<>>
    /\ UNCHANGED <<rows, indexes, writes>>

\* A query that finds no plan for its shape decides one and remembers it; the oldest
\* plans are dropped beyond the capacity.
Newest(s) == SubSeq(s, 1 + (IF Len(s) > PlanCapacity THEN Len(s) - PlanCapacity ELSE 0), Len(s))
query(q) ==
    /\ Cached(q) = None /\ PlanCapacity > 0
    /\ plans' = Newest(Append(plans, [shape |-> Shape(q), decision |-> decide(q)]))
    /\ UNCHANGED <<rows, indexes, columns, columnOf, writes>>

QueryNext ==
    \/ \E id \in Ids, rec \in LeftRecords : put(Left, id, rec)
    \/ \E id \in Ids, rec \in RightRecords : put(Right, id, rec)
    \/ \E c \in {Left, Right}, id \in Ids : delete(c, id)
    \/ \E n \in Names : create_index(n) \/ drop_index(n)
    \/ enable_column_store \/ disable_column_store
    \/ \E q \in Queries : query(q)

QuerySpec == QueryInit /\ [][QueryNext]_queryVars
-----------------------------------------------------------------------------
\* Type invariant; the bounds on the caches hold and no index exists twice.
QueryTypeOK ==
    /\ \A c \in {Left, Right}, id \in Ids : rows[c][id] \in LeftRecords \cup RightRecords \cup {None}
    /\ Len(plans) <= PlanCapacity
    /\ \A i, j \in DOMAIN indexes : indexes[i].name = indexes[j].name => i = j

Reference(q) ==
    Above(q, Access("scan", None), fetch_batches(q.coll, Ids))

\* Where the code is known to differ, each of them stated below without the excuse.
ReversedRange(q, d) == d.kind \in {"range", "coveringRange"} /\ Panics(Bounds(q, d))
EmptyTotal(q, d) == d.kind = "columns" /\ q.group = <<>>
                    /\ \A id \in Live(q.coll) : ~ matches(q.pred, rows[q.coll][id])
KeyOrdered(q, d) == d.kind = "coveringRange" /\ q.sort = None /\ q.group = None
OtherLiteral(q, d) == d.kind = "index" /\ d.name.type = "partial" /\ ~ implies(q.pred, d.name.cond)

\* Whatever access path is decided or remembered for its shape, and whatever writes,
\* index and column store changes came in between, a query answers what a scan answers,
\* rows in the same order ("optimization never changes the answer", exec.rs).
AnswersMatchScan ==
    \A q \in Queries : \A d \in {Decision(q)} :
        \/ ReversedRange(q, d) \/ EmptyTotal(q, d) \/ OtherLiteral(q, d)
        \/ Answer(q, d) = Reference(q)
        \/ KeyOrdered(q, d) /\ (q.n = None => ToSet(Answer(q, d)) = ToSet(Reference(q)))

\* A probed index and a hash table of the right side join the same rows in the same order.
JoinsMatchScan ==
    \A j \in Joins : \A d \in {decide(j.left)} :
        \/ KeyOrdered(j.left, d) \/ ReversedRange(j.left, d)
        \/ JoinAnswer(j) = hash_join(j, Reference(j.left))

\* Each index holds exactly the rows it should under exactly their keys, through
\* updates that move a record into, out of or within it.
IndexesMatchRows ==
    \A j \in DOMAIN indexes : indexes[j] = Build(indexes[j].name, rows[indexes[j].name.coll])

\* A remembered plan never names a structure that is gone, so that no query falls back
\* to a scan while its plan promises an index.
PlansNameLiveStructures ==
    \A e \in ToSet(plans) :
        /\ e.decision.kind \in {"index", "composite", "covering", "coveringRange"} =>
               Structure(e.decision.name) # None
        /\ e.decision.kind \in {"columns", "topk"} => columns # None

\* What indexes, plans and answers promise in every state.
PathsInvariant ==
    QueryTypeOK /\ IndexesMatchRows /\ PlansNameLiveStructures /\ AnswersMatchScan /\ JoinsMatchScan

\* "Depends on the plan's shape and the available indexes, never on its literals" (decide):
\* a plan remembered for a shape answers every query of the shape.
PlansServeTheirShape ==
    \A q \in Queries : OtherLiteral(q, Decision(q)) => Answer(q, Decision(q)) = Reference(q)

\* "The same query must not return rows in a different order because a different structure
\* answered it", and the covering index "keeps ids ascending inside its range scan".
CoveringKeepsOrder ==
    \A q \in Queries : KeyOrdered(q, decide(q)) /\ ~ ReversedRange(q, decide(q))
                         => Answer(q, decide(q)) = Reference(q)

\* "An ungrouped one still yields a single row, because COUNT(*) of nothing is 0": "the
\* caller supplies" the rule, column.rs says of an aggregate taken inside the columns.
EveryTotalHasARow ==
    \A q \in Queries : q.group = <<>> /\ ~ ReversedRange(q, decide(q)) => Answer(q, decide(q)) # {}
=============================================================================
