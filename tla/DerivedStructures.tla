------------------------- MODULE DerivedStructures -------------------------
(***************************************************************************)
(* One collection of the engine (adabt-engine/src/database.rs) and all it  *)
(* keeps beside the heap: a hash index, the direct array, the column store *)
(* with its delta encoding, a materialized view, the result cache and the  *)
(* compiled path.  Each is told of writes by hooks of its own, switched on *)
(* and off while the data is there, and thrown away by schema changes.     *)
(* Numbers above ExactLimit are rounded, as f64 does above 2^53.           *)
(*                                                                         *)
(* A record is a function of the fields "g" (the one grouped by) and "v".  *)
(* Text is the value of "v" that is no number.                             *)
(***************************************************************************)
EXTENDS Integers, FiniteSets, FiniteSetsExt, Sequences, SequencesExt

CONSTANTS None, Text, NoSuchCollection,
          MaxRecord,       \* records are 1 .. MaxRecord
          Records,         \* the records callers write
          Schemas,         \* [mode, fields]: the schemas callers ask for
          ExactLimit,      \* EXACT_INTEGER_LIMIT
          HotThreshold,    \* HOT_THRESHOLD
          DeltaMinRows,    \* DELTA_MIN_ROWS
          Capacity,        \* result cache entries
          MaxWrites, MaxSwitches

VARIABLES table,       \* [record -> what the heap stores, or None]
          schema,      \* None when the collection does not exist
          life,        \* counts the layouts the collection has had
          declared,    \* the index is among the store's index definitions
          hashIndex,   \* [value of "g" -> records], or None
          directOn, direct,            \* the direct array, or None
          deltaOn, columnStore,        \* [log, cols, made], or None
          viewsOn, view,               \* [groups, spent, made], or None
          epoch, capacity, results,    \* result cache, oldest entry first; sound: see AnswersAreCurrent
          hot,         \* calls seen of the shape "get by id"; HotThreshold: compiled
          up,          \* FALSE once the database cannot be opened
          budget       \* [writes, switches] still to be made

engineVars == <<table, schema, life, declared, hashIndex, directOn, direct, deltaOn, columnStore,
                viewsOn, view, epoch, capacity, results, hot, up, budget>>
dataVars == <<table, schema, life, declared>>
switchVars == <<directOn, deltaOn, viewsOn, capacity, up>>

Rids == 1 .. MaxRecord
Existing == {id \in Rids : table[id] # None}
InOrder(S) == SelectSeq([i \in Rids |-> i], LAMBDA i : i \in S)
Field(rec, f) == IF f \in DOMAIN rec THEN rec[f] ELSE None
Number(x) == x \notin {None, Text}

\* f64 addition of integers: above the limit every other integer is missing,
\* and ties go to the even neighbour.
Rounded(x) == IF x < ExactLimit \/ x % 2 = 0 THEN x ELSE IF x % 4 = 1 THEN x - 1 ELSE x + 1
Plus(x, y) == Rounded(x + y)

-----------------------------------------------------------------------------
(* Aggregates: rows counted and "v" summed, grouped by "g".               *)

NoGroup == [count |-> 0, sum |-> 0, saw |-> FALSE]
Observed(acc, x) ==
    [count |-> acc.count + 1, sum |-> IF Number(x) THEN Plus(acc.sum, x) ELSE acc.sum,
     saw |-> acc.saw \/ Number(x)]
\* The column store takes any value for one that was seen.
ObservedColumn(acc, x) == [Observed(acc, x) EXCEPT !.saw = acc.saw \/ x # None]
Reported(acc) == [count |-> acc.count, sum |-> IF acc.saw THEN acc.sum ELSE None]

\* Rows are read one after the other; Observe adds one to the row's group.
GroupsOf(recs, Observe(_, _)) ==
    LET InGroup(k) == SelectSeq(recs, LAMBDA r : Field(r, "g") = k)
    IN  [k \in {Field(recs[i], "g") : i \in DOMAIN recs} |->
            Reported(FoldLeft(LAMBDA acc, r : Observe(acc, Field(r, "v")), NoGroup, InGroup(k)))]

-----------------------------------------------------------------------------
(* matview.rs                                                              *)

EmptyView == [groups |-> [k \in {} |-> 0], spent |-> 0, made |-> life]
is_exact(w) == w.spent < ExactLimit
charge(spent, x) == IF Number(x) THEN spent + x ELSE spent

ViewInsert(w, rec) ==
    LET k == Field(rec, "g")
        x == Field(rec, "v")
        old == IF k \in DOMAIN w.groups THEN w.groups[k] ELSE [rows |-> 0, acc |-> NoGroup]
        new == [rows |-> old.rows + 1, acc |-> Observed(old.acc, x)]
    IN  [w EXCEPT !.spent = charge(@, x),
                  !.groups = [j \in DOMAIN @ \cup {k} |-> IF j = k THEN new ELSE @[j]]]

\* What was seen stays seen; the last row of a group takes it away.
ViewRemove(w, rec) ==
    LET k == Field(rec, "g")
        x == Field(rec, "v")
        old == w.groups[k]
        new == [rows |-> old.rows - 1,
                acc |-> [old.acc EXCEPT !.count = @ - 1,
                                        !.sum = IF Number(x) THEN Rounded(@ - x) ELSE @]]
    IN  IF k \notin DOMAIN w.groups THEN w
        ELSE [w EXCEPT !.spent = charge(@, x),
                       !.groups = IF new.rows = 0 THEN [j \in DOMAIN @ \ {k} |-> @[j]]
                                  ELSE [@ EXCEPT ![k] = new]]

materialize == FoldLeft(LAMBDA w, id : ViewInsert(w, table[id]), EmptyView, InOrder(Existing))
watches == viewsOn /\ view # None

-----------------------------------------------------------------------------
(* column.rs: one column per field, typed by its first value.  A delta     *)
(* column holds distances from its first value, zigzagged and one up, and  *)
(* zero where the value is absent.                                         *)

Kind(x) == IF x = Text THEN "text" ELSE "int"
zigzag(n) == IF n >= 0 THEN 2 * n ELSE -2 * n - 1
unzigzag(z) == IF z % 2 = 0 THEN z \div 2 ELSE -((z + 1) \div 2)

delta_rows(col) ==
    [i \in DOMAIN col.cells |-> IF col.cells[i] = 0 THEN None ELSE col.first + unzigzag(col.cells[i] - 1)]
Expanded(col) == IF col.kind = "delta" THEN [kind |-> "int", cells |-> delta_rows(col)] ELSE col
ColumnGet(col, row) == Expanded(col).cells[row]

PowersOfTwo == {2 ^ k : k \in 0 .. 6}
Present(cells) == SelectSeq(cells, LAMBDA x : x # None)
Ascends(s) == \A i \in 1 .. Len(s) - 1 : s[i] <= s[i + 1]

maybe_compress(col) ==
    LET present == Present(col.cells)
        first == IF present = <<>> THEN 0 ELSE present[1]
    IN  IF ~ deltaOn \/ col.kind # "int" \/ Len(col.cells) \notin PowersOfTwo
           \/ Len(col.cells) < DeltaMinRows \/ ~ Ascends(present)
        THEN col
        ELSE [kind |-> "delta", first |-> first,
              last |-> IF present = <<>> THEN first ELSE Last(present),
              cells |-> [i \in DOMAIN col.cells |->
                            IF col.cells[i] = None THEN 0 ELSE zigzag(col.cells[i] - first) + 1]]

push_null(col) == [col EXCEPT !.cells = Append(@, IF col.kind = "delta" THEN 0 ELSE None)]

\* A value of another type than its column's leaves the cell empty.
push(col, x) ==
    IF x = None THEN push_null(col)
    ELSE IF col.kind = "delta" /\ x # Text
    THEN IF x >= col.last
         THEN [col EXCEPT !.cells = Append(@, zigzag(x - col.first) + 1), !.last = x]
         ELSE maybe_compress([Expanded(col) EXCEPT !.cells = Append(@, x)])
    ELSE IF col.kind # Kind(x) THEN push_null(col)
    ELSE maybe_compress([col EXCEPT !.cells = Append(@, x)])

NewColumn(x, rows) == [kind |-> Kind(x), cells |-> [i \in 1 .. rows |-> None]]

append_row(c, id, rec) ==
    LET known == DOMAIN c.cols
    IN  [c EXCEPT !.log = Append(@, [id |-> id, dead |-> FALSE]),
                  !.cols = [f \in known \cup DOMAIN rec |->
                      push(IF f \in known THEN @[f] ELSE NewColumn(rec[f], Len(c.log)), Field(rec, f))]]

mark_dead(c, id) ==
    [c EXCEPT !.log = [i \in DOMAIN @ |-> IF @[i].id = id THEN [@[i] EXCEPT !.dead = TRUE] ELSE @[i]]]

ColumnRecord(c, row) ==
    LET held == {f \in DOMAIN c.cols : ColumnGet(c.cols[f], row) # None}
    IN  [f \in held |-> ColumnGet(c.cols[f], row)]
LiveRows(c) == SelectSeq([i \in DOMAIN c.log |-> i], LAMBDA i : ~ c.log[i].dead)

\* ColumnStore::project answers in id order.
project(c) ==
    LET RowsOf(id) == SelectSeq(LiveRows(c), LAMBDA i : c.log[i].id = id)
        ids == FlattenSeq([id \in Rids |-> RowsOf(id)])
    IN  [i \in DOMAIN ids |-> <<c.log[ids[i]].id, ColumnRecord(c, ids[i])>>]

column_build ==
    FoldLeft(LAMBDA c, id : append_row(c, id, table[id]),
             [log |-> <<>>, cols |-> [f \in {} |-> 0], made |-> life], InOrder(Existing))

-----------------------------------------------------------------------------
(* The index and the direct array.                                         *)

index_record(idx, id, rec) ==
    LET k == Field(rec, "g")
    IN  IF idx = None \/ k = None THEN idx
        ELSE [j \in DOMAIN idx \cup {k} |-> (IF j \in DOMAIN idx THEN idx[j] ELSE {})
                                            \cup (IF j = k THEN {id} ELSE {})]
unindex_record(idx, id, rec) ==
    LET k == Field(rec, "g")
    IN  IF idx = None \/ k \notin DOMAIN idx THEN idx
        ELSE IF idx[k] = {id} THEN [j \in DOMAIN idx \ {k} |-> idx[j]]
        ELSE [idx EXCEPT ![k] = @ \ {id}]
index_build == FoldLeft(LAMBDA i, id : index_record(i, id, table[id]), [j \in {} |-> 0], InOrder(Existing))

needs_old_record == hashIndex # None \/ watches
-----------------------------------------------------------------------------
(* Queries: a record by its id, the groups, and all records projected.     *)

Queries == [kind : {"get"}, id : Rids] \cup [kind : {"groups", "project"}, id : {None}]

\* The answer of the data alone.
Reference(q) ==
    CASE schema = None -> NoSuchCollection
      [] q.kind = "get" -> table[q.id]
      [] q.kind = "groups" -> GroupsOf([i \in 1 .. Cardinality(Existing) |-> table[InOrder(Existing)[i]]], Observed)
      [] q.kind = "project" -> [i \in 1 .. Cardinality(Existing) |-> <<InOrder(Existing)[i], table[InOrder(Existing)[i]]>>]

fetch(id) == IF direct # None THEN direct[id] ELSE Reference([kind |-> "get", id |-> id])

column_aggregate(c) ==
    LET live == LiveRows(c)
    IN  GroupsOf([i \in DOMAIN live |-> ColumnRecord(c, live[i])], ObservedColumn)

\* The plan: columns when there are some, else the heap.
Execute(q) ==
    CASE q.kind = "get" -> fetch(q.id)
      [] columnStore = None -> Reference(q)
      [] q.kind = "groups" -> column_aggregate(columnStore)
      [] q.kind = "project" -> project(columnStore)

ViewRows == [k \in DOMAIN view.groups |-> Reported(view.groups[k].acc)]
FromView(q) == q.kind = "groups" /\ watches /\ is_exact(view)
CachedAt(q) == SelectSeq(results, LAMBDA e : e.q = q)
Fresh(q) == capacity > 0 /\ CachedAt(q) # <<>> /\ CachedAt(q)[1].epoch = epoch
Compiled(q) == q.kind = "get" /\ hot = HotThreshold

\* query_in: compiled path, view, result cache, plan.
Answer(q) ==
    CASE Compiled(q) -> fetch(q.id)
      [] ~ Compiled(q) /\ FromView(q) -> ViewRows
      [] ~ Compiled(q) /\ ~ FromView(q) /\ Fresh(q) -> CachedAt(q)[1].answer
      [] OTHER -> Execute(q)

-----------------------------------------------------------------------------
DerivedInit ==
    /\ table = [id \in Rids |-> None] /\ schema \in Schemas /\ life = 0
    /\ declared = FALSE /\ hashIndex = None
    /\ directOn = FALSE /\ direct = None
    /\ deltaOn = TRUE /\ columnStore = None
    /\ viewsOn = FALSE /\ view = None
    /\ epoch = 0 /\ capacity = 0 /\ results = <<>> /\ hot = 0
    /\ up = TRUE /\ budget = [writes |-> MaxWrites, switches |-> MaxSwitches]

Write == up /\ schema # None /\ budget.writes > 0 /\ budget' = [budget EXCEPT !.writes = @ - 1]
Switch == up /\ budget.switches > 0 /\ budget' = [budget EXCEPT !.switches = @ - 1]

validate_record(s, rec) == /\ DOMAIN rec \subseteq s.fields
                           /\ s.mode = "fixed" => Field(rec, "v") # Text

bump_epoch == epoch' = epoch + 1 /\ results' = <<>>

\* reindex_remove of the records in old and reindex_insert of those in new; the
\* direct array and the columns are told by id, the index and the view by record.
reindex(old, new) ==
    LET gone == InOrder(DOMAIN old)
        come == InOrder(DOMAIN new)
        Hidden(c) == FoldLeft(mark_dead, c, gone)
    IN  /\ hashIndex' = FoldLeft(LAMBDA i, id : index_record(i, id, new[id]),
                                 FoldLeft(LAMBDA i, id : unindex_record(i, id, old[id]), hashIndex, gone), come)
        /\ direct' = IF direct = None THEN None
                     ELSE [id \in Rids |-> IF id \in DOMAIN new THEN new[id]
                                           ELSE IF id \in DOMAIN old THEN None ELSE direct[id]]
        /\ columnStore' = IF columnStore = None THEN None
                          ELSE FoldLeft(LAMBDA c, id : append_row(mark_dead(c, id), id, new[id]),
                                        Hidden(columnStore), come)
        /\ view' = IF view = None THEN None
                   ELSE FoldLeft(LAMBDA w, id : ViewInsert(w, new[id]),
                                 FoldLeft(LAMBDA w, id : ViewRemove(w, old[id]), view, gone), come)

Nothing == [id \in {} |-> None]
One(id, rec) == [i \in {id} |-> rec]
\* What the store held, if anybody has to know.
Old(id) == IF needs_old_record /\ table[id] # None THEN One(id, table[id]) ELSE Nothing

insert(id, rec) ==
    /\ Write /\ table[id] = None /\ validate_record(schema, rec)
    /\ table' = [table EXCEPT ![id] = rec]
    /\ reindex(Nothing, One(id, rec)) /\ bump_epoch
    /\ UNCHANGED <<schema, life, declared, hot>> /\ UNCHANGED switchVars

\* A batch of the same record under every id that is free.
insert_batch(rec) ==
    LET ids == Rids \ Existing
    IN  /\ Write /\ Cardinality(ids) > 1 /\ validate_record(schema, rec)
        /\ table' = [id \in Rids |-> IF id \in ids THEN rec ELSE table[id]]
        /\ reindex(Nothing, [id \in ids |-> rec]) /\ bump_epoch
        /\ UNCHANGED <<schema, life, declared, hot>> /\ UNCHANGED switchVars

\* An update that does not read the old record for the view's sake.
update_unseen(id, rec) ==
    /\ Write /\ validate_record(schema, rec)
    /\ table' = [table EXCEPT ![id] = rec]
    /\ reindex(IF hashIndex = None THEN Nothing ELSE Old(id), One(id, rec)) /\ bump_epoch
    /\ UNCHANGED <<schema, life, declared, hot>> /\ UNCHANGED switchVars

update(id, rec) ==
    /\ Write /\ validate_record(schema, rec)
    /\ table' = [table EXCEPT ![id] = rec]
    /\ reindex(Old(id), One(id, rec)) /\ bump_epoch
    /\ UNCHANGED <<schema, life, declared, hot>> /\ UNCHANGED switchVars

\* Without the old record the direct array and the columns are still told the id.
delete(id) ==
    /\ Write
    /\ table' = [table EXCEPT ![id] = None]
    /\ IF Old(id) # Nothing THEN reindex(Old(id), Nothing)
       ELSE /\ direct' = IF direct = None THEN None ELSE [direct EXCEPT ![id] = None]
            /\ columnStore' = IF columnStore = None THEN None ELSE mark_dead(columnStore, id)
            /\ UNCHANGED <<hashIndex, view>>
    /\ bump_epoch
    /\ UNCHANGED <<schema, life, declared, hot>> /\ UNCHANGED switchVars
-----------------------------------------------------------------------------
(* Structures are made, switched and thrown away.                          *)

create_index ==
    /\ Switch /\ schema # None /\ hashIndex = None
    /\ hashIndex' = index_build /\ declared' = TRUE /\ hot' = 0
    /\ UNCHANGED <<table, schema, life, direct, columnStore, view, epoch, results>> /\ UNCHANGED switchVars

drop_index ==
    /\ Switch /\ hashIndex # None
    /\ hashIndex' = None /\ declared' = FALSE /\ hot' = 0
    /\ UNCHANGED <<table, schema, life, direct, columnStore, view, epoch, results>> /\ UNCHANGED switchVars

\* Action::SetDirectLookup: only collections of a fixed size get an array.
set_direct_lookup(on) ==
    /\ Switch /\ directOn' = on
    /\ direct' = IF on /\ schema # None /\ schema.mode = "fixed" THEN table ELSE IF on THEN direct ELSE None
    /\ UNCHANGED <<table, schema, life, declared, hashIndex, deltaOn, columnStore, viewsOn, view, epoch,
                   capacity, results, hot, up>>

\* Action::SetColumnStore: every collection there is gets its columns.
set_column_store(on) ==
    /\ Switch /\ hot' = 0
    /\ columnStore' = IF ~ on THEN None ELSE IF schema = None THEN columnStore ELSE column_build
    /\ UNCHANGED <<table, schema, life, declared, hashIndex, direct, view, epoch, results>>
    /\ UNCHANGED switchVars

\* Action::SetDeltaEncoding: columns are expanded at once, and compressed again
\* by the integers pushed later.
set_delta_encoding(on) ==
    /\ Switch /\ deltaOn # on /\ deltaOn' = on
    /\ columnStore' = IF on \/ columnStore = None THEN columnStore
                      ELSE [columnStore EXCEPT !.cols = [f \in DOMAIN @ |-> Expanded(@[f])]]
    /\ UNCHANGED <<table, schema, life, declared, hashIndex, directOn, direct, viewsOn, view, epoch,
                   capacity, results, hot, up>>

set_materialized_views(on) ==
    /\ Switch /\ viewsOn # on /\ viewsOn' = on
    /\ view' = IF on THEN view ELSE None
    /\ UNCHANGED <<table, schema, life, declared, hashIndex, directOn, direct, deltaOn, columnStore, epoch,
                   capacity, results, hot, up>>

set_capacity(n) ==
    /\ Switch /\ capacity # n /\ capacity' = n
    /\ results' = SubSeq(results, Len(results) - Min({n, Len(results)}) + 1, Len(results))
    /\ UNCHANGED <<table, schema, life, declared, hashIndex, directOn, direct, deltaOn, columnStore,
                   viewsOn, view, epoch, hot, up>>

project_onto_schema(s, rec) ==
    IF s.mode = "dynamic" THEN rec ELSE [f \in DOMAIN rec \cap s.fields |-> rec[f]]

\* Everything built on the old layout goes, the view excepted.
alter_schema(s) ==
    LET projected == [id \in Existing |-> project_onto_schema(s, table[id])]
    IN  /\ Switch /\ schema # None /\ s # schema
        /\ \A id \in Existing : validate_record(s, projected[id])
        /\ table' = [id \in Rids |-> IF id \in Existing THEN projected[id] ELSE None]
        /\ schema' = s /\ life' = life + 1
        /\ hashIndex' = None /\ direct' = None /\ columnStore' = None
        /\ bump_epoch /\ hot' = 0
        /\ UNCHANGED <<declared, view>> /\ UNCHANGED switchVars

\* Columns, the view and the definition of the index outlive the collection.
drop_collection ==
    /\ Switch /\ schema # None
    /\ table' = [id \in Rids |-> None] /\ schema' = None /\ life' = life + 1
    /\ hashIndex' = None /\ direct' = None
    /\ bump_epoch /\ hot' = 0
    /\ UNCHANGED <<declared, columnStore, view>> /\ UNCHANGED switchVars

create_collection(s) ==
    /\ Switch /\ schema = None /\ schema' = s
    /\ direct' = IF s.mode = "fixed" /\ directOn THEN [id \in Rids |-> None] ELSE direct
    /\ UNCHANGED <<table, life, declared, hashIndex, columnStore, view, epoch, results, hot>>
    /\ UNCHANGED switchVars

\* Pages may have moved; the array is not kept over that.
vacuum ==
    /\ Switch /\ direct' = None /\ hot' = 0
    /\ UNCHANGED <<table, schema, life, declared, hashIndex, columnStore, view, epoch, results>>
    /\ UNCHANGED switchVars

compile_identity_lookups ==
    /\ Switch /\ schema # None /\ hot' = HotThreshold
    /\ UNCHANGED <<table, schema, life, declared, hashIndex, direct, columnStore, view, epoch, results>>
    /\ UNCHANGED switchVars

\* Close, or crash, and open: what is derived is gone, the declared index is
\* rebuilt.  A declaration without its collection fails the open, for good.
reopen ==
    /\ up => budget.switches > 0
    /\ budget' = IF up THEN [budget EXCEPT !.switches = @ - 1] ELSE budget
    /\ up' = ~ (declared /\ schema = None)
    /\ hashIndex' = IF declared /\ schema # None THEN index_build ELSE None
    /\ directOn' = FALSE /\ direct' = None /\ columnStore' = None
    /\ viewsOn' = FALSE /\ view' = None
    /\ epoch' = 0 /\ capacity' = 0 /\ results' = <<>> /\ hot' = 0
    /\ UNCHANGED <<deltaOn>> /\ UNCHANGED dataVars

\* A structure that outlived the layout it was built on.
Outlived == \/ view # None /\ view.made # life
            \/ columnStore # None /\ columnStore.made # life

\* Every value the columns were given fits its column.
ColumnsFit ==
    columnStore = None \/ \A id \in Existing : \A f \in DOMAIN table[id] :
        Kind(table[id][f]) = (IF columnStore.cols[f].kind = "text" THEN "text" ELSE "int")

\* Database::verify, for an index and columns: rows an index lists that are gone, rows it
\* should list by their key and does not, and rows on one side of the columns only.
Listed(idx, k) == IF k \in DOMAIN idx THEN idx[k] ELSE {}
Dangling(idx) == UNION {idx[k] : k \in DOMAIN idx} \ Existing
Unlisted(idx) == {id \in Existing : /\ Field(table[id], "g") # None
                                    /\ id \notin Listed(idx, Field(table[id], "g"))}
live_ids(c) == {c.log[i].id : i \in Range(LiveRows(c))}
verify(idx, columns) ==
    IF schema = None THEN {}
    ELSE (IF idx = None THEN {} ELSE ({"dangling"} \X Dangling(idx)) \cup ({"unlisted"} \X Unlisted(idx)))
         \cup (IF columns = None THEN {}
               ELSE ({"extra"} \X (live_ids(columns) \ Existing))
                    \cup ({"missing"} \X (Existing \ live_ids(columns))))

\* query_in: what a query leaves behind.
query(q) ==
    LET executed == ~ Compiled(q) /\ ~ FromView(q) /\ ~ Fresh(q)
        entry == [q |-> q, epoch |-> epoch, answer |-> Answer(q), sound |-> ColumnsFit /\ ~ Outlived]
        cached == IF CachedAt(q) = <<>> THEN Append(results, entry)
                  ELSE [i \in DOMAIN results |-> IF results[i].q = q THEN entry ELSE results[i]]
    IN  /\ up
        /\ hot' = IF q.kind = "get" /\ hot < HotThreshold THEN hot + 1 ELSE hot
        /\ view' = IF executed /\ q.kind = "groups" /\ viewsOn /\ view = None /\ schema # None
                   THEN materialize ELSE view
        /\ results' = IF executed /\ capacity > 0 /\ Answer(q) # NoSuchCollection
                      THEN SubSeq(cached, Len(cached) - Min({capacity, Len(cached)}) + 1, Len(cached))
                      ELSE results
        /\ UNCHANGED <<hashIndex, direct, columnStore, epoch, budget>>
        /\ UNCHANGED dataVars /\ UNCHANGED switchVars

DerivedNext ==
    \/ \E id \in Rids, rec \in Records : insert(id, rec) \/ update(id, rec)
    \/ \E rec \in Records : insert_batch(rec)
    \/ \E id \in Rids : delete(id)
    \/ create_index \/ drop_index \/ drop_collection \/ vacuum \/ compile_identity_lookups \/ reopen
    \/ \E on \in BOOLEAN : \/ set_direct_lookup(on) \/ set_column_store(on)
                           \/ set_delta_encoding(on) \/ set_materialized_views(on)
    \/ \E n \in {0, Capacity} : set_capacity(n)
    \/ \E s \in Schemas : alter_schema(s) \/ create_collection(s)
    \/ \E q \in Queries : query(q)

DerivedSpec == DerivedInit /\ [][DerivedNext]_engineVars

-----------------------------------------------------------------------------
\* Every row fits the schema it is stored under, and a structure exists only while what it
\* is built for does: no array without a fixed schema, no view once views are off.
DerivedTypeOK ==
    /\ schema \in Schemas \cup {None} /\ (schema = None => Existing = {})
    /\ \A id \in Existing : validate_record(schema, table[id])
    /\ (direct # None => schema # None /\ schema.mode = "fixed")
    /\ Len(results) <= capacity /\ (view # None => viewsOn)
    /\ hot \in 0 .. HotThreshold /\ epoch \in Nat

\* Structures that follow the data row by row hold what building them anew
\* would give.
StructuresMatchRows ==
    Outlived \/ schema = None \/
    /\ hashIndex # None => hashIndex = index_build
    /\ direct # None => direct = table
    /\ columnStore # None /\ ColumnsFit => project(columnStore) = Reference([kind |-> "project", id |-> None])
    /\ view # None => /\ DOMAIN view.groups = DOMAIN materialize.groups
                      /\ \A k \in DOMAIN view.groups : view.groups[k].rows = materialize.groups[k].rows

\* Large sums depend on the order of their terms, and the columns are read in
\* the order of the last writes.
SumsInWriteOrder(q) ==
    /\ ~ FromView(q) /\ (columnStore # None \/ results # <<>>)
    /\ FoldLeft(LAMBDA n, id : IF Number(Field(table[id], "v")) THEN n + table[id].v ELSE n,
                0, InOrder(Existing)) >= ExactLimit

\* A sum nothing numeric is left in is None for the heap, and may be something
\* else for the view and the columns.
SameGroups(a, r) ==
    /\ DOMAIN a = DOMAIN r
    /\ \A k \in DOMAIN a : a[k].count = r[k].count /\ (r[k].sum = None \/ a[k].sum = r[k].sum)

\* Whatever structure or cached result answers a query, the answer is the one a scan of the
\* rows gives now, after any write, switch, schema change, drop or restart.
AnswersAreCurrent ==
    Outlived \/ ~ up \/ ~ ColumnsFit \/ (\E i \in DOMAIN results : ~ results[i].sound) \/ \A q \in Queries :
        IF q.kind = "groups" /\ schema # None
        THEN SumsInWriteOrder(q) \/ SameGroups(Answer(q), Reference(q))
        ELSE Answer(q) = Reference(q)

\* The checker is silent about every state the engine reaches, but for columns that outlived
\* their layout, and is not blind: it reports an index that lost one entry or lists one row
\* that is gone, and columns that lost or kept a row they should not (Database::verify).
VerifyIsExact ==
    LET sound == columnStore = None \/ columnStore.made = life IN
    /\ sound => verify(hashIndex, columnStore) = {}
    /\ schema # None /\ hashIndex # None =>
         /\ \A k \in DOMAIN hashIndex : \A id \in hashIndex[k] :
              <<"unlisted", id>> \in verify([hashIndex EXCEPT ![k] = @ \ {id}], columnStore)
         /\ \A k \in DOMAIN hashIndex : \A id \in Rids \ Existing :
              <<"dangling", id>> \in verify([hashIndex EXCEPT ![k] = @ \cup {id}], columnStore)
    /\ schema # None /\ columnStore # None /\ sound =>
         \A id \in Existing : <<"missing", id>> \in verify(hashIndex, mark_dead(columnStore, id))

\* What everything derived from the rows promises, in one invariant.
DerivedInvariant ==
    DerivedTypeOK /\ StructuresMatchRows /\ AnswersAreCurrent /\ VerifyIsExact

\* heap.rs:539 says of a declaration whose collection was dropped that it "replays
\* as nothing - same rule as every other per-collection op".
DroppedDeclarationsReplayAsNothing == up

\* database.rs:1981, invalidate_after_schema_change: "Drop everything derived from
\* `collection`'s old layout".
ViewsFollowTheLayout ==
    \A q \in Queries : FromView(q) /\ schema # None => DOMAIN Answer(q) = DOMAIN Reference(q)

\* matview.rs:18: a sum off "in the last decimal place ... is exactly the
\* divergence this project refuses to tolerate".
SumsDoNotDependOnTheAccessPath ==
    \A q \in Queries : q.kind = "groups" /\ schema # None /\ ~ Outlived /\ ColumnsFit
                         /\ (\A i \in DOMAIN results : results[i].sound)
                         => SameGroups(Answer(q), Reference(q))
=============================================================================
