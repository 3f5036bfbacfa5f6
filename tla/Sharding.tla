------------------------------- MODULE Sharding -------------------------------
(***************************************************************************)
(* The database split over shards (adabt-engine/src/sharded.rs): records   *)
(* belong to the shard of their id's residue; ids are generated inside     *)
(* that residue class; one collection's definition is carried to every     *)
(* shard by a broadcast; a query runs its scan and filters on every shard, *)
(* merges by id and finishes centrally.                                    *)
(*                                                                         *)
(* One collection.  What is done under one shard's lock is one step, so a  *)
(* broadcast is one step per shard, in any order.  Coordinated writes have *)
(* a module of their own (Coordinator).                                    *)
(***************************************************************************)
EXTENDS Integers, Sequences, FiniteSets, SequencesExt

CONSTANTS
    Clients,        \* threads that call the database at the same time
    ShardCounts,    \* how many shards an open may ask for
    Values,         \* field values, numbers so that a sort can order them
    Plans,          \* the queries: [leaf, ops], see Run
    Batches,        \* the batches insert_batch is called with: id -> value
    MaxId,          \* bound on record ids
    MaxWrites,      \* bound on calls that change something
    MaxQueries,     \* bound on queries
    MaxRestarts,    \* bound on restarts
    Absent          \* no record under an id

\* What the constants must satisfy; a module that gives them values assumes it.
ShardingAssumption ==
    /\ ShardCounts \subseteq Nat \ {0}
    /\ MaxId \in Nat

VARIABLES
    shards,     \* how many shards the database is open with
    exists,     \* which shards know the collection
    rows,       \* shard -> id -> value
    counter,    \* shard -> the collection's next_record_id there
    next_shard, \* where the next insert_auto goes
    calls,      \* client -> what its thread is doing
    used,       \* ghost: shard -> the ids it has stored since the collection was made there
    spent       \* how often the bounded things happened

svars == <<shards, exists, rows, counter, next_shard, calls, used, spent>>

Ids == 0..MaxId
MostShards == CHOOSE n \in ShardCounts : \A m \in ShardCounts : m <= n
Places == 0..(MostShards - 1)
Shards == 0..(shards - 1)
Empty == [id \in Ids |-> Absent]
Idle == [op |-> "idle"]

shard_of(id, n) == id % n
owner(id) == shard_of(id, shards)

-----------------------------------------------------------------------------
\* Plans: a leaf and the operators above it, the lowest first

IsCut(op) == op.name \notin {"filter"}

\* The rows of one heap, in the order the executor reads the leaf.
Stored(held, s) ==
    LET inOrder == [k \in 1..(MaxId + 1) |-> [id |-> k - 1, value |-> held[k - 1]]]
        Kept(r) == r.value # Absent
        Named(k) == [id |-> s[k], value |-> held[s[k]]]
    IN  IF s = <<>> THEN SelectSeq(inOrder, Kept)
        ELSE SelectSeq([k \in 1..Len(s) |-> Named(k)], Kept)

\* A stable sort, the largest value first.
Sorted(rs) ==
    LET Best(left) == CHOOSE v \in left : \A w \in left : w <= v
        f[left \in SUBSET Values] ==
            IF left = {} THEN <<>>
            ELSE LET Same(r) == r.value = Best(left)
                 IN  SelectSeq(rs, Same) \o f[left \ {Best(left)}]
    IN  f[Values]

Run(op, rs) ==
    CASE op.name = "filter" -> LET Passes(r) == r.value \in op.keep IN SelectSeq(rs, Passes)
      [] op.name = "limit"  -> SubSeq(rs, 1, IF op.n < Len(rs) THEN op.n ELSE Len(rs))
      [] op.name = "sort"   -> Sorted(rs)
      [] op.name = "count"  -> <<[id |-> 0, value |-> Len(rs)]>>

RunAll(ops, rs) == FoldLeft(LAMBDA acc, op : Run(op, acc), rs, ops)

\* The scan and every filter, whatever stands between them.
pushdown(plan) == [plan EXCEPT !.ops = SelectSeq(@, LAMBDA op : ~IsCut(op))]
is_only_pushdown(plan) == \A k \in DOMAIN plan.ops : ~IsCut(plan.ops[k])

\* One shard's answer to what was pushed down.
ShardAnswer(plan, held) == RunAll(pushdown(plan).ops, Stored(held, plan.ids))

merge_in_shard_order(runs) == FlattenSeq(runs)

\* The smallest head among the runs is taken next, the first of equals.
RECURSIVE merge_by_id(_)
merge_by_id(runs) ==
    LET open == {i \in DOMAIN runs : runs[i] # <<>>}
    IN  IF open = {} THEN <<>>
        ELSE LET i == CHOOSE j \in open :
                        \A k \in open : \/ Head(runs[j]).id < Head(runs[k]).id
                                        \/ Head(runs[j]).id = Head(runs[k]).id /\ j <= k
             IN  <<Head(runs[i])>> \o merge_by_id([runs EXCEPT ![i] = Tail(@)])

\* The merged rows as a heap the executor reads, the last of equal ids.
MergedRows(rs) ==
    [id \in Ids |-> IF \E k \in DOMAIN rs : rs[k].id = id
                    THEN rs[CHOOSE k \in DOMAIN rs :
                              rs[k].id = id /\ \A j \in DOMAIN rs : rs[j].id = id => j <= k].value
                    ELSE Absent]

query_with(plan, parts) ==
    LET merged == merge_by_id([i \in DOMAIN parts |-> parts[i]])
    IN  IF is_only_pushdown(plan) THEN merged
        ELSE RunAll(plan.ops, Stored(MergedRows(merged), plan.ids))

\* What one database holding the same rows answers.
Unsharded(plan, held) == RunAll(plan.ops, Stored(held, plan.ids))

-----------------------------------------------------------------------------
\* Writes to one record, under its shard's lock

Able(c) == calls[c] = Idle
Writing == spent.writes < MaxWrites
Wrote == spent' = [spent EXCEPT !.writes = @ + 1]

\* apply_put raises the counter past the id it stores.
Put(i, id, v) ==
    /\ rows' = [rows EXCEPT ![i][id] = v]
    /\ counter' = [counter EXCEPT ![i] = IF id >= @ THEN id + 1 ELSE @]
    /\ used' = [used EXCEPT ![i] = @ \cup {id}]

insert(c, id, v) ==
    /\ Able(c) /\ Writing /\ exists[owner(id)]
    /\ rows[owner(id)][id] = Absent
    /\ Put(owner(id), id, v) /\ Wrote
    /\ UNCHANGED <<shards, exists, next_shard, calls>>

update(c, id, v) ==
    /\ Able(c) /\ Writing /\ exists[owner(id)]
    /\ rows[owner(id)][id] \notin {Absent, v}
    /\ Put(owner(id), id, v) /\ Wrote
    /\ UNCHANGED <<shards, exists, next_shard, calls>>

delete(c, id) ==
    /\ Able(c) /\ Writing /\ exists[owner(id)]
    /\ rows[owner(id)][id] # Absent
    /\ rows' = [rows EXCEPT ![owner(id)][id] = Absent] /\ Wrote
    /\ UNCHANGED <<shards, exists, counter, next_shard, calls, used>>

-----------------------------------------------------------------------------
\* insert_auto: the shard is picked before its lock is taken

pick_shard(c, v) ==
    /\ Able(c) /\ Writing
    /\ calls' = [calls EXCEPT ![c] = [op |-> "auto", at |-> next_shard % shards, value |-> v]]
    /\ next_shard' = (next_shard + 1) % shards
    /\ Wrote
    /\ UNCHANGED <<shards, exists, rows, counter, used>>

NextAuto_floor(i) == ((IF counter[i] < i THEN 0 ELSE counter[i] - i) \div shards) * shards + i

\* raw.saturating_sub(i).div_ceil(shards) * shards + i
NextAuto(i) ==
    LET raw == counter[i]
        past == IF raw < i THEN 0 ELSE raw - i
    IN  ((past + shards - 1) \div shards) * shards + i

insert_auto(c) ==
    LET i == calls[c].at
        id == NextAuto(i)
    IN  /\ calls[c].op = "auto"
        /\ \/ /\ exists[i] /\ id <= MaxId
              /\ rows[owner(id)][id] = Absent
              /\ Put(i, id, calls[c].value)
           \/ /\ exists[i] /\ id <= MaxId
              /\ rows[owner(id)][id] # Absent          \* RecordExists
              /\ UNCHANGED <<rows, counter, used>>
           \/ /\ ~exists[i] \/ id > MaxId
              /\ UNCHANGED <<rows, counter, used>>
        /\ calls' = [calls EXCEPT ![c] = Idle]
        /\ UNCHANGED <<shards, exists, next_shard, spent>>

-----------------------------------------------------------------------------
\* insert_batch: one shard after the other, each all or nothing

Share(batch, i) == {id \in DOMAIN batch : owner(id) = i}
Refused(batch, i) == ~exists[i] \/ \E id \in Share(batch, i) : rows[i][id] # Absent

insert_batch(c, batch) ==
    /\ Able(c) /\ Writing
    /\ calls' = [calls EXCEPT ![c] =
                    [op |-> "batch", batch |-> batch, at |-> 0, written |-> 0, failed |-> FALSE]]
    /\ Wrote
    /\ UNCHANGED <<shards, exists, rows, counter, next_shard, used>>

\* Every shard is attempted, whatever an earlier one said.
batch_step(c) ==
    LET call == calls[c]
        i == call.at
        mine == Share(call.batch, i)
    IN  /\ call.op = "batch" /\ i < shards
        /\ \/ /\ mine # {} /\ ~Refused(call.batch, i)
              /\ rows' = [rows EXCEPT ![i] =
                            [id \in Ids |-> IF id \in mine THEN call.batch[id] ELSE @[id]]]
              /\ counter' = [counter EXCEPT ![i] =
                            IF \E id \in mine : id >= @
                            THEN (CHOOSE id \in mine : \A o \in mine : o <= id) + 1 ELSE @]
              /\ used' = [used EXCEPT ![i] = @ \cup mine]
              /\ calls' = [calls EXCEPT ![c].at = i + 1, ![c].written = @ + Cardinality(mine)]
           \/ /\ mine # {} /\ Refused(call.batch, i)
              /\ calls' = [calls EXCEPT ![c].at = i + 1, ![c].failed = TRUE]
              /\ UNCHANGED <<rows, counter, used>>
           \/ /\ mine = {}
              /\ calls' = [calls EXCEPT ![c].at = i + 1]
              /\ UNCHANGED <<rows, counter, used>>
        /\ UNCHANGED <<shards, exists, next_shard, spent>>

batch_returns(c) ==
    /\ calls[c].op = "batch" /\ calls[c].at = shards
    /\ calls' = [calls EXCEPT ![c] = Idle]
    /\ UNCHANGED <<shards, exists, rows, counter, next_shard, used, spent>>

-----------------------------------------------------------------------------
\* Broadcasts: every shard at once, each under its own lock

Broadcasts == {"create", "drop", "query"}
Broadcast(c, call) ==
    /\ Able(c)
    /\ calls' = [d \in Clients |->
                  IF d = c THEN call
                  ELSE IF call.op = "drop" /\ calls[d].op = "create"
                       THEN [calls[d] EXCEPT !.alone = FALSE] ELSE calls[d]]
    /\ UNCHANGED <<shards, exists, rows, counter, next_shard, used>>

create_collection(c) ==
    /\ Writing /\ Wrote
    /\ Broadcast(c, [op |-> "create", left |-> Shards, failed |-> FALSE,
                     alone |-> \A d \in Clients : calls[d].op # "drop"])

drop_collection(c) ==
    /\ Writing /\ Wrote
    /\ Broadcast(c, [op |-> "drop", left |-> Shards, failed |-> FALSE])

query(c, plan) ==
    /\ spent.queries < MaxQueries
    /\ spent' = [spent EXCEPT !.queries = @ + 1]
    /\ Broadcast(c, [op |-> "query", plan |-> plan, left |-> Shards, failed |-> FALSE,
                     parts |-> [i \in Places |-> Empty]])

\* Each thread runs to its end, whatever the others report.
Left(call, i) == call.left \ {i}

create_on(c, i) ==
    /\ calls[c].op = "create" /\ i \in calls[c].left
    /\ exists' = [exists EXCEPT ![i] = TRUE]
    /\ calls' = [calls EXCEPT ![c].left = Left([calls[c] EXCEPT !.failed = @ \/ exists[i]], i),
                              ![c].failed = @ \/ exists[i]]
    /\ UNCHANGED <<shards, rows, counter, next_shard, used, spent>>

drop_on(c, i) ==
    /\ calls[c].op = "drop" /\ i \in calls[c].left
    /\ exists' = [exists EXCEPT ![i] = FALSE]
    /\ rows' = [rows EXCEPT ![i] = Empty]
    /\ counter' = [counter EXCEPT ![i] = 0]
    /\ used' = [used EXCEPT ![i] = {}]
    /\ calls' = [calls EXCEPT ![c].left = Left([calls[c] EXCEPT !.failed = @ \/ ~exists[i]], i),
                              ![c].failed = @ \/ ~exists[i]]
    /\ UNCHANGED <<shards, next_shard, spent>>

query_on(c, i) ==
    /\ calls[c].op = "query" /\ i \in calls[c].left
    /\ calls' = [calls EXCEPT ![c].left = @ \ {i}, ![c].failed = @ \/ ~exists[i],
                              ![c].parts[i] = rows[i]]
    /\ UNCHANGED <<shards, exists, rows, counter, next_shard, used, spent>>

Returned(c) == calls[c].op \in Broadcasts /\ calls[c].left = {}

broadcast_returns(c) ==
    /\ Returned(c)
    /\ calls' = [calls EXCEPT ![c] = Idle]
    /\ UNCHANGED <<shards, exists, rows, counter, next_shard, used, spent>>

\* The answer of a query every shard has answered.
answer(call) ==
    query_with(call.plan, [i \in 1..shards |-> ShardAnswer(call.plan, call.parts[i - 1])])

-----------------------------------------------------------------------------
\* The process ends and is started again, with as many shards as it is told

reopen(n) ==
    /\ spent.restarts < MaxRestarts
    /\ spent' = [spent EXCEPT !.restarts = @ + 1]
    /\ shards' = n
    /\ next_shard' = 0
    /\ calls' = [c \in Clients |-> Idle]
    /\ UNCHANGED <<exists, rows, counter, used>>

ShardingInit ==
    /\ shards \in ShardCounts
    /\ exists = [i \in Places |-> FALSE]
    /\ rows = [i \in Places |-> Empty]
    /\ counter = [i \in Places |-> 0]
    /\ next_shard = 0
    /\ calls = [c \in Clients |-> Idle]
    /\ used = [i \in Places |-> {}]
    /\ spent = [writes |-> 0, queries |-> 0, restarts |-> 0]

Step(c) ==
    \/ \E id \in Ids, v \in Values : insert(c, id, v) \/ update(c, id, v)
    \/ \E id \in Ids : delete(c, id)
    \/ \E v \in Values : pick_shard(c, v)
    \/ insert_auto(c)
    \/ \E batch \in Batches : insert_batch(c, batch)
    \/ batch_step(c)
    \/ batch_returns(c)
    \/ create_collection(c)
    \/ drop_collection(c)
    \/ \E plan \in Plans : query(c, plan)
    \/ \E i \in Shards : create_on(c, i) \/ drop_on(c, i) \/ query_on(c, i)
    \/ broadcast_returns(c)

ShardingNext == (\E c \in Clients : Step(c)) \/ (\E n \in ShardCounts : reopen(n))
ShardingSpec == ShardingInit /\ [][ShardingNext]_svars

-----------------------------------------------------------------------------
\* Properties

\* Counters, rows and calls keep their shape, and a counter lies above every
\* id its shard stores (HeapStore::apply_put).
ShardingTypeOK ==
    /\ shards \in ShardCounts
    /\ exists \in [Places -> BOOLEAN]
    /\ rows \in [Places -> [Ids -> Values \cup {Absent}]]
    /\ counter \in [Places -> 0..(MaxId + 1)]
    /\ next_shard \in Places
    /\ \A i \in Places, id \in Ids : rows[i][id] # Absent => id < counter[i] /\ exists[i]
    /\ \A c \in Clients : calls[c].op \in Broadcasts \cup {"idle", "auto", "batch"}

\* "owner always agrees with where the record actually lives" (sharded.rs:739).
EveryRowHasItsOwner ==
    \A i \in Places, id \in Ids : rows[i][id] # Absent => owner(id) = i

\* insert_auto never meets a record and never gives an id a second time, not
\* even one whose record is gone, however explicit inserts, batches, deletes,
\* restarts and other callers came in between (sharded.rs:741-749).
AutoIdsAreNew ==
    [][\A c \in Clients :
         LET i == calls[c].at IN
         calls[c].op = "auto" /\ calls'[c] = Idle /\ exists[i] /\ NextAuto(i) <= MaxId
                              /\ spent'.restarts = spent.restarts
            => NextAuto(i) \notin used[i] /\ owner(NextAuto(i)) = i]_svars

\* A create that no drop overlapped leaves the collection on every shard, also
\* when some already had it, so that a create cut short is healed by trying
\* again (sharded.rs:703-705).
CreateReachesEveryShard ==
    \A c \in Clients :
        calls[c].op = "create" /\ calls[c].left = {} /\ calls[c].alone
            => \A i \in Shards : exists[i]

\* The heap one database would have read, made of what each shard read.
Union(parts) == [id \in Ids |-> parts[owner(id)][id]]
\* Plans whose filters stand below everything that reads across rows.
FiltersFirst(plan) ==
    /\ plan.ids = <<>>
    /\ \A j, k \in DOMAIN plan.ops : IsCut(plan.ops[j]) /\ j < k => IsCut(plan.ops[k])

\* Merging by id makes the answer the one an unpartitioned database gives over
\* the rows the shards read (sharded.rs:618-621).
AnswersMatchUnsharded ==
    \A c \in Clients :
        calls[c].op = "query" /\ calls[c].left = {} /\ FiltersFirst(calls[c].plan)
            => answer(calls[c]) = Unsharded(calls[c].plan, Union(calls[c].parts))

\* What a sharded database promises in every state.
ShardingInvariant ==
    ShardingTypeOK /\ EveryRowHasItsOwner /\ CreateReachesEveryShard /\ AnswersMatchUnsharded

\* The same of every plan: "Sort, Limit and Aggregate all read across rows.
\* Anything above one of them stays central" (sharded.rs:436).  A filter above
\* one of them is pushed down all the same.
EveryAnswerMatchesUnsharded ==
    \A c \in Clients :
        calls[c].op = "query" /\ calls[c].left = {} /\ calls[c].plan.ids = <<>>
            => answer(calls[c]) = Unsharded(calls[c].plan, Union(calls[c].parts))
=============================================================================
