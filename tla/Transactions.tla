---------------------------- MODULE Transactions ----------------------------
(***************************************************************************)
(* Multi-statement transactions, batches and unique constraints of one     *)
(* collection of a Database (crates/adabt-engine/src/transaction.rs,       *)
(* database.rs, unique.rs), over the snapshot store the heap implements.   *)
(*                                                                         *)
(* A Database is used by one thread at a time, so nothing interleaves with *)
(* a call; what interleaves are the calls of several open transactions and *)
(* of callers without one.  Commit and insert_batch are several steps here *)
(* because they write several log entries, and a crash can fall between    *)
(* them.  Every entry is durable once its write returns (Strict).          *)
(*                                                                         *)
(* A record is its value of the one field a constraint can be declared on; *)
(* Null is a value the constraint does not look at.                        *)
(***************************************************************************)
EXTENDS SnapshotStore, Naturals

CONSTANTS
    Null,         \* member of Values: a null field
    Batch,        \* stands for the caller of insert_batch
    Untouched,    \* a record a transaction has not written
    Mixes,        \* what a run may be set up as: see Mixed
    MaxCrashes    \* bound: crashes

\* The consistency the policy asks for, what the clients do (declare a unique
\* constraint, scan, alter the schema, drop the index, insert in batches), and two bounds:
\* how many of Txns they begin, and how often they write without one.
Mixed == [consistency : {"Strict", "Snapshot"}, unique : BOOLEAN, scans : BOOLEAN,
          alters : BOOLEAN, drops : BOOLEAN, batches : BOOLEAN, txns : Nat,
          writes : Nat]

ASSUME TransactionsAssumption ==
    /\ Records \subseteq Nat /\ IsFiniteSet(Records)
    /\ Null \in Values
    /\ None \notin Values /\ Untouched \notin Values \cup {None}
    /\ None \notin Contents
    /\ Batch \notin Readers
    /\ Mixes \subseteq Mixed
    /\ MaxCrashes \in Nat

Txns == Readers
Owners == Txns \cup {Batch}

VARIABLES
    status,   \* owner -> where its transaction (or batch) is
    writes,   \* owner -> record -> buffered value, None (delete) or Untouched
    reads,    \* transaction -> Transaction.reads
    seen,     \* history: transaction -> every record it learnt something about
    todo,     \* owner -> writes of a commit still to be applied
    constrained,  \* whether the field is in UniqueConstraints (memory and file agree)
    defined,      \* whether the log defines a hash index on the field
    indexed,      \* whether that index exists in memory
    index,        \* value -> records the index holds under it
    lapsed,       \* history: a constraint has been without its index since declared
    crashes, calls,
    mix       \* the member of Mixes this run follows

txnVars == <<status, writes, reads, seen, todo>>
indexVars == <<constrained, defined, indexed, index, lapsed>>
tvars == <<storeVars, txnVars, indexVars, crashes, calls, mix>>

NoWrites == [id \in Records |-> Untouched]
Keys(o) == {id \in Records : writes[o][id] # Untouched}
Applied(o) == Keys(o) \ todo[o]

\* No call is in the middle of applying its writes.
Quiet == \A o \in Owners : status[o] # "committing"

-----------------------------------------------------------------------------
(* Derived structures and the writes of the engine *)

\* reindex_remove of the old record, then reindex_insert of the new one.
Reindexed(id, v) ==
    IF indexed THEN [w \in Values |-> IF w = v THEN index[w] \cup {id} ELSE index[w] \ {id}]
               ELSE index

\* A check that takes any holder of the value but the last for the record itself.
check_unique_constraints_one(id, v) ==
    constrained /\ v # Null => Cardinality(index[v]) <= 1

\* Whether v may be written to record id: nobody else is indexed under it.
check_unique_constraints(id, v) == constrained /\ v # Null => index[v] \subseteq {id}

\* Database::update / insert, after their checks.
Put(id, v) == Write(id, v) /\ index' = Reindexed(id, v)

\* Database::delete; an absent record is left absent.
Erase(id) ==
    IF data[id] = None THEN UNCHANGED <<storeVars, index>>
    ELSE Write(id, None) /\ index' = Reindexed(id, None)

-----------------------------------------------------------------------------
(* Calls outside transactions *)

Call == Quiet /\ calls < mix.writes /\ calls' = calls + 1

insert(id, v) ==
    /\ Call /\ data[id] = None
    \* exclude is None: the record's own entry would count, if it had one.
    /\ constrained /\ v # Null => index[v] = {}
    /\ Put(id, v)
    /\ UNCHANGED <<txnVars, constrained, defined, indexed, lapsed, crashes, mix>>

update(id, v) ==
    /\ Call /\ check_unique_constraints(id, v)
    /\ Put(id, v)
    /\ UNCHANGED <<txnVars, constrained, defined, indexed, lapsed, crashes, mix>>

delete(id) ==
    /\ Call /\ data[id] # None
    /\ Erase(id)
    /\ UNCHANGED <<txnVars, constrained, defined, indexed, lapsed, crashes, mix>>

-----------------------------------------------------------------------------
(* The index and the constraint *)

Declare(c, d, i, x) ==
    /\ Quiet
    /\ constrained' = c /\ defined' = d /\ indexed' = i /\ index' = x
    /\ lapsed' = (c /\ (lapsed \/ ~ i))
    /\ UNCHANGED <<storeVars, txnVars, crashes, calls, mix>>

NoIndex == [v \in Values |-> {}]

\* An index built from a scan of the heap.
Scanned(d) == [v \in Values |-> {id \in Records : d[id] = v}]

NoDuplicates ==
    \A a, b \in Records : data[a] = data[b] /\ data[a] \notin {None, Null} => a = b

create_index ==
    mix.unique /\ ~ indexed /\ Declare(constrained, TRUE, TRUE, Scanned(data))

drop_index ==
    mix.drops /\ indexed /\ Declare(constrained, FALSE, FALSE, NoIndex)

\* Existing data first; then the backing index, unless there is one already.
add_unique_constraint ==
    /\ mix.unique /\ ~ constrained /\ NoDuplicates
    /\ Declare(TRUE, TRUE, TRUE, IF indexed THEN index ELSE Scanned(data))

\* The backing index is left in place.
drop_unique_constraint == constrained /\ Declare(FALSE, defined, indexed, index)

\* invalidate_after_schema_change drops the indexes of the collection from memory;
\* their definitions stay in the log.
alter_schema == mix.alters /\ indexed /\ Declare(constrained, defined, FALSE, NoIndex)

-----------------------------------------------------------------------------
(* Transaction: reads and buffered writes *)

begin(t) ==
    /\ Quiet /\ status[t] = "idle"
    /\ Cardinality({u \in Txns : status[u] # "idle"}) < mix.txns
    /\ Take(t)
    /\ status' = [status EXCEPT ![t] = "active"]
    /\ UNCHANGED <<writes, reads, seen, todo, indexVars, crashes, calls, mix>>

Active(t) == Quiet /\ status[t] = "active"

\* What a transaction sees of a record: its own write first, then its snapshot.
View(t, id) == IF writes[t][id] # Untouched THEN writes[t][id] ELSE snap[t][id]

\* Transaction::get, which every statement starts with.
Observe(t, id) ==
    IF writes[t][id] # Untouched THEN UNCHANGED <<reads, seen>>
    ELSE /\ reads' = [reads EXCEPT ![t] = @ \cup {id}]
         /\ seen' = [seen EXCEPT ![t] = @ \cup {id}]

Buffer(t, id, v) == writes' = [writes EXCEPT ![t][id] = v]

Statement(t) ==
    /\ Active(t)
    /\ UNCHANGED <<storeVars, status, todo, indexVars, crashes, calls, mix>>

txn_get(t, id) == Statement(t) /\ Observe(t, id) /\ UNCHANGED writes

\* RecordExists leaves the read recorded and nothing buffered.
txn_insert(t, id, v) ==
    /\ Statement(t) /\ Observe(t, id)
    /\ IF View(t, id) # None THEN UNCHANGED writes ELSE Buffer(t, id, v)

txn_update(t, id, v) == Statement(t) /\ Observe(t, id) /\ Buffer(t, id, v)

txn_delete(t, id) == Statement(t) /\ Observe(t, id) /\ Buffer(t, id, None)

\* The rows found join the read set; the scan has also learnt which are absent.
txn_scan(t) ==
    /\ mix.scans /\ Statement(t)
    /\ reads' = [reads EXCEPT ![t] = @ \cup {id \in Records : View(t, id) # None}]
    /\ seen' = [seen EXCEPT ![t] = Records]
    /\ UNCHANGED writes

-----------------------------------------------------------------------------
(* Commit *)

\* The Transaction value is dropped, and its snapshot with it.
End(t) ==
    /\ Drop(t)
    /\ reads' = [reads EXCEPT ![t] = {}] /\ seen' = [seen EXCEPT ![t] = {}]

\* A conflict test that only looks at the records being put.
Conflicts_puts(t) ==
    \E id \in Keys(t) : writes[t][id] # None /\ id \in written[t]

\* First committer wins, on the write set.
Conflicts(t) == Keys(t) \cap written[t] # {}

\* A read set that is recorded and never validated.
StaleReads_never(t) == FALSE

\* The same rule on the read set, under Consistency::Strict.
StaleReads(t) == mix.consistency = "Strict" /\ (reads[t] \ Keys(t)) \cap written[t] # {}

Violates(o) ==
    \E id \in Keys(o) : writes[o][id] # None /\ ~ check_unique_constraints(id, writes[o][id])

\* The whole write set is checked before any of it is applied.
Checked(t) == Keys(t) = {} \/ (~ Conflicts(t) /\ ~ Violates(t) /\ ~ StaleReads(t))

commit(t) ==
    /\ Active(t)
    /\ todo' = [todo EXCEPT ![t] = Keys(t)]
    /\ IF Checked(t)
       THEN /\ status' = [status EXCEPT ![t] = "committing"]
            /\ UNCHANGED <<storeVars, reads, seen>>
       ELSE /\ status' = [status EXCEPT ![t] = "failed"]
            /\ End(t)
    /\ UNCHANGED <<writes, indexVars, crashes, calls, mix>>

\* abort, or dropping the value.
abort(t) ==
    /\ Active(t)
    /\ status' = [status EXCEPT ![t] = "failed"]
    /\ todo' = [todo EXCEPT ![t] = Keys(t)]
    /\ End(t)
    /\ UNCHANGED <<writes, indexVars, crashes, calls, mix>>

\* The next key in sorted order goes through the ordinary update or delete, which
\* checks the constraint again and may refuse.
ApplyNext(t) ==
    /\ status[t] = "committing"
    /\ \E id \in todo[t] :
         /\ \A j \in todo[t] : id <= j
         /\ IF writes[t][id] = None \/ check_unique_constraints(id, writes[t][id])
            THEN /\ todo' = [todo EXCEPT ![t] = @ \ {id}]
                 /\ IF writes[t][id] = None THEN Erase(id) ELSE Put(id, writes[t][id])
                 /\ UNCHANGED <<status, reads, seen>>
            ELSE /\ status' = [status EXCEPT ![t] = "failed"]
                 /\ End(t)
                 /\ UNCHANGED <<index, todo>>
    /\ UNCHANGED <<writes, constrained, defined, indexed, lapsed, crashes, calls, mix>>

Committed(t) ==
    /\ status[t] = "committing" /\ todo[t] = {}
    /\ status' = [status EXCEPT ![t] = "committed"]
    /\ End(t)
    /\ UNCHANGED <<writes, todo, indexVars, crashes, calls, mix>>

-----------------------------------------------------------------------------
(* insert_batch: everything checked, against the data and within the batch,  *)
(* every entry logged, one fsync, then everything applied.                   *)

BatchFits(b) ==
    \A id \in Records : b[id] # Untouched =>
        /\ data[id] = None
        /\ constrained /\ b[id] # Null =>
             /\ index[b[id]] = {}
             /\ \A j \in Records : b[j] = b[id] => j = id

insert_batch(b) ==
    /\ mix.batches /\ Quiet /\ status[Batch] = "idle" /\ b # NoWrites
    /\ BatchFits(b)
    /\ writes' = [writes EXCEPT ![Batch] = b]
    /\ todo' = [todo EXCEPT ![Batch] = {id \in Records : b[id] # Untouched}]
    /\ status' = [status EXCEPT ![Batch] = "committing"]
    /\ UNCHANGED <<storeVars, reads, seen, indexVars, crashes, calls, mix>>

\* The fsync has returned; the rows are placed and indexed in one go.
BatchApplied ==
    /\ status[Batch] = "committing"
    /\ LET b == writes[Batch]
       IN  /\ data' = [id \in Records |-> IF id \in todo[Batch] THEN b[id] ELSE data[id]]
           /\ index' = IF ~ indexed THEN index ELSE
                [v \in Values |-> index[v] \cup {id \in todo[Batch] : b[id] = v}]
    /\ written' = [t \in Txns |-> IF snap[t] = None THEN {} ELSE written[t] \cup todo[Batch]]
    /\ status' = [status EXCEPT ![Batch] = "committed"]
    /\ todo' = [todo EXCEPT ![Batch] = {}]
    /\ UNCHANGED <<snap, writes, reads, seen, constrained, defined, indexed, lapsed, crashes,
                   calls, mix>>

-----------------------------------------------------------------------------
(* The process dies; Database::open reads the constraints back and rebuilds  *)
(* every index the log defines from the heap.                                *)

\* The entries of an unfinished batch that had reached the disk.
Survives(kept) ==
    /\ kept \subseteq todo[Batch]
    /\ \A id \in kept : \A j \in todo[Batch] : j <= id => j \in kept

Crash ==
    /\ crashes < MaxCrashes /\ crashes' = crashes + 1
    /\ \E kept \in SUBSET Records :
         /\ IF status[Batch] = "committing" THEN Survives(kept) ELSE kept = {}
         /\ data' = [id \in Records |-> IF id \in kept THEN writes[Batch][id] ELSE data[id]]
         /\ todo' = [todo EXCEPT ![Batch] = @ \ kept]
    /\ snap' = [t \in Txns |-> None] /\ written' = [t \in Txns |-> {}]
    /\ reads' = [t \in Txns |-> {}] /\ seen' = [t \in Txns |-> {}]
    /\ status' = [o \in Owners |->
         IF status[o] \in {"active", "committing"} THEN "crashed" ELSE status[o]]
    /\ indexed' = defined /\ lapsed' = (lapsed \/ (constrained /\ ~ defined))
    /\ index' = IF defined THEN Scanned(data') ELSE NoIndex
    /\ UNCHANGED <<writes, constrained, defined, calls, mix>>

-----------------------------------------------------------------------------
TInit ==
    /\ StoreInit
    /\ status = [o \in Owners |-> "idle"]
    /\ writes = [o \in Owners |-> NoWrites]
    /\ reads = [t \in Txns |-> {}] /\ seen = [t \in Txns |-> {}]
    /\ todo = [o \in Owners |-> {}]
    /\ constrained = FALSE /\ defined = FALSE /\ indexed = FALSE /\ index = NoIndex
    /\ lapsed = FALSE
    /\ crashes = 0 /\ calls = 0
    /\ mix \in Mixes

Statements(t) ==
    \/ \E id \in Records :
         \/ txn_get(t, id) \/ txn_delete(t, id)
         \/ \E v \in Values : txn_insert(t, id, v) \/ txn_update(t, id, v)
    \/ txn_scan(t)

Direct ==
    \E id \in Records :
        delete(id) \/ \E v \in Values : insert(id, v) \/ update(id, v)

TNext ==
    \/ Direct
    \/ create_index \/ drop_index \/ add_unique_constraint \/ drop_unique_constraint
    \/ alter_schema
    \/ \E t \in Txns :
         \/ begin(t) \/ Statements(t) \/ commit(t) \/ abort(t)
         \/ ApplyNext(t) \/ Committed(t)
    \/ \E b \in [Records -> Values \cup {Untouched}] : insert_batch(b)
    \/ BatchApplied
    \/ Crash

TSpec == TInit /\ [][TNext]_tvars

-----------------------------------------------------------------------------
(* Properties *)

\* Types; and a snapshot is open exactly while its transaction is: one that outlived
\* it would keep the heap from reclaiming versions for ever.
TTypeOK ==
    /\ data \in Contents /\ mix \in Mixes
    /\ \A t \in Txns : snap[t] = None \/ snap[t] \in Contents
    /\ written \in [Txns -> SUBSET Records]
    /\ status \in [Owners ->
         {"idle", "active", "committing", "committed", "failed", "crashed"}]
    /\ writes \in [Owners -> [Records -> Values \cup {None, Untouched}]]
    /\ reads \in [Txns -> SUBSET Records] /\ seen \in [Txns -> SUBSET Records]
    /\ todo \in [Owners -> SUBSET Records]
    /\ {constrained, defined, indexed, lapsed} \subseteq BOOLEAN
    /\ index \in [Values -> SUBSET Records]
    /\ \A t \in Txns : snap[t] # None <=> status[t] \in {"active", "committing"}

\* The index a constraint is checked against says exactly what the heap says, so a
\* transaction, a batch or a crash never leaves an entry behind or misses one.
IndexMatchesData ==
    indexed => \A v \in Values : index[v] = {id \in Records : data[id] = v}

\* While a constraint stands, and has had its index since it was declared, no two
\* records share a value that is not null, whoever wrote them: transactions, batches,
\* direct calls, and whatever a crash left of any of them.
UniqueHolds == constrained /\ ~ lapsed => NoDuplicates

\* What holds of constraint, index and transactions in every state.
ConstraintInvariant == TTypeOK /\ IndexMatchesData /\ UniqueHolds

\* First committer wins: a transaction whose commit is accepted overwrites nothing
\* its snapshot did not show it.
NoLostUpdate ==
    [][\A t \in Txns : status[t] = "active" /\ status'[t] = "committing" =>
         \A id \in Keys(t) : data[id] = snap[t][id]]_tvars

\* A record a scan has shown to be absent, and no statement has looked up.
Phantoms(t) == {id \in seen[t] \ reads[t] : snap[t][id] = None}

\* "serializable on request ... the skew is closed" (transaction.rs): under Strict,
\* everything a transaction has learnt from the database still holds when its commit
\* is accepted, "predicate phantoms" (docs/limitations.md) aside, so the order of
\* commits is a serial order.
CommitsAreSerializable ==
    [][\A t \in Txns :
         /\ mix.consistency = "Strict"
         /\ status[t] = "active" /\ status'[t] = "committing"
         => \A id \in seen[t] \ Phantoms(t) : Keys(t) # {} => data[id] = snap[t][id]]_tvars

\* "Apply every buffered write, or none of them" (Database::commit): a call that
\* returns has left all of the transaction's writes, or, if it failed, none.
CommitAllOrNothing ==
    \A t \in Txns :
        /\ status[t] = "committed" => Applied(t) = Keys(t)
        /\ status[t] = "failed" => Applied(t) = {}

=============================================================================
