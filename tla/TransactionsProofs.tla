------------------------- MODULE TransactionsProofs -------------------------
(***************************************************************************)
(* Theorems of Transactions, for any records, values, transactions and     *)
(* mixes of calls, and any number of crashes: first committer wins, reads  *)
(* stay true until the commit, and a constraint holds of the data whoever  *)
(* writes them.                                                            *)
(***************************************************************************)
EXTENDS Transactions, TLAPS

-----------------------------------------------------------------------------
(* The inductive invariant *)

Stages == {"idle", "active", "committing", "committed", "failed", "crashed"}
Written == Values \cup {None, Untouched}

Typed ==
    /\ data \in Contents /\ mix \in Mixes
    /\ snap \in [Txns -> Contents \cup {None}]
    /\ written \in [Txns -> SUBSET Records]
    /\ status \in [Owners -> Stages]
    /\ writes \in [Owners -> [Records -> Written]]
    /\ reads \in [Txns -> SUBSET Records] /\ seen \in [Txns -> SUBSET Records]
    /\ todo \in [Owners -> SUBSET Records]
    /\ constrained \in BOOLEAN /\ defined \in BOOLEAN
    /\ indexed \in BOOLEAN /\ lapsed \in BOOLEAN
    /\ index \in [Values -> SUBSET Records]

\* A snapshot is open while its transaction is, and shows every record that has not been
\* written since as it is now.
Snapshots ==
    \A t \in Txns :
        /\ snap[t] # None <=> status[t] \in {"active", "committing"}
        /\ snap[t] # None => \A id \in Records \ written[t] : data[id] = snap[t][id]

\* What a transaction has learnt of a record it has read, has written over, or found absent.
Learnt ==
    \A t \in Txns :
        /\ snap[t] = None => seen[t] = {}
        /\ snap[t] # None => \A id \in seen[t] :
              id \in reads[t] \/ writes[t][id] # Untouched \/ snap[t][id] = None

\* One call applies its writes at a time, and only those it has.
Applying ==
    /\ \A o, p \in Owners : status[o] = "committing" /\ status[p] = "committing" => o = p
    /\ \A o \in Owners : status[o] = "committing" =>
          \A id \in todo[o] : writes[o][id] # Untouched

\* A batch that is being applied still fits the data it was checked against.
Fitting ==
    status[Batch] = "committing" =>
        \A id \in todo[Batch] :
            /\ writes[Batch][id] \in Values /\ data[id] = None
            /\ constrained /\ ~ lapsed /\ writes[Batch][id] # Null =>
                 \A j \in Records : /\ data[j] # writes[Batch][id]
                                    /\ writes[Batch][j] = writes[Batch][id] => j = id

\* The index of a constraint that has not lapsed is there.
Backed == constrained /\ ~ lapsed => indexed

TInv ==
    /\ Typed /\ Snapshots /\ Learnt /\ Applying /\ Fitting
    /\ Backed /\ IndexMatchesData /\ UniqueHolds

-----------------------------------------------------------------------------
(* What the steps have in common *)

\* The owners, and what the constants are assumed to be.
LEMMA Owned ==
    /\ Batch \in Owners /\ Batch \notin Txns
    /\ \A t \in Txns : t \in Owners /\ t # Batch
    /\ None \notin Values /\ None \notin Contents /\ Null \in Values
    /\ Untouched \notin Values /\ Untouched # None
BY TransactionsAssumption DEF TransactionsAssumption, Owners, Txns

\* Nothing is applied when every call is over.
LEMMA NothingApplies ==
    ASSUME \A o \in Owners : status'[o] # "committing"
    PROVE  Applying' /\ Fitting'
BY Owned DEF Applying, Fitting

\* What a transaction has learnt is a matter of its own.
LEMMA LearntStays ==
    ASSUME Learnt, UNCHANGED <<snap, seen, reads, writes>>
    PROVE  Learnt'
BY DEF Learnt

\* A store nobody writes shows every snapshot what it did.
LEMMA SnapshotsStay ==
    ASSUME Snapshots, UNCHANGED <<data, snap, written, status>>
    PROVE  Snapshots'
BY DEF Snapshots

\* The index, its constraint and the data, all left alone.
LEMMA IndexStays ==
    ASSUME Backed, IndexMatchesData, UniqueHolds,
           UNCHANGED <<data, constrained, indexed, index, lapsed>>
    PROVE  Backed' /\ IndexMatchesData' /\ UniqueHolds'
BY DEF Backed, IndexMatchesData, UniqueHolds, NoDuplicates

\* One record written and reindexed: the index follows, and the constraint holds if it
\* was asked.
LEMMA Reindexing ==
    ASSUME Typed, Backed, IndexMatchesData, UniqueHolds,
           NEW id \in Records, NEW v \in Values \cup {None},
           Write(id, v), index' = Reindexed(id, v), UNCHANGED <<constrained, indexed, lapsed>>,
           v = None \/ check_unique_constraints(id, v)
    PROVE  /\ data' \in Contents /\ written' \in [Txns -> SUBSET Records]
           /\ index' \in [Values -> SUBSET Records]
           /\ Backed' /\ IndexMatchesData' /\ UniqueHolds'
<1>1. /\ data \in Contents /\ written \in [Txns -> SUBSET Records]
      /\ index \in [Values -> SUBSET Records]
      /\ data' = [data EXCEPT ![id] = v] /\ written' = Mark(id)
  BY DEF Typed, Write
<1>2. data' \in Contents /\ \A j \in Records : data'[j] = IF j = id THEN v ELSE data[j]
  BY <1>1 DEF Contents
<1>3. written' \in [Txns -> SUBSET Records]
  BY <1>1 DEF Mark, Txns
<1>4. index' \in [Values -> SUBSET Records]
  BY <1>1 DEF Reindexed
<1>5. Backed'
  BY DEF Backed
<1>6. IndexMatchesData'
  <2> SUFFICES ASSUME indexed, NEW w \in Values PROVE index'[w] = {j \in Records : data'[j] = w}
    BY DEF IndexMatchesData
  <2>1. index[w] = {j \in Records : data[j] = w}
    BY DEF IndexMatchesData
  <2>2. index'[w] = IF w = v THEN index[w] \cup {id} ELSE index[w] \ {id}
    BY DEF Reindexed
  <2> QED
    BY <1>2, <2>1, <2>2
<1>7. UniqueHolds'
  <2> SUFFICES ASSUME constrained, ~ lapsed, NEW a \in Records, NEW b \in Records,
                      data'[a] = data'[b], data'[a] \notin {None, Null}
               PROVE  a = b
    BY DEF UniqueHolds, NoDuplicates
  <2>1. /\ \A w \in Values : index[w] = {j \in Records : data[j] = w}
        /\ \A j, k \in Records : data[j] = data[k] /\ data[j] \notin {None, Null} => j = k
    BY DEF Backed, IndexMatchesData, UniqueHolds, NoDuplicates
  <2>2. v \notin {None, Null} => \A j \in Records : data[j] = v => j = id
    BY <2>1 DEF check_unique_constraints
  <2> QED
    BY <1>2, <2>1, <2>2
<1> QED
  BY <1>2, <1>3, <1>4, <1>5, <1>6, <1>7

\* A write is marked for every snapshot it makes differ.
LEMMA Marking ==
    ASSUME Typed, Snapshots, NEW id \in Records, NEW v, Write(id, v),
           \A t \in Txns : status'[t] = status[t]
    PROVE  Snapshots'
<1>1. /\ data \in Contents /\ written \in [Txns -> SUBSET Records]
      /\ data' = [data EXCEPT ![id] = v] /\ written' = Mark(id) /\ snap' = snap
  BY DEF Typed, Write
<1>2. \A j \in Records : j # id => data'[j] = data[j]
  BY <1>1 DEF Contents
<1>3. \A t \in Txns : snap[t] # None => written'[t] = written[t] \cup {id}
  BY <1>1 DEF Mark, Txns
<1> QED
  BY <1>1, <1>2, <1>3 DEF Snapshots

-----------------------------------------------------------------------------
(* Calls outside transactions *)

\* A direct insert, update or delete.
LEMMA DirectStep ==
    ASSUME TInv, Direct
    PROVE  TInv'
<1>1. PICK id \in Records : delete(id) \/ \E v \in Values : insert(id, v) \/ update(id, v)
  BY DEF Direct
<1>2. /\ \A o \in Owners : status[o] # "committing"
      /\ UNCHANGED <<status, writes, reads, seen, todo>>
      /\ UNCHANGED <<constrained, defined, indexed, lapsed, mix>>
  BY <1>1 DEF delete, insert, update, Call, Quiet, txnVars
<1>3. PICK v \in Values \cup {None} :
        Write(id, v) /\ index' = Reindexed(id, v) /\ (v = None \/ check_unique_constraints(id, v))
  <2>1. CASE delete(id)
    BY <2>1 DEF delete, Erase
  <2>2. ASSUME NEW v \in Values, insert(id, v)
        PROVE  Write(id, v) /\ index' = Reindexed(id, v) /\ check_unique_constraints(id, v)
    BY <2>2 DEF insert, Put, check_unique_constraints
  <2>3. ASSUME NEW v \in Values, update(id, v)
        PROVE  Write(id, v) /\ index' = Reindexed(id, v) /\ check_unique_constraints(id, v)
    BY <2>3 DEF update, Put
  <2> QED
    BY <1>1, <2>1, <2>2, <2>3
<1>4. /\ data' \in Contents /\ written' \in [Txns -> SUBSET Records]
      /\ index' \in [Values -> SUBSET Records]
      /\ Backed' /\ IndexMatchesData' /\ UniqueHolds'
  BY <1>2, <1>3, Reindexing DEF TInv
<1>5. Snapshots'
  BY <1>2, <1>3, Marking DEF TInv
<1>6. snap' = snap
  BY <1>3 DEF Write
<1>7. Learnt'
  BY <1>2, <1>6, LearntStays DEF TInv
<1>8. Applying' /\ Fitting'
  BY <1>2, NothingApplies
<1>9. Typed'
  BY <1>2, <1>4, <1>6 DEF TInv, Typed
<1> QED
  BY <1>4, <1>5, <1>7, <1>8, <1>9 DEF TInv

-----------------------------------------------------------------------------
(* The index and the constraint *)

Declares ==
    create_index \/ drop_index \/ add_unique_constraint \/ drop_unique_constraint \/ alter_schema

\* An index that is built says what the data says, and a constraint is declared of data
\* it holds of.
LEMMA DeclareStep ==
    ASSUME TInv, Declares
    PROVE  TInv'
<1>1. /\ \A o \in Owners : status[o] # "committing"
      /\ UNCHANGED <<data, snap, written, status, writes, reads, seen, todo, mix>>
  BY DEF Declares, create_index, drop_index, add_unique_constraint, drop_unique_constraint,
         alter_schema, Declare, Quiet, storeVars, txnVars
<1>2. data \in Contents /\ index \in [Values -> SUBSET Records]
  BY DEF TInv, Typed
<1>3. /\ Scanned(data) \in [Values -> SUBSET Records] /\ NoIndex \in [Values -> SUBSET Records]
      /\ \A v \in Values : Scanned(data)[v] = {id \in Records : data[id] = v}
  BY DEF Scanned, NoIndex
<1>4. /\ constrained' \in BOOLEAN /\ defined' \in BOOLEAN /\ indexed' \in BOOLEAN
      /\ lapsed' = (constrained' /\ (lapsed \/ ~ indexed'))
      /\ index' \in [Values -> SUBSET Records]
      /\ IndexMatchesData'
      /\ constrained' /\ ~ constrained => NoDuplicates
  <2>1. CASE create_index
    BY <1>1, <1>3, <2>1 DEF create_index, Declare, TInv, Typed, IndexMatchesData
  <2>2. CASE drop_index
    BY <1>1, <1>3, <2>2 DEF drop_index, Declare, TInv, Typed, IndexMatchesData
  <2>3. CASE add_unique_constraint
    <3>1. index' = IF indexed THEN index ELSE Scanned(data)
      BY <2>3 DEF add_unique_constraint, Declare
    <3>2. \A v \in Values : index'[v] = {id \in Records : data[id] = v}
      BY <1>3, <3>1 DEF TInv, IndexMatchesData
    <3> QED
      BY <1>1, <1>2, <1>3, <2>3, <3>1, <3>2
      DEF add_unique_constraint, Declare, TInv, Typed, IndexMatchesData
  <2>4. CASE drop_unique_constraint
    BY <1>1, <1>2, <2>4 DEF drop_unique_constraint, Declare, TInv, Typed, IndexMatchesData
  <2>5. CASE alter_schema
    BY <1>1, <1>3, <2>5 DEF alter_schema, Declare, TInv, Typed, IndexMatchesData
  <2> QED
    BY <2>1, <2>2, <2>3, <2>4, <2>5 DEF Declares
<1>5. Backed'
  BY <1>4 DEF Backed
<1>6. UniqueHolds'
  <2> SUFFICES ASSUME constrained', ~ lapsed' PROVE NoDuplicates'
    BY DEF UniqueHolds
  <2>1. NoDuplicates
    BY <1>4 DEF TInv, UniqueHolds
  <2> QED
    BY <1>1, <2>1 DEF NoDuplicates
<1>7. Snapshots' /\ Learnt'
  BY <1>1, SnapshotsStay, LearntStays DEF TInv
<1>8. Applying' /\ Fitting'
  BY <1>1, NothingApplies
<1>9. Typed'
  BY <1>1, <1>4 DEF TInv, Typed
<1> QED
  BY <1>4, <1>5, <1>6, <1>7, <1>8, <1>9 DEF TInv

-----------------------------------------------------------------------------
(* Statements *)

\* The transactions begin with nothing learnt.
LEMMA InitTInv ==
    ASSUME TInit
    PROVE  TInv
<1>1. Typed
  BY Owned DEF TInit, StoreInit, Typed, Contents, NoWrites, NoIndex, Stages, Written, Txns
<1>2. Snapshots /\ Learnt /\ Applying /\ Fitting
  BY Owned DEF TInit, StoreInit, Snapshots, Learnt, Applying, Fitting, Txns
<1>3. Backed /\ IndexMatchesData /\ UniqueHolds
  BY DEF TInit, Backed, IndexMatchesData, UniqueHolds
<1> QED
  BY <1>1, <1>2, <1>3 DEF TInv

\* A snapshot is taken of the data as they are.
LEMMA BeginStep ==
    ASSUME TInv, NEW t \in Txns, begin(t)
    PROVE  TInv'
<1>1. /\ Typed /\ Snapshots /\ Learnt /\ Backed /\ IndexMatchesData /\ UniqueHolds
      /\ \A o \in Owners : status[o] # "committing"
      /\ snap[t] = None /\ data' = data
      /\ snap' = [snap EXCEPT ![t] = data] /\ written' = [written EXCEPT ![t] = {}]
      /\ status' = [status EXCEPT ![t] = "active"]
      /\ UNCHANGED <<writes, reads, seen, todo>>
      /\ UNCHANGED <<constrained, defined, indexed, index, lapsed, mix>>
  BY DEF TInv, begin, Quiet, Take, indexVars
<1>2. /\ snap \in [Txns -> Contents \cup {None}] /\ status \in [Owners -> Stages]
      /\ written \in [Txns -> SUBSET Records] /\ data \in Contents
  BY <1>1 DEF Typed
<1>3. /\ snap' \in [Txns -> Contents \cup {None}] /\ status' \in [Owners -> Stages]
      /\ written' \in [Txns -> SUBSET Records]
      /\ \A o \in Owners : status'[o] # "committing"
  BY <1>1, <1>2, Owned DEF Stages
<1>4. Typed'
  BY <1>1, <1>3 DEF Typed
<1>5. /\ data # None /\ snap'[t] = data /\ status'[t] = "active"
      /\ \A u \in Txns : u # t =>
            snap'[u] = snap[u] /\ written'[u] = written[u] /\ status'[u] = status[u]
  BY <1>1, <1>2, Owned
<1>6. Snapshots'
  BY <1>1, <1>5 DEF Snapshots
<1>7. Learnt'
  BY <1>1, <1>5 DEF Learnt
<1>8. Applying' /\ Fitting'
  BY <1>3, NothingApplies
<1>9. Backed' /\ IndexMatchesData' /\ UniqueHolds'
  BY <1>1, IndexStays
<1> QED
  BY <1>4, <1>6, <1>7, <1>8, <1>9 DEF TInv

\* Whatever a statement learns of a record it reads, buffers over or finds absent.
Learns(t) ==
    /\ UNCHANGED snap
    /\ \A u \in Txns \ {t} :
          seen'[u] = seen[u] /\ reads'[u] = reads[u] /\ writes'[u] = writes[u]
    /\ \A id \in reads[t] : id \in reads'[t]
    /\ \A id \in Records : writes[t][id] # Untouched => writes'[t][id] # Untouched
    /\ \A id \in seen'[t] : id \in seen[t] \/ id \in reads'[t]
                            \/ writes'[t][id] # Untouched \/ snap[t][id] = None

\* A read that is recorded and a write that is buffered.
LEMMA Buffering ==
    ASSUME Typed, NEW t \in Txns, NEW id \in Records, NEW v \in Values \cup {None},
           Observe(t, id), Buffer(t, id, v) \/ UNCHANGED writes, UNCHANGED snap
    PROVE  /\ Learns(t)
           /\ reads' \in [Txns -> SUBSET Records] /\ seen' \in [Txns -> SUBSET Records]
           /\ writes' \in [Owners -> [Records -> Written]]
<1>1. /\ reads \in [Txns -> SUBSET Records] /\ seen \in [Txns -> SUBSET Records]
      /\ writes \in [Owners -> [Records -> Written]]
  BY DEF Typed
<1>2. /\ reads' \in [Txns -> SUBSET Records] /\ seen' \in [Txns -> SUBSET Records]
      /\ \A u \in Txns \ {t} : seen'[u] = seen[u] /\ reads'[u] = reads[u]
      /\ reads[t] \subseteq reads'[t]
      /\ \A j \in seen'[t] : j \in seen[t] \/ j \in reads'[t]
  BY <1>1 DEF Observe
<1>3. /\ writes' \in [Owners -> [Records -> Written]]
      /\ \A u \in Txns \ {t} : writes'[u] = writes[u]
      /\ \A j \in Records : writes[t][j] # Untouched => writes'[t][j] # Untouched
  <2>1. CASE UNCHANGED writes
    BY <1>1, <2>1
  <2>2. CASE Buffer(t, id, v)
    <3>1. writes' = [writes EXCEPT ![t] = [writes[t] EXCEPT ![id] = v]]
      BY <2>2 DEF Buffer
    <3>2. writes[t] \in [Records -> Written] /\ v \in Written /\ v # Untouched
      BY <1>1, Owned DEF Written
    <3>3. [writes[t] EXCEPT ![id] = v] \in [Records -> Written]
      BY <3>2
    <3> QED
      BY <1>1, <3>1, <3>2, <3>3, Owned
  <2> QED
    BY <2>1, <2>2
<1> QED
  BY <1>2, <1>3 DEF Learns

\* A get, insert, update, delete or scan of a transaction touches nothing but its own.
LEMMA StatementStep ==
    ASSUME TInv, NEW t \in Txns, Statements(t)
    PROVE  TInv'
<1>1. /\ Typed /\ Snapshots /\ Learnt /\ Backed /\ IndexMatchesData /\ UniqueHolds
  BY DEF TInv
<1>2. Statement(t)
  BY DEF Statements, txn_get, txn_insert, txn_update, txn_delete, txn_scan
<1>3. /\ status[t] = "active" /\ \A o \in Owners : status[o] # "committing"
      /\ UNCHANGED <<data, snap, written, status, todo, mix>>
      /\ UNCHANGED <<constrained, defined, indexed, index, lapsed>>
  BY <1>2 DEF Statement, Active, Quiet, storeVars, indexVars
<1>4. /\ Learns(t)
      /\ reads' \in [Txns -> SUBSET Records] /\ seen' \in [Txns -> SUBSET Records]
      /\ writes' \in [Owners -> [Records -> Written]]
  <2>1. ASSUME NEW id \in Records, NEW v \in Values,
               txn_get(t, id) \/ txn_delete(t, id) \/ txn_insert(t, id, v) \/ txn_update(t, id, v)
        PROVE  /\ Learns(t)
               /\ reads' \in [Txns -> SUBSET Records] /\ seen' \in [Txns -> SUBSET Records]
               /\ writes' \in [Owners -> [Records -> Written]]
    <3>1. Observe(t, id)
      BY <2>1 DEF txn_get, txn_insert, txn_update, txn_delete
    <3>2. PICK w \in Values \cup {None} : Buffer(t, id, w) \/ UNCHANGED writes
      BY <2>1 DEF txn_get, txn_insert, txn_update, txn_delete
    <3> QED
      BY <1>1, <1>3, <3>1, <3>2, Buffering
  <2>2. CASE txn_scan(t)
    <3>1. /\ reads' = [reads EXCEPT ![t] = @ \cup {id \in Records : View(t, id) # None}]
          /\ seen' = [seen EXCEPT ![t] = Records] /\ writes' = writes
      BY <2>2 DEF txn_scan
    <3>2. /\ reads \in [Txns -> SUBSET Records] /\ seen \in [Txns -> SUBSET Records]
          /\ writes \in [Owners -> [Records -> Written]]
      BY <1>1 DEF Typed
    <3>3. /\ \A id \in reads[t] : id \in reads'[t]
          /\ \A id \in Records : View(t, id) # None => id \in reads'[t]
      BY <3>1, <3>2
    <3>4. \A id \in seen'[t] : id \in reads'[t] \/ writes'[t][id] # Untouched \/ snap[t][id] = None
      BY <3>1, <3>2, <3>3 DEF View
    <3> QED
      BY <1>3, <3>1, <3>2, <3>3, <3>4 DEF Learns
  <2>3. PICK v : v \in Values
    BY Owned
  <2> QED
    BY <2>1, <2>2, <2>3 DEF Statements
<1>5. Learnt'
  <2>1. snap[t] # None
    BY <1>1, <1>3 DEF Snapshots
  <2>2. reads' \in [Txns -> SUBSET Records] /\ seen' \in [Txns -> SUBSET Records] /\ seen \in [Txns -> SUBSET Records]
    BY <1>1, <1>4 DEF Typed
  <2> QED
    BY <1>1, <1>4, <2>1, <2>2 DEF Learnt, Learns
<1>6. Snapshots'
  BY <1>1, <1>3, SnapshotsStay
<1>7. Applying' /\ Fitting'
  BY <1>3, NothingApplies
<1>8. Backed' /\ IndexMatchesData' /\ UniqueHolds'
  BY <1>1, <1>3, IndexStays
<1>9. Typed'
  BY <1>1, <1>3, <1>4 DEF Typed
<1> QED
  BY <1>5, <1>6, <1>7, <1>8, <1>9 DEF TInv

-----------------------------------------------------------------------------
(* Commit and abort *)

\* What a transaction that is over leaves of itself.
Over(t) ==
    /\ Snapshots' /\ Learnt' /\ UNCHANGED data
    /\ snap' \in [Txns -> Contents \cup {None}] /\ written' \in [Txns -> SUBSET Records]
    /\ reads' \in [Txns -> SUBSET Records] /\ seen' \in [Txns -> SUBSET Records]
    /\ status' \in [Owners -> Stages]
    /\ status'[t] # "committing"
    /\ \A o \in Owners \ {t} : status'[o] = status[o]

\* The snapshot is closed, the stage is a last one, and nothing learnt is kept.
LEMMA Ending ==
    ASSUME Typed, Snapshots, Learnt, NEW t \in Txns, NEW s \in {"committed", "failed"},
           End(t), status' = [status EXCEPT ![t] = s], UNCHANGED writes
    PROVE  Over(t)
<1>1. /\ snap \in [Txns -> Contents \cup {None}] /\ written \in [Txns -> SUBSET Records]
      /\ reads \in [Txns -> SUBSET Records] /\ seen \in [Txns -> SUBSET Records]
      /\ status \in [Owners -> Stages]
  BY DEF Typed
<1>2. /\ UNCHANGED data
      /\ snap' = [snap EXCEPT ![t] = None] /\ written' = [written EXCEPT ![t] = {}]
      /\ reads' = [reads EXCEPT ![t] = {}] /\ seen' = [seen EXCEPT ![t] = {}]
  BY DEF End, Drop
<1>3. /\ snap' \in [Txns -> Contents \cup {None}] /\ written' \in [Txns -> SUBSET Records]
      /\ reads' \in [Txns -> SUBSET Records] /\ seen' \in [Txns -> SUBSET Records]
      /\ status' \in [Owners -> Stages]
  BY <1>1, <1>2 DEF Stages
<1>4. /\ snap'[t] = None /\ seen'[t] = {} /\ status'[t] = s
      /\ \A u \in Txns : u # t =>
            /\ snap'[u] = snap[u] /\ written'[u] = written[u]
            /\ reads'[u] = reads[u] /\ seen'[u] = seen[u]
      /\ \A o \in Owners : o # t => status'[o] = status[o]
  BY <1>1, <1>2, Owned
<1>5. Snapshots'
  BY <1>2, <1>4, Owned DEF Snapshots
<1>6. Learnt'
  BY <1>4 DEF Learnt
<1> QED
  BY <1>2, <1>3, <1>4, <1>5, <1>6 DEF Over

\* A transaction that is over leaves the others and the index as they were.
LEMMA OverStep ==
    ASSUME TInv, NEW t \in Txns, Over(t),
           \A o \in Owners \ {t} : status[o] # "committing",
           todo' \in [Owners -> SUBSET Records], UNCHANGED <<writes, mix>>,
           UNCHANGED <<constrained, defined, indexed, index, lapsed>>
    PROVE  TInv'
<1>1. Typed /\ Backed /\ IndexMatchesData /\ UniqueHolds
  BY DEF TInv
<1>2. Applying' /\ Fitting'
  <2>1. \A o \in Owners : status'[o] # "committing"
    BY DEF Over
  <2> QED
    BY <2>1, NothingApplies
<1>3. Backed' /\ IndexMatchesData' /\ UniqueHolds'
  BY <1>1, IndexStays DEF Over
<1>4. Typed'
  BY <1>1 DEF Typed, Over
<1> QED
  BY <1>2, <1>3, <1>4 DEF TInv, Over

\* A commit that passes its checks has every write to apply; another is over.
LEMMA CommitStep ==
    ASSUME TInv, NEW t \in Txns, commit(t)
    PROVE  TInv'
<1>1. /\ Typed /\ Snapshots /\ Learnt /\ Backed /\ IndexMatchesData /\ UniqueHolds
      /\ status[t] = "active" /\ \A o \in Owners : status[o] # "committing"
      /\ todo' = [todo EXCEPT ![t] = Keys(t)] /\ UNCHANGED <<writes, mix>>
      /\ UNCHANGED <<constrained, defined, indexed, index, lapsed>>
  BY DEF TInv, commit, Active, Quiet, indexVars
<1>2. Keys(t) \in SUBSET Records /\ todo \in [Owners -> SUBSET Records]
      /\ status \in [Owners -> Stages]
  BY <1>1 DEF Keys, Typed
<1>3. todo' \in [Owners -> SUBSET Records] /\ todo'[t] = Keys(t)
  BY <1>1, <1>2, Owned
<1>4. CASE Checked(t)
  <2>1. status' = [status EXCEPT ![t] = "committing"]
        /\ UNCHANGED <<data, snap, written, reads, seen>>
    BY <1>4 DEF commit, storeVars
  <2>2. /\ status' \in [Owners -> Stages] /\ status'[t] = "committing"
        /\ \A o \in Owners : o # t => status'[o] = status[o]
    BY <1>2, <2>1, Owned DEF Stages
  <2>3. Snapshots' /\ Learnt'
    BY <1>1, <2>1, <2>2, Owned, LearntStays DEF Snapshots
  <2>4. Applying' /\ Fitting'
    BY <1>1, <1>3, <2>2, Owned DEF Applying, Fitting, Keys
  <2>5. Backed' /\ IndexMatchesData' /\ UniqueHolds'
    BY <1>1, <2>1, IndexStays
  <2>6. Typed'
    BY <1>1, <1>3, <2>1, <2>2 DEF Typed
  <2> QED
    BY <2>3, <2>4, <2>5, <2>6 DEF TInv
<1>5. CASE ~ Checked(t)
  <2>1. Over(t)
    BY <1>1, <1>5, Ending DEF commit
  <2> QED
    BY <1>1, <1>3, <2>1, OverStep
<1> QED
  BY <1>4, <1>5

\* A transaction that is given up.
LEMMA AbortStep ==
    ASSUME TInv, NEW t \in Txns, abort(t)
    PROVE  TInv'
<1>1. /\ Typed /\ Snapshots /\ Learnt
      /\ \A o \in Owners : status[o] # "committing"
      /\ todo' = [todo EXCEPT ![t] = Keys(t)] /\ UNCHANGED <<writes, mix>>
      /\ UNCHANGED <<constrained, defined, indexed, index, lapsed>>
      /\ status' = [status EXCEPT ![t] = "failed"] /\ End(t)
  BY DEF TInv, abort, Active, Quiet, indexVars
<1>2. todo' \in [Owners -> SUBSET Records]
  BY <1>1 DEF Typed, Keys
<1>3. Over(t)
  BY <1>1, Ending
<1> QED
  BY <1>1, <1>2, <1>3, OverStep

\* A commit all of whose writes are applied.
LEMMA CommittedStep ==
    ASSUME TInv, NEW t \in Txns, Committed(t)
    PROVE  TInv'
<1>1. /\ Typed /\ Snapshots /\ Learnt /\ Applying /\ status[t] = "committing"
      /\ UNCHANGED <<writes, todo, mix>>
      /\ UNCHANGED <<constrained, defined, indexed, index, lapsed>>
      /\ status' = [status EXCEPT ![t] = "committed"] /\ End(t)
  BY DEF TInv, Committed, indexVars
<1>2. todo' \in [Owners -> SUBSET Records]
  BY <1>1 DEF Typed
<1>3. Over(t)
  BY <1>1, Ending
<1>4. \A o \in Owners \ {t} : status[o] # "committing"
  BY <1>1, Owned DEF Applying
<1> QED
  BY <1>1, <1>2, <1>3, <1>4, OverStep

\* The next write of a commit is one more write of the collection, or is refused.
LEMMA ApplyStep ==
    ASSUME TInv, NEW t \in Txns, ApplyNext(t)
    PROVE  TInv'
<1>1. /\ Typed /\ Snapshots /\ Learnt /\ Applying /\ Backed /\ IndexMatchesData /\ UniqueHolds
      /\ status[t] = "committing" /\ UNCHANGED <<writes, mix>>
      /\ UNCHANGED <<constrained, defined, indexed, lapsed>>
  BY DEF TInv, ApplyNext
<1>2. PICK id \in todo[t] :
        IF writes[t][id] = None \/ check_unique_constraints(id, writes[t][id])
        THEN /\ todo' = [todo EXCEPT ![t] = @ \ {id}]
             /\ IF writes[t][id] = None THEN Erase(id) ELSE Put(id, writes[t][id])
             /\ UNCHANGED <<status, reads, seen>>
        ELSE /\ status' = [status EXCEPT ![t] = "failed"]
             /\ End(t)
             /\ UNCHANGED <<index, todo>>
  BY DEF ApplyNext
<1>3. \A o \in Owners \ {t} : status[o] # "committing"
  BY <1>1, Owned DEF Applying
<1>4. id \in Records /\ writes[t][id] \in Values \cup {None}
  BY <1>1, Owned DEF Typed, Applying, Written
<1>5. CASE writes[t][id] = None \/ check_unique_constraints(id, writes[t][id])
  <2>1. /\ todo' = [todo EXCEPT ![t] = @ \ {id}]
        /\ UNCHANGED <<status, reads, seen>>
    BY <1>2, <1>5
  <2>2. /\ data' \in Contents /\ written' \in [Txns -> SUBSET Records]
        /\ index' \in [Values -> SUBSET Records] /\ snap' = snap
        /\ Backed' /\ IndexMatchesData' /\ UniqueHolds' /\ Snapshots'
    <3>1. CASE Write(id, writes[t][id]) /\ index' = Reindexed(id, writes[t][id])
      <4>1. snap' = snap
        BY <3>1 DEF Write
      <4>2. Snapshots'
        BY <1>1, <1>4, <2>1, <3>1, Marking
      <4> QED
        BY <1>1, <1>4, <1>5, <3>1, <4>1, <4>2, Reindexing
    <3>2. CASE UNCHANGED <<data, snap, written, index>>
      BY <1>1, <2>1, <3>2, IndexStays, SnapshotsStay DEF Typed
    <3> QED
      BY <1>2, <1>5, <3>1, <3>2 DEF Erase, Put, storeVars
  <2>3. Learnt'
    BY <1>1, <2>1, <2>2, LearntStays
  <2>4. todo' \in [Owners -> SUBSET Records] /\ \A o \in Owners : todo'[o] \subseteq todo[o]
    BY <1>1, <2>1, Owned DEF Typed
  <2>5. Applying' /\ Fitting'
    BY <1>1, <1>3, <2>1, <2>4, Owned DEF Applying, Fitting
  <2>6. Typed'
    BY <1>1, <2>1, <2>2, <2>4 DEF Typed
  <2> QED
    BY <2>2, <2>3, <2>5, <2>6 DEF TInv
<1>6. CASE ~ (writes[t][id] = None \/ check_unique_constraints(id, writes[t][id]))
  <2>1. /\ status' = [status EXCEPT ![t] = "failed"] /\ End(t) /\ UNCHANGED <<index, todo>>
    BY <1>2, <1>6
  <2>2. Over(t)
    BY <1>1, <2>1, Ending
  <2>3. todo' \in [Owners -> SUBSET Records]
    BY <1>1, <2>1 DEF Typed
  <2> QED
    BY <1>1, <1>3, <2>1, <2>2, <2>3, OverStep
<1> QED
  BY <1>5, <1>6

-----------------------------------------------------------------------------
(* Batches and crashes *)

\* Any part of a batch that fits can be added to the data.
LEMMA Adding ==
    ASSUME Typed, Fitting, UniqueHolds, NEW kept \in SUBSET Records,
           kept = {} \/ (status[Batch] = "committing" /\ kept \subseteq todo[Batch]),
           data' = [id \in Records |-> IF id \in kept THEN writes[Batch][id] ELSE data[id]],
           UNCHANGED constrained, lapsed => lapsed'
    PROVE  /\ data' \in Contents /\ UniqueHolds'
           /\ \A id \in kept : writes[Batch][id] \in Values /\ data[id] = None
<1>1. data \in Contents /\ lapsed \in BOOLEAN
  BY DEF Typed
<1>2. \A id \in kept : writes[Batch][id] \in Values /\ data[id] = None
  BY DEF Fitting
<1>3. \A id \in Records : data'[id] = IF id \in kept THEN writes[Batch][id] ELSE data[id]
  OBVIOUS
<1>4. data' \in Contents
  BY <1>1, <1>2 DEF Contents
<1>5. UniqueHolds'
  <2> SUFFICES ASSUME constrained, ~ lapsed, NEW a \in Records, NEW b \in Records,
                      data'[a] = data'[b], data'[a] # None, data'[a] # Null
               PROVE  a = b
    BY <1>1 DEF UniqueHolds, NoDuplicates
  <2>1. data[a] = data[b] /\ data[a] \notin {None, Null} => a = b
    BY DEF UniqueHolds, NoDuplicates
  <2>2. \A id \in kept : writes[Batch][id] # Null =>
           \A j \in Records : /\ data[j] # writes[Batch][id]
                              /\ writes[Batch][j] = writes[Batch][id] => j = id
    BY DEF Fitting
  <2> QED
    BY <1>3, <2>1, <2>2
<1> QED
  BY <1>2, <1>4, <1>5

\* A batch is checked against the data it will be added to.
LEMMA InsertBatchStep ==
    ASSUME TInv, NEW b \in [Records -> Values \cup {Untouched}], insert_batch(b)
    PROVE  TInv'
<1>1. /\ Typed /\ Snapshots /\ Learnt /\ Backed /\ IndexMatchesData /\ UniqueHolds
      /\ \A o \in Owners : status[o] # "committing"
      /\ BatchFits(b)
      /\ writes' = [writes EXCEPT ![Batch] = b]
      /\ todo' = [todo EXCEPT ![Batch] = {id \in Records : b[id] # Untouched}]
      /\ status' = [status EXCEPT ![Batch] = "committing"]
      /\ UNCHANGED <<data, snap, written, reads, seen, mix>>
      /\ UNCHANGED <<constrained, defined, indexed, index, lapsed>>
  BY DEF TInv, insert_batch, Quiet, storeVars, indexVars
<1>2. /\ writes \in [Owners -> [Records -> Written]] /\ todo \in [Owners -> SUBSET Records]
      /\ status \in [Owners -> Stages]
  BY <1>1 DEF Typed
<1>3. b \in [Records -> Written]
  BY DEF Written
<1>4. /\ writes' \in [Owners -> [Records -> Written]] /\ todo' \in [Owners -> SUBSET Records]
      /\ status' \in [Owners -> Stages]
  BY <1>1, <1>2, <1>3 DEF Stages
<1>5. /\ writes'[Batch] = b /\ todo'[Batch] = {id \in Records : b[id] # Untouched}
      /\ \A o \in Owners : o # Batch => status'[o] = status[o] /\ writes'[o] = writes[o]
  BY <1>1, <1>2, Owned
<1>6. Snapshots' /\ Learnt'
  BY <1>1, <1>5, Owned DEF Snapshots, Learnt
<1>7. Applying'
  BY <1>1, <1>5 DEF Applying
<1>8. Fitting'
  <2> SUFFICES ASSUME NEW id \in Records, b[id] # Untouched
               PROVE  /\ b[id] \in Values /\ data[id] = None
                      /\ constrained /\ ~ lapsed /\ b[id] # Null =>
                           \A j \in Records : data[j] # b[id] /\ (b[j] = b[id] => j = id)
    BY <1>1, <1>5 DEF Fitting
  <2>1. b[id] \in Values
    OBVIOUS
  <2>2. /\ data[id] = None
        /\ constrained /\ b[id] # Null => /\ index[b[id]] = {}
                                          /\ \A j \in Records : b[j] = b[id] => j = id
    BY <1>1 DEF BatchFits
  <2>3. constrained /\ ~ lapsed => index[b[id]] = {j \in Records : data[j] = b[id]}
    BY <1>1, <2>1 DEF Backed, IndexMatchesData
  <2> QED
    BY <2>1, <2>2, <2>3
<1>9. Backed' /\ IndexMatchesData' /\ UniqueHolds'
  BY <1>1, IndexStays
<1>10. Typed'
  BY <1>1, <1>4 DEF Typed
<1> QED
  BY <1>6, <1>7, <1>8, <1>9, <1>10 DEF TInv

\* The whole batch is added to the data, marked for the snapshots and indexed.
LEMMA BatchAppliedStep ==
    ASSUME TInv, BatchApplied
    PROVE  TInv'
<1>1. /\ Typed /\ Snapshots /\ Learnt /\ Applying /\ Fitting
      /\ Backed /\ IndexMatchesData /\ UniqueHolds
      /\ status[Batch] = "committing"
  BY DEF TInv, BatchApplied
<1> DEFINE kept == todo[Batch]
<1>2. /\ data' = [id \in Records |-> IF id \in kept THEN writes[Batch][id] ELSE data[id]]
      /\ index' = IF ~ indexed THEN index ELSE
           [v \in Values |-> index[v] \cup {id \in kept : writes[Batch][id] = v}]
      /\ written' = [t \in Txns |-> IF snap[t] = None THEN {} ELSE written[t] \cup kept]
  BY DEF BatchApplied
<1>3. /\ status' = [status EXCEPT ![Batch] = "committed"] /\ todo' = [todo EXCEPT ![Batch] = {}]
      /\ UNCHANGED <<snap, writes, reads, seen, constrained, defined, indexed, lapsed, mix>>
  BY DEF BatchApplied
<1>4. kept \in SUBSET Records
  BY <1>1, Owned DEF Typed
<1> HIDE DEF kept
<1>5. /\ data' \in Contents /\ UniqueHolds'
      /\ \A id \in kept : writes[Batch][id] \in Values /\ data[id] = None
  BY <1>1, <1>2, <1>3, <1>4, Adding DEF kept
<1>6. /\ \A o \in Owners : o # Batch => status'[o] = status[o]
      /\ status' \in [Owners -> Stages] /\ todo' \in [Owners -> SUBSET Records]
      /\ status'[Batch] = "committed"
  BY <1>1, <1>3, Owned DEF Typed, Stages
<1>7. Snapshots'
  <2>1. \A t \in Txns : snap[t] # None => written'[t] = written[t] \cup kept
    BY <1>2
  <2>2. \A id \in Records : id \notin kept => data'[id] = data[id]
    BY <1>2
  <2> QED
    BY <1>1, <1>3, <1>6, <2>1, <2>2, Owned DEF Snapshots
<1>8. Learnt'
  BY <1>1, <1>3, LearntStays
<1>9. Applying' /\ Fitting'
  <2>1. \A o \in Owners : status'[o] # "committing"
    BY <1>1, <1>6, Owned DEF Applying
  <2> QED
    BY <2>1, NothingApplies
<1>10. index' \in [Values -> SUBSET Records]
  <2>1. index \in [Values -> SUBSET Records]
    BY <1>1 DEF Typed
  <2> QED
    BY <1>2, <1>4, <2>1
<1>11. IndexMatchesData'
  <2> SUFFICES ASSUME indexed, NEW v \in Values PROVE index'[v] = {id \in Records : data'[id] = v}
    BY <1>3 DEF IndexMatchesData
  <2>1. index[v] = {id \in Records : data[id] = v}
    BY <1>1 DEF IndexMatchesData
  <2>2. index'[v] = index[v] \cup {id \in kept : writes[Batch][id] = v}
    BY <1>2
  <2>3. \A id \in Records : data'[id] = IF id \in kept THEN writes[Batch][id] ELSE data[id]
    BY <1>2
  <2>4. \A id \in kept : data[id] # v
    BY <1>5, Owned
  <2> QED
    BY <1>4, <2>1, <2>2, <2>3, <2>4
<1>12. Backed'
  BY <1>1, <1>3 DEF Backed
<1>13. Typed'
  <2>1. written' \in [Txns -> SUBSET Records]
    BY <1>1, <1>2, <1>4 DEF Typed
  <2> QED
    BY <1>1, <1>3, <1>5, <1>6, <1>10, <2>1 DEF Typed
<1> QED
  BY <1>5, <1>7, <1>8, <1>9, <1>11, <1>12, <1>13 DEF TInv

\* A crash keeps part of a batch, closes every transaction and rebuilds the index.
LEMMA CrashStep ==
    ASSUME TInv, Crash
    PROVE  TInv'
<1>1. /\ Typed /\ Fitting /\ Backed /\ UniqueHolds
  BY DEF TInv
<1>2. PICK kept \in SUBSET Records :
         /\ IF status[Batch] = "committing" THEN Survives(kept) ELSE kept = {}
         /\ data' = [id \in Records |-> IF id \in kept THEN writes[Batch][id] ELSE data[id]]
         /\ todo' = [todo EXCEPT ![Batch] = @ \ kept]
  BY DEF Crash
<1>3. /\ snap' = [t \in Txns |-> None] /\ written' = [t \in Txns |-> {}]
      /\ reads' = [t \in Txns |-> {}] /\ seen' = [t \in Txns |-> {}]
      /\ status' = [o \in Owners |->
           IF status[o] \in {"active", "committing"} THEN "crashed" ELSE status[o]]
      /\ indexed' = defined /\ lapsed' = (lapsed \/ (constrained /\ ~ defined))
      /\ index' = IF defined THEN Scanned(data') ELSE NoIndex
      /\ UNCHANGED <<writes, constrained, defined, mix>>
  BY DEF Crash
<1>4. data' \in Contents /\ UniqueHolds'
  <2>1. kept = {} \/ (status[Batch] = "committing" /\ kept \subseteq todo[Batch])
    BY <1>2 DEF Survives
  <2>2. lapsed => lapsed'
    BY <1>3
  <2> QED
    BY <1>1, <1>2, <1>3, <2>1, <2>2, Adding
<1>5. /\ status' \in [Owners -> Stages]
      /\ \A o \in Owners : status'[o] \notin {"active", "committing"}
  BY <1>1, <1>3 DEF Typed, Stages
<1>6. Snapshots' /\ Learnt'
  BY <1>3, <1>5, Owned DEF Snapshots, Learnt
<1>7. Applying' /\ Fitting'
  BY <1>5, NothingApplies
<1>8. index' \in [Values -> SUBSET Records] /\ IndexMatchesData' /\ Backed'
  BY <1>3 DEF Scanned, NoIndex, IndexMatchesData, Backed
<1>9. Typed'
  <2>1. todo' \in [Owners -> SUBSET Records]
    BY <1>1, <1>2 DEF Typed
  <2>2. indexed' \in BOOLEAN /\ lapsed' \in BOOLEAN
    BY <1>1, <1>3 DEF Typed
  <2>3. /\ snap' \in [Txns -> Contents \cup {None}] /\ written' \in [Txns -> SUBSET Records]
        /\ reads' \in [Txns -> SUBSET Records] /\ seen' \in [Txns -> SUBSET Records]
    BY <1>3
  <2> QED
    BY <1>1, <1>3, <1>4, <1>5, <1>8, <2>1, <2>2, <2>3 DEF Typed
<1> QED
  BY <1>4, <1>6, <1>7, <1>8, <1>9 DEF TInv

-----------------------------------------------------------------------------
(* The theorems *)

\* Every step of any call, and every crash, keeps the invariant.
LEMMA NextTInv ==
    ASSUME TInv, [TNext]_tvars
    PROVE  TInv'
<1>1. CASE Direct
  BY <1>1, DirectStep
<1>2. CASE create_index \/ drop_index \/ add_unique_constraint \/ drop_unique_constraint
           \/ alter_schema
  BY <1>2, DeclareStep DEF Declares
<1>3. ASSUME NEW t \in Txns,
             \/ begin(t) \/ Statements(t) \/ commit(t) \/ abort(t)
             \/ ApplyNext(t) \/ Committed(t)
      PROVE  TInv'
  BY <1>3, BeginStep, StatementStep, CommitStep, AbortStep, ApplyStep, CommittedStep
<1>4. ASSUME NEW b \in [Records -> Values \cup {Untouched}], insert_batch(b) PROVE TInv'
  BY <1>4, InsertBatchStep
<1>5. CASE BatchApplied
  BY <1>5, BatchAppliedStep
<1>6. CASE Crash
  BY <1>6, CrashStep
<1>7. CASE UNCHANGED tvars
  BY <1>7 DEF tvars, storeVars, txnVars, indexVars, TInv, Typed, Snapshots, Learnt, Applying,
              Fitting, Backed, IndexMatchesData, UniqueHolds, NoDuplicates
<1> QED
  BY <1>1, <1>2, <1>3, <1>4, <1>5, <1>6, <1>7 DEF TNext

\* The inductive invariant holds of every state.
THEOREM Invariance == TSpec => []TInv
BY InitTInv, NextTInv, PTL DEF TSpec

\* The index says what the data say, and no two records share a value a constraint that
\* has not lapsed covers, through transactions, batches, direct calls, schema changes and
\* crashes; and a snapshot is open exactly while its transaction is.
THEOREM ConstraintsHold == TSpec => []ConstraintInvariant
<1>1. TInv => ConstraintInvariant
  <2> SUFFICES ASSUME TInv PROVE TTypeOK
    BY DEF TInv, ConstraintInvariant
  <2>1. Typed /\ Snapshots
    BY DEF TInv
  <2>2. \A t \in Txns : snap[t] = None \/ snap[t] \in Contents
    BY <2>1 DEF Typed
  <2>3. {constrained, defined, indexed, lapsed} \subseteq BOOLEAN
    BY <2>1 DEF Typed
  <2> QED
    BY <2>1, <2>2, <2>3 DEF Typed, Snapshots, TTypeOK, Written, Stages
<1> QED
  BY <1>1, Invariance, PTL

\* A commit that is accepted had written nothing, or had passed every check.
LEMMA Accepting ==
    ASSUME TInv, [TNext]_tvars, NEW t \in Txns,
           status[t] = "active", status'[t] = "committing"
    PROVE  Checked(t) /\ Snapshots /\ Learnt /\ Typed /\ snap[t] # None
<1>1. Snapshots /\ Learnt /\ Typed /\ snap[t] # None /\ status \in [Owners -> Stages]
  BY DEF TInv, Snapshots, Typed
<1>2. commit(t)
  <2>1. ~ Direct /\ ~ Declares /\ ~ UNCHANGED tvars
    BY DEF Direct, delete, insert, update, Declares, create_index, drop_index,
           add_unique_constraint, drop_unique_constraint, alter_schema, Declare,
           tvars, txnVars
  <2>2. ASSUME NEW u \in Txns,
               \/ begin(u) \/ Statements(u) \/ abort(u) \/ ApplyNext(u) \/ Committed(u)
        PROVE  FALSE
    <3>1. CASE begin(u) \/ abort(u) \/ Committed(u)
      BY <1>1, <3>1, Owned DEF begin, abort, Committed
    <3>2. CASE Statements(u)
      BY <3>2 DEF Statements, txn_get, txn_insert, txn_update, txn_delete, txn_scan, Statement
    <3>3. CASE ApplyNext(u)
      BY <1>1, <3>3, Owned DEF ApplyNext
    <3> QED
      BY <2>2, <3>1, <3>2, <3>3
  <2>3. ASSUME NEW b \in [Records -> Values \cup {Untouched}], insert_batch(b) PROVE FALSE
    BY <1>1, <2>3, Owned DEF insert_batch
  <2>4. ~ BatchApplied
    BY <1>1, Owned DEF BatchApplied
  <2>5. ~ Crash
    BY <1>1, Owned DEF Crash
  <2>6. ASSUME NEW u \in Txns, commit(u) PROVE u = t
    BY <1>1, <2>6, Owned DEF commit
  <2> QED
    BY <2>1, <2>2, <2>3, <2>4, <2>5, <2>6 DEF TNext, Declares
<1>3. Checked(t)
  BY <1>1, <1>2, Owned DEF commit
<1> QED
  BY <1>1, <1>3

\* A transaction whose commit is accepted overwrites nothing its snapshot did not show it.
THEOREM FirstCommitterWins == TSpec => NoLostUpdate
<1>1. ASSUME TInv, [TNext]_tvars, NEW t \in Txns, status[t] = "active",
             status'[t] = "committing", NEW id \in Keys(t)
      PROVE  data[id] = snap[t][id]
  <2>1. Checked(t) /\ Snapshots /\ snap[t] # None
    BY <1>1, Accepting
  <2>2. id \in Records /\ id \notin written[t]
    BY <2>1 DEF Checked, Conflicts, Keys
  <2> QED
    BY <2>1, <2>2 DEF Snapshots
<1>2. TInv /\ [TNext]_tvars =>
        [\A t \in Txns : status[t] = "active" /\ status'[t] = "committing" =>
           \A id \in Keys(t) : data[id] = snap[t][id]]_tvars
  BY <1>1
<1> QED
  BY <1>2, Invariance, PTL DEF TSpec, NoLostUpdate

\* Under Strict, what a transaction has learnt still holds when its commit is accepted, so
\* the order of the commits is a serial order.
THEOREM StrictIsSerializable == TSpec => CommitsAreSerializable
<1>1. ASSUME TInv, [TNext]_tvars, NEW t \in Txns, mix.consistency = "Strict",
             status[t] = "active", status'[t] = "committing",
             NEW id \in seen[t] \ Phantoms(t), Keys(t) # {}
      PROVE  data[id] = snap[t][id]
  <2>1. Checked(t) /\ Snapshots /\ Learnt /\ Typed /\ snap[t] # None
    BY <1>1, Accepting
  <2>2. id \in Records
    BY <2>1 DEF Typed
  <2>3. id \in reads[t] \/ writes[t][id] # Untouched
    BY <2>1 DEF Learnt, Phantoms
  <2>4. ~ Conflicts(t) /\ ~ StaleReads(t)
    BY <1>1, <2>1 DEF Checked
  <2>5. id \notin written[t]
    BY <1>1, <2>2, <2>3, <2>4 DEF Conflicts, StaleReads, Keys
  <2> QED
    BY <2>1, <2>2, <2>5 DEF Snapshots
<1>2. TInv /\ [TNext]_tvars =>
        [\A t \in Txns :
           /\ mix.consistency = "Strict"
           /\ status[t] = "active" /\ status'[t] = "committing"
           => \A id \in seen[t] \ Phantoms(t) : Keys(t) # {} => data[id] = snap[t][id]]_tvars
  BY <1>1
<1> QED
  BY <1>2, Invariance, PTL DEF TSpec, CommitsAreSerializable
=============================================================================
