----------------------------- MODULE Coordinator -----------------------------
(***************************************************************************)
(* Cross-shard commits of a ShardedDatabase                                *)
(* (crates/adabt-engine/src/sharded.rs): the coordinator journal, its      *)
(* application shard by shard while other threads write, and its replay    *)
(* when the database is opened again.                                      *)
(*                                                                         *)
(* A shard is a Database behind its own lock: one insert, update or delete *)
(* of one record is atomic, and durable when it returns (Strict).  The     *)
(* coordinator's mutex lets one commit_coordinated run at a time; writes   *)
(* of single records do not take it.                                       *)
(***************************************************************************)
EXTENDS Naturals, SequencesExt

CONSTANTS
    Ids,           \* record ids; a record lives in shard id % shards
    Rows, Gone,
    Refused,       \* values the schema of the collection does not admit
    Txns,          \* coordinated transactions, each committed once
    Torn,          \* whether a crash can leave part of the journal being written
    MaxDirect, MaxCrashes   \* bounds

ASSUME CoordinatorAssumption ==
    /\ Ids \subseteq Nat
    /\ Gone \notin Rows \cup Refused /\ Rows \cap Refused = {}
    /\ Torn \in BOOLEAN
    /\ MaxDirect \in Nat /\ MaxCrashes \in Nat

\* CrossShardWrite, with the transaction it belongs to; a record of Gone deletes.
Writes(t) == [txn : {t}, id : Ids, record : Rows \cup Refused \cup {Gone}]
WriteSets(t) ==
    {<<w>> : w \in Writes(t)}
        \cup {ws \in Writes(t) \X Writes(t) : ws[1].id < ws[2].id}

\* What is in the journal file: nothing, a header that cannot be read, or entries.
Absent == [file |-> "absent", entries |-> <<>>]
BadHeader == [file |-> "bad", entries |-> <<>>]
Holding(entries) == [file |-> "good", entries |-> entries]

VARIABLES
    data,      \* id -> its record in the owning shard
    journal,   \* the coordinator-journal file
    doing,     \* "idle", "writing", "applying", "recovering"; "down" when open fails
    queue,     \* entries the apply in progress has still to apply
    state,     \* transaction -> "new", "running", "ok", "err", "crashed"
    wants,     \* history: transaction -> the set of its writes
    landed,    \* history: writes that have been applied at least once
    latest,    \* history: id -> the record last put there by its first application
    raced,     \* history: ids written singly while the journal could still undo it
    torn,      \* history: a crash has left part of a journal
    directs, crashes

history == <<wants, landed, latest, raced, torn>>
coordinatorvars == <<data, journal, doing, queue, state, history, directs, crashes>>

-----------------------------------------------------------------------------
(* commit_coordinated *)

\* What the running transaction wants to journal: what is pending, then its own.
load_journal == journal.entries

\* The file is created, truncating what it held; then one write and one fsync.
commit_coordinated(t, writes) ==
    /\ doing = "idle" /\ state[t] = "new"
    /\ state' = [state EXCEPT ![t] = "running"]
    /\ wants' = [wants EXCEPT ![t] = ToSet(writes)]
    /\ queue' = load_journal \o writes
    /\ doing' = "writing"
    /\ UNCHANGED <<data, journal, landed, latest, raced, torn, directs, crashes>>

write_journal ==
    /\ doing = "writing"
    /\ journal' = Holding(queue)
    /\ doing' = "applying"
    /\ UNCHANGED <<data, queue, state, history, directs, crashes>>

\* The outcome of the call, for the transaction that made it.
Conclude(outcome) ==
    state' = [t \in Txns |-> IF state[t] = "running" THEN outcome ELSE state[t]]

\* History: a replay of a write that had landed is not a new write.
Land(w) ==
    /\ landed' = landed \cup {w}
    /\ latest' = IF w \in landed THEN latest ELSE [latest EXCEPT ![w.id] = w.record]

\* An apply without the update: a record that is there already fails the call.
apply_insert_only ==
    /\ doing \in {"applying", "recovering"} /\ queue # <<>>
    /\ LET w == Head(queue)
       IN  IF w.record # Gone /\ data[w.id] # Gone
           THEN /\ doing' = IF doing = "recovering" THEN "down" ELSE "idle"
                /\ queue' = <<>>
                /\ Conclude("err")
                /\ UNCHANGED <<data, landed, latest>>
           ELSE /\ data' = [data EXCEPT ![w.id] = w.record]
                /\ Land(w)
                /\ queue' = Tail(queue)
                /\ UNCHANGED <<doing, state>>
    /\ UNCHANGED <<journal, wants, raced, torn, directs, crashes>>

\* apply: insert, or update when that fails, or delete; a refused record fails both
\* and ends the call with the journal in place.
apply ==
    /\ doing \in {"applying", "recovering"} /\ queue # <<>>
    /\ LET w == Head(queue)
       IN  IF w.record \in Refused
           THEN /\ doing' = IF doing = "recovering" THEN "down" ELSE "idle"
                /\ queue' = <<>>
                /\ Conclude("err")
                /\ UNCHANGED <<data, landed, latest>>
           ELSE /\ data' = [data EXCEPT ![w.id] = w.record]
                /\ Land(w)
                /\ queue' = Tail(queue)
                /\ UNCHANGED <<doing, state>>
    /\ UNCHANGED <<journal, wants, raced, torn, directs, crashes>>

\* A journal removed before it has been applied.
remove_journal_early ==
    /\ doing = "applying" /\ journal # Absent
    /\ journal' = Absent
    /\ IF queue = <<>> THEN doing' = "idle" /\ Conclude("ok") ELSE UNCHANGED <<doing, state>>
    /\ UNCHANGED <<data, queue, history, directs, crashes>>

remove_journal ==
    /\ doing \in {"applying", "recovering"} /\ queue = <<>>
    /\ journal' = Absent
    /\ doing' = "idle" /\ Conclude("ok")
    /\ UNCHANGED <<data, queue, history, directs, crashes>>

-----------------------------------------------------------------------------
(* insert, update and delete of one record, from other threads *)

write_one(id, v) ==
    /\ directs < MaxDirect /\ directs' = directs + 1
    /\ doing \in {"idle", "writing", "applying"}
    /\ data' = [data EXCEPT ![id] = v] /\ latest' = [latest EXCEPT ![id] = v]
    /\ raced' = IF \E w \in landed \cap ToSet(journal.entries) : w.id = id
                THEN raced \cup {id} ELSE raced
    /\ UNCHANGED <<journal, doing, queue, state, wants, landed, torn, crashes>>

-----------------------------------------------------------------------------
(* The process dies, and ShardedDatabase::open calls recover_coordinated *)

\* The file a crash leaves: what was there, or what had been written of it.
Surviving ==
    IF doing = "writing" /\ Torn
    THEN {journal, Absent, BadHeader} \cup {Holding(SubSeq(queue, 1, n)) : n \in 0..Len(queue)}
    ELSE {journal}

recover_coordinated(j) ==
    doing' = IF j.file = "bad" THEN "down"
             ELSE IF j.entries = <<>> THEN "idle" ELSE "recovering"

Crash ==
    /\ crashes < MaxCrashes /\ crashes' = crashes + 1
    /\ \E j \in Surviving :
         /\ journal' = j /\ queue' = j.entries
         /\ recover_coordinated(j)
         /\ torn' = (torn \/ (doing = "writing" /\ j \notin {journal, Holding(queue)}))
    /\ Conclude("crashed")
    /\ UNCHANGED <<data, wants, landed, latest, raced, directs>>

-----------------------------------------------------------------------------
CoordinatorInit ==
    /\ data = [id \in Ids |-> Gone] /\ latest = data
    /\ journal = Absent /\ doing = "idle" /\ queue = <<>>
    /\ state = [t \in Txns |-> "new"]
    /\ wants = [t \in Txns |-> {}] /\ landed = {}
    /\ raced = {} /\ torn = FALSE
    /\ directs = 0 /\ crashes = 0

CoordinatorNext ==
    \/ \E t \in Txns : \E writes \in WriteSets(t) : commit_coordinated(t, writes)
    \/ write_journal \/ apply \/ remove_journal
    \/ \E id \in Ids, v \in Rows \cup {Gone} : write_one(id, v)
    \/ Crash

\* A call that has begun goes on: nothing in it waits for another thread for ever.
Fairness ==
    /\ WF_coordinatorvars(write_journal) /\ WF_coordinatorvars(apply)
    /\ WF_coordinatorvars(remove_journal)

CoordinatorSpec == CoordinatorInit /\ [][CoordinatorNext]_coordinatorvars /\ Fairness

-----------------------------------------------------------------------------
(* Properties *)

\* Types; and what an apply has still to do is in the journal, so a crash cannot
\* forget it.
JournalCoversQueue ==
    /\ data \in [Ids -> Rows \cup {Gone}]
    /\ doing \in {"idle", "writing", "applying", "recovering", "down"}
    /\ doing \in {"applying", "recovering"} => IsSuffix(queue, journal.entries)

\* No call and no replay is under way and no promise is outstanding.
Settled == doing = "idle" /\ journal.entries = <<>>

\* "all-or-nothing once the process comes back" (commit_coordinated): once things have
\* settled every transaction has left all of its writes or none, and all if it was
\* acknowledged.
CoordinatedAtomic ==
    Settled => \A t \in Txns :
        /\ wants[t] \subseteq landed \/ wants[t] \cap landed = {}
        /\ state[t] = "ok" => wants[t] \subseteq landed

\* That holds whatever is refused, overwritten or cut off in between, as long as no
\* crash has left a part of a journal.
AtomicUnlessTorn == ~ torn => CoordinatedAtomic

\* "replaying over however much a crash had already applied converges on exactly the
\* intended state": replays put back nothing that a later write had replaced, except
\* where another thread wrote a record between the coordinated write of it and the
\* removal of the journal.
ReplayKeepsLaterWrites == Settled => \A id \in Ids \ raced : data[id] = latest[id]

\* What a coordinated commit promises in every state.
CoordinatorInvariant == JournalCoversQueue /\ AtomicUnlessTorn /\ ReplayKeepsLaterWrites

\* "a journal whose replay finishes the job": a database that is opened after a crash
\* gets to serve its first query, unless its journal holds a record no shard admits.
RecoveryFinishes ==
    doing = "recovering" /\ (\A w \in ToSet(queue) : w.record \notin Refused)
        ~> doing \in {"idle", "writing", "applying"}

=============================================================================
