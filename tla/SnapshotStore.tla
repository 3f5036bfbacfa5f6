---------------------------- MODULE SnapshotStore ----------------------------
(***************************************************************************)
(* What the version tracker and the version chains promise together: a     *)
(* store whose readers hold snapshots that never change and can ask which  *)
(* records have been written since.  VersionedHeap implements it;          *)
(* Transactions is built on it.                                            *)
(***************************************************************************)
EXTENDS FiniteSets

CONSTANTS
    Records, Values, Readers,
    None      \* no record, no snapshot

VARIABLES
    data,     \* record -> value, None when there is no such record
    snap,     \* reader -> the data as of its snapshot, None without one
    written   \* reader -> records written since its snapshot was taken

storeVars == <<data, snap, written>>

Contents == [Records -> Values \cup {None}]

\* A record written while snapshots are open counts as written for each of them.
Mark(id) == [r \in Readers |-> IF snap[r] = None THEN {} ELSE written[r] \cup {id}]

\* v is a value, or None for a delete.
Write(id, v) ==
    /\ data' = [data EXCEPT ![id] = v]
    /\ written' = Mark(id)
    /\ UNCHANGED snap

Take(r) ==
    /\ snap[r] = None
    /\ snap' = [snap EXCEPT ![r] = data]
    /\ written' = [written EXCEPT ![r] = {}]
    /\ UNCHANGED data

Drop(r) ==
    /\ snap[r] # None
    /\ snap' = [snap EXCEPT ![r] = None]
    /\ written' = [written EXCEPT ![r] = {}]
    /\ UNCHANGED data

StoreInit ==
    /\ data = [id \in Records |-> None]
    /\ snap = [r \in Readers |-> None]
    /\ written = [r \in Readers |-> {}]

StoreNext ==
    \/ \E id \in Records, v \in Values \cup {None} : Write(id, v)
    \/ \E r \in Readers : Take(r) \/ Drop(r)

StoreSpec == StoreInit /\ [][StoreNext]_storeVars
=============================================================================
