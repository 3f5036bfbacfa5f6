---------------------------- MODULE VersionedHeap ----------------------------
(***************************************************************************)
(* Multi-version records over slotted pages: the version tracker of        *)
(* crates/adabt-storage/src/version.rs and the version chains, placement   *)
(* and reclamation of crates/adabt-storage/src/heap.rs, for one store.     *)
(*                                                                         *)
(* A store is used by one thread at a time (&mut self, or the shard's      *)
(* mutex), so each of its operations is one action.  The tracker, though,  *)
(* is shared by every shard of a sharded database: other shards take write *)
(* stamps and open and close snapshots while this store is at work.  A     *)
(* snapshot is opened in two steps, because open_snapshot reads the clock  *)
(* before it takes the lock of the list of open snapshots.                 *)
(*                                                                         *)
(* Abstracted: every payload costs one slot of a page, so "a page with at  *)
(* least `need' bytes free" is "a page with a dead slot"; which such page  *)
(* the free-space map offers first is left open.  Compaction moves bytes   *)
(* inside a page and keeps slot numbers, so it is not visible here.        *)
(***************************************************************************)
EXTENDS Naturals, Sequences, FiniteSets

CONSTANTS
    Records,         \* record ids of the store
    Values,          \* what a record can hold
    Readers,         \* holders of snapshots of this store
    Foreign,         \* holders of snapshots of other shards, same tracker
    RetentionLimit,  \* heap.rs RETENTION_LIMIT, 4096 in the code
    SlotsPerPage,    \* payloads that fit a page
    MaxPages,        \* bound: pages the heap file may have
    MaxStamp,        \* bound: write stamps handed out
    None,            \* Option::None: no location, no snapshot
    Dead             \* a slot that holds no payload

ASSUME ConstantsAssumption ==
    /\ IsFiniteSet(Records)
    /\ Readers \cap Foreign = {}
    /\ RetentionLimit \in Nat \ {0}
    /\ SlotsPerPage \in Nat \ {0}
    /\ MaxPages \in Nat \ {0}
    /\ MaxStamp \in Nat

Holders == Readers \cup Foreign
PageIds == 0 .. MaxPages - 1
SlotIds == 0 .. SlotsPerPage - 1
Locations == [page : PageIds, slot : SlotIds]
Payloads == [id : Records, val : Values]
Versions == [txn : Nat, loc : Locations \cup {None}]

\* A marker is none of the values it stands beside.
ASSUME MarkersAssumption ==
    /\ None \notin Locations /\ None \notin Nat /\ None \notin Payloads
    /\ None \notin Values /\ None \notin [Records -> Values \cup {None}]
    /\ Dead \notin Payloads

VARIABLES
    next,       \* VersionTracker.next
    opening,    \* the clock value a holder has read and not yet registered
    open,       \* the registered snapshot of a holder: VersionTracker.open
    directory,  \* record id -> version chain, oldest first; <<>> is no entry
    slots,      \* the slotted pages: location -> payload or Dead
    pageCount,  \* pages in the heap file
    offered,    \* pages the free-space map knows
    retained,   \* HeapStore.retained
    lastWrite   \* history: stamp of the last version pushed for a record

vars == <<next, opening, open, directory, slots, pageCount, offered,
          retained, lastWrite>>
trackerVars == <<opening, open>>
heapVars == <<directory, slots, pageCount, offered, retained, lastWrite>>

-----------------------------------------------------------------------------
(* Version chains *)

newest(chain) == IF chain = <<>> THEN None ELSE chain[Len(chain)].loc

newest_stamp(chain) == IF chain = <<>> THEN None ELSE chain[Len(chain)].txn

is_absent(chain) == newest(chain) = None

\* Positions of the versions stamped at or before `at`.
UpTo(chain, at) == {i \in 1 .. Len(chain) : chain[i].txn <= at}

\* rposition(|(txn, _)| txn <= at): the last such position, 0 for none.
LastUpTo(chain, at) ==
    IF UpTo(chain, at) = {} THEN 0
    ELSE CHOOSE i \in UpTo(chain, at) : \A j \in UpTo(chain, at) : j <= i

\* As visible_at, from the oldest end of the chain.
visible_at_oldest(chain, at) ==
    IF UpTo(chain, at) = {} THEN None ELSE chain[1].loc

visible_at(chain, at) ==
    LET i == LastUpTo(chain, at) IN IF i = 0 THEN None ELSE chain[i].loc

\* What reclaim_to leaves of a chain.
reclaim_to(chain, horizon) ==
    LET k == LastUpTo(chain, horizon)
    IN  IF k = 0 THEN chain ELSE SubSeq(chain, k, Len(chain))

\* The versions reclaim_to drains that occupy a slot.
Drained(chain, horizon) ==
    {i \in 1 .. Len(chain) :
        i < LastUpTo(chain, horizon) /\ chain[i].loc # None}

-----------------------------------------------------------------------------
(* The version tracker *)

\* current: everything committed so far (saturating_sub).
CurrentAt(n) == IF n = 0 THEN 0 ELSE n - 1

Registered == {h \in Holders : open[h] # None}

\* A horizon that forgets the open snapshots.
reclaim_horizon_all(n) == CurrentAt(n)

\* The oldest registered snapshot, or everything committed.
reclaim_horizon(n) ==
    IF Registered = {} THEN CurrentAt(n)
    ELSE open[CHOOSE h \in Registered :
                 \A g \in Registered : open[h] <= open[g]]

\* A store that other calls may enter in the middle of opening a snapshot.
StoreFree_unlocked == TRUE

\* The store is free unless its own thread is between the two steps of opening
\* a snapshot: the borrow of the store, or the shard's mutex, spans both.
StoreFree == \A r \in Readers : opening[r] = None

-----------------------------------------------------------------------------
(* Placement *)

DeadSlots(p) == {s \in SlotIds : slots[[page |-> p, slot |-> s]] = Dead}

\* FreeSpaceMap::find: the known pages that have room.
WithRoom == {p \in offered : DeadSlots(p) # {}}

\* Where `place' may put a payload: a page with room, else a fresh page.
place(p) == IF WithRoom # {} THEN p \in WithRoom
                             ELSE p = pageCount /\ pageCount < MaxPages

\* A placement that ignores which slots are live.
FirstDead_any(p) == 0

\* Page::insert prefers the first dead slot.
FirstDead(p) == CHOOSE s \in DeadSlots(p) : \A t \in DeadSlots(p) : s <= t

-----------------------------------------------------------------------------
(* Reclamation.  `Reclaim' is the body of HeapStore::reclaim, run on the     *)
(* directory dir, slots sl, free-space map off and counter ret; pages is the *)
(* length of the heap file and n the tracker's clock.                        *)

Freed(dir, horizon) ==
    UNION {{<<id, i>> : i \in Drained(dir[id], horizon)} : id \in Records}

FreedLocations(dir, horizon) ==
    {dir[v[1]][v[2]].loc : v \in Freed(dir, horizon)}

\* Prune every absent entry, whatever its chain still holds.
Pruned_absent(chain) == IF is_absent(chain) THEN <<>> ELSE chain

\* An entry whose chain is one tombstone is removed.
Pruned(chain) == IF Len(chain) = 1 /\ is_absent(chain) THEN <<>> ELSE chain

\* A counter cleared by every reclamation, whatever snapshots still pin.
SaturatingSub_reset(a, b) == 0

SaturatingSub(a, b) == IF a > b THEN a - b ELSE 0

\* A freed location outside the file makes the pool fail; the chains are cut by
\* then, the slots visited before it are dead, and nothing else is updated.
Reclaim(dir, sl, off, ret, pages, n) ==
    LET horizon == reclaim_horizon(n)
        freed == FreedLocations(dir, horizon)
        fails == \E l \in freed : l.page >= pages
    IN  /\ directory' =
             [id \in Records |-> Pruned(reclaim_to(dir[id], horizon))]
        /\ \E done \in IF fails THEN SUBSET {l \in freed : l.page < pages}
                                ELSE {freed} :
             slots' = [l \in Locations |-> IF l \in done THEN Dead ELSE sl[l]]
        /\ offered' = IF fails THEN off ELSE off \cup {l.page : l \in freed}
        /\ retained' = IF fails THEN ret
                       ELSE SaturatingSub(ret, Cardinality(Freed(dir, horizon)))

maybe_reclaim(dir, sl, off, ret, pages, n) ==
    IF ret >= RetentionLimit
    THEN Reclaim(dir, sl, off, ret, pages, n)
    ELSE /\ directory' = dir
         /\ slots' = sl
         /\ offered' = off
         /\ retained' = ret

-----------------------------------------------------------------------------
(* Operations of the store *)

begin_write == next < MaxStamp /\ next' = next + 1

apply_put(id, v) ==
    /\ begin_write
    /\ \E p \in PageIds :
         /\ place(p)
         /\ LET loc == [page |-> p, slot |-> FirstDead(p)]
                pages == IF p = pageCount THEN p + 1 ELSE pageCount
            IN  /\ pageCount' = pages
                /\ maybe_reclaim(
                     [directory EXCEPT ![id] = Append(@, [txn |-> next, loc |-> loc])],
                     [slots EXCEPT ![loc] = [id |-> id, val |-> v]],
                     offered \cup {p},
                     IF directory[id] = <<>> THEN retained ELSE retained + 1,
                     pages, next + 1)
    /\ lastWrite' = [lastWrite EXCEPT ![id] = next]
    /\ UNCHANGED trackerVars

insert(id, v) == StoreFree /\ is_absent(directory[id]) /\ apply_put(id, v)

\* update is an upsert: it writes whether or not the record exists.
update(id, v) == StoreFree /\ apply_put(id, v)

\* A delete takes its stamp before it looks for the record.
apply_delete(id) ==
    /\ begin_write
    /\ IF is_absent(directory[id])
       THEN UNCHANGED heapVars
       ELSE /\ maybe_reclaim(
                 [directory EXCEPT ![id] = Append(@, [txn |-> next, loc |-> None])],
                 slots, offered, retained + 1, pageCount, next + 1)
            /\ lastWrite' = [lastWrite EXCEPT ![id] = next]
            /\ UNCHANGED pageCount
    /\ UNCHANGED trackerVars

delete(id) == StoreFree /\ apply_delete(id)

reclaim ==
    /\ StoreFree
    /\ Reclaim(directory, slots, offered, retained, pageCount, next)
    /\ UNCHANGED <<next, opening, open, pageCount, lastWrite>>

\* open_snapshot, first half: read the clock.
ReadClock(h) ==
    /\ opening[h] = None /\ open[h] = None
    /\ h \in Readers => StoreFree
    /\ opening' = [opening EXCEPT ![h] = CurrentAt(next)]
    /\ UNCHANGED <<next, open>>
    /\ UNCHANGED heapVars

\* open_snapshot, second half: push it under the lock.
Register(h) ==
    /\ opening[h] # None
    /\ open' = [open EXCEPT ![h] = opening[h]]
    /\ opening' = [opening EXCEPT ![h] = None]
    /\ UNCHANGED next
    /\ UNCHANGED heapVars

\* Dropping a Snapshot needs no access to the store.
close_snapshot(h) ==
    /\ open[h] # None
    /\ open' = [open EXCEPT ![h] = None]
    /\ UNCHANGED <<next, opening>>
    /\ UNCHANGED heapVars

\* Another shard stamps a write of its own with the shared clock.
ForeignWrite ==
    /\ Foreign # {}
    /\ begin_write
    /\ UNCHANGED trackerVars
    /\ UNCHANGED heapVars

Init ==
    /\ next = 1
    /\ opening = [h \in Holders |-> None]
    /\ open = [h \in Holders |-> None]
    /\ directory = [id \in Records |-> <<>>]
    /\ slots = [l \in Locations |-> Dead]
    /\ pageCount = 0
    /\ offered = {}
    /\ retained = 0
    /\ lastWrite = [id \in Records |-> 0]

Write ==
    \E id \in Records :
        \/ \E v \in Values : insert(id, v) \/ update(id, v)
        \/ delete(id)

Snapshots == \E h \in Holders : ReadClock(h) \/ Register(h) \/ close_snapshot(h)

Next == Write \/ reclaim \/ Snapshots \/ ForeignWrite

Spec == Init /\ [][Next]_vars
-----------------------------------------------------------------------------
(* Properties *)

\* The snapshot a reader of this store holds, from the moment it read the clock.
Held(op, rg, r) == IF op[r] # None THEN op[r] ELSE rg[r]

\* get_at / scan_at: what a snapshot at `at` reads for a record.
get_at(dir, sl, id, at) ==
    LET l == visible_at(dir[id], at) IN IF l = None THEN None ELSE sl[l]

\* Chains, slots, offered pages and the tracker have their types: no chain names a
\* location outside the file's bounds and the retained counter never goes negative.
TypeOK ==
    /\ next \in Nat \ {0}
    /\ opening \in [Holders -> Nat \cup {None}]
    /\ open \in [Holders -> Nat \cup {None}]
    /\ directory \in [Records -> Seq(Versions)]
    /\ slots \in [Locations -> Payloads \cup {Dead}]
    /\ pageCount \in 0 .. MaxPages
    /\ offered \subseteq PageIds
    /\ retained \in Nat
    /\ lastWrite \in [Records -> Nat]

NamedSlotsLive(dir, sl, pages) ==
    \A id \in Records : \A i \in 1 .. Len(dir[id]) :
        LET l == dir[id][i].loc IN
        l # None => l.page < pages /\ sl[l] # Dead /\ sl[l].id = id

SlotsNamedOnce(dir) ==
    \A a, b \in Records : \A i \in 1 .. Len(dir[a]) : \A j \in 1 .. Len(dir[b]) :
        dir[a][i].loc # None /\ dir[a][i].loc = dir[b][j].loc => a = b /\ i = j

LiveSlotsNamed(dir, sl) ==
    \A l \in Locations : sl[l] # Dead =>
        \E id \in Records : \E i \in 1 .. Len(dir[id]) : dir[id][i].loc = l

\* The slots that hold a payload are exactly the ones the version chains name,
\* each named once, inside the file and holding the record it is filed under:
\* reclamation frees no slot a chain still names, reuse never gives a slot to
\* two versions, and no freed version leaves its slot occupied.
SlotsOwned ==
    /\ NamedSlotsLive(directory, slots, pageCount)
    /\ SlotsNamedOnce(directory)
    /\ LiveSlotsNamed(directory, slots)

\* What a reader sees of a record nobody has written since it took its snapshot
\* is the record as it stands (get_at agrees with get), so together with
\* SnapshotsAreStable a snapshot reads the state at the moment it was taken.
SnapshotSeesCommitted ==
    \A r \in Readers : \A id \in Records :
        LET at == Held(opening, open, r) IN
        at # None /\ lastWrite[id] <= at
            => visible_at(directory[id], at) = newest(directory[id])

\* First-committer-wins needs the stamp of the last write of every record written
\* after the oldest snapshot: latest_write_ts must still report it, although a
\* reclaimed tombstone takes the whole directory entry with it.
ConflictStampsSurvive ==
    \A r \in Readers : \A id \in Records :
        LET at == Held(opening, open, r) IN
        at # None /\ lastWrite[id] > at
            => newest_stamp(directory[id]) = lastWrite[id]

\* An open snapshot never has the ground moved under it: whatever the store, the
\* other readers or the other shards do, it reads the same value of every record
\* until it is dropped.
SnapshotsAreStable ==
    [][\A r \in Readers :
         LET at == Held(opening, open, r) IN
         at # None /\ Held(opening', open', r) = at =>
            \A id \in Records :
               get_at(directory', slots', id, at) = get_at(directory, slots, id, at)
      ]_vars

\* The value behind a chain's location, None where it names none.
ValueAt(l) == IF l = None THEN None ELSE slots[l].val

\* What each reader would read: its snapshot, as a map.
SnapOf(r) ==
    LET at == Held(opening, open, r) IN
    IF at = None THEN None
    ELSE [id \in Records |-> ValueAt(visible_at(directory[id], at))]

\* What latest_write_ts makes each reader believe was written since.
WrittenSince(r) ==
    LET at == Held(opening, open, r) IN
    IF at = None THEN {}
    ELSE {id \in Records : directory[id] # <<>> /\ newest_stamp(directory[id]) > at}

Store == INSTANCE SnapshotStore WITH
    data <- [id \in Records |-> ValueAt(newest(directory[id]))],
    snap <- [r \in Readers |-> SnapOf(r)],
    written <- [r \in Readers |-> WrittenSince(r)]

\* Chains, tombstones, slot reuse, reclamation and the two-step opening of a
\* snapshot implement the abstract snapshot store: each operation of the heap is
\* one step of it, or none.
ImplementsSnapshotStore == Store!StoreSpec

\* The counter that triggers reclamation ("Superseded versions currently retained",
\* HeapStore.retained) never falls below the number of versions behind the newest
\* ones, so reclamation is never left waiting for writes that have happened.  It may
\* lie above it: reclaim does not subtract the tombstones it drops.
RetainedCoversSuperseded ==
    retained >= Cardinality(
        UNION {{<<id, i>> : i \in 1 .. Len(directory[id]) - 1} : id \in Records})
=============================================================================
