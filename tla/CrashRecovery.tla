--------------------------- MODULE CrashRecovery ---------------------------
(***************************************************************************)
(* Write-ahead log, checkpoint, crash and recovery of one collection:      *)
(* HeapStore::log/checkpoint/recover (crates/adabt-storage/src/heap.rs),   *)
(* Wal::commit (wal.rs), the buffer pool's write-back (pager.rs) and the   *)
(* directory cache (directory.rs), on top of VersionedHeap.                *)
(*                                                                         *)
(* `slots' is what the running process reads (buffer pool over the file),  *)
(* `disk' is what the heap file holds.  The pool writes a dirty page back  *)
(* whenever it needs the frame, so a page may reach the disk at any time;  *)
(* growing the file writes it at once.  A crash keeps the file, some       *)
(* prefix of the log that contains everything synced, the catalog and the  *)
(* cache, and loses the rest.  Recovery may crash too.                     *)
(*                                                                         *)
(* An lsn is a position in the log.  Segments are not modelled here: what  *)
(* discard_below removes lies below the catalog's through_lsn, which       *)
(* recovery does not read.                                                 *)
(***************************************************************************)
EXTENDS VersionedHeap

CONSTANTS
    Policies,       \* the durability policies a store may be opened with
    GroupSize,      \* Wal.group_size, 32 in the code
    MaxLog,         \* bound: log entries
    MaxCrashes,     \* bound: crashes
    MaxCheckpoints, \* bound: checkpoints begun
    Rewrites        \* whether the workload updates and deletes records

ASSUME RecoveryAssumption ==
    /\ Policies \subseteq {"Strict", "GroupCommit", "Relaxed"}
    /\ GroupSize \in Nat \ {0}
    /\ MaxLog \in Nat /\ MaxCrashes \in Nat /\ MaxCheckpoints \in Nat
    /\ Rewrites \in BOOLEAN

VARIABLES
    disk,       \* the heap file's pages
    log,        \* the write-ahead log
    synced,     \* entries an fsync has covered
    through,    \* the catalog's through_lsn, None without a catalog
    cache,      \* directory.adabt, None when absent
    mode,       \* "up", "down" or "replay"
    pos,        \* recovery: entries replayed
    ckpt,       \* how far a checkpoint has got
    via,        \* history: where the last recovery got its directory
    lost,       \* history: entries the last crash took
    crashes, checkpoints,
    durability  \* policy.guarantees.durability, fixed when the store is opened

diskVars == <<disk, log, synced, through, cache>>
controlVars == <<mode, pos, ckpt, via, lost, crashes, checkpoints>>
rvars == <<vars, diskVars, controlVars, durability>>

Put(id, v) == [op |-> "put", id |-> id, val |-> v]
Delete(id) == [op |-> "del", id |-> id]
Checkpoint(lsn) == [op |-> "ckpt", flushed |-> lsn]

Running == mode = "up" /\ ckpt = "no"

-----------------------------------------------------------------------------
(* The log *)

\* A commit that leaves the entry in the writer's buffer.
SyncedAfter_unsynced(n) == synced

\* Wal::commit: how much is on stable storage once entry n is committed.
SyncedAfter(n) ==
    CASE durability = "Strict" -> n
      [] durability = "GroupCommit" -> IF n - synced >= GroupSize THEN n ELSE synced
      [] durability = "Relaxed" -> synced

\* HeapStore::log: append and commit.
Log(e) ==
    /\ Len(log) < MaxLog
    /\ log' = Append(log, e)
    /\ synced' = SyncedAfter(Len(log) + 1)

-----------------------------------------------------------------------------
(* Calls on the running store: the log entry first, then the pages *)

Insert(id, v) ==
    /\ Running /\ is_absent(directory[id])
    /\ Log(Put(id, v)) /\ apply_put(id, v)
    /\ UNCHANGED <<disk, through, cache, controlVars>>

Update(id, v) ==
    /\ Running /\ Rewrites
    /\ Log(Put(id, v)) /\ apply_put(id, v)
    /\ UNCHANGED <<disk, through, cache, controlVars>>

\* A delete of an absent record is not logged (and changes only the clock).
Erase(id) ==
    /\ Running /\ Rewrites /\ ~ is_absent(directory[id])
    /\ Log(Delete(id)) /\ apply_delete(id)
    /\ UNCHANGED <<disk, through, cache, controlVars>>

ReclaimVersions ==
    /\ Running /\ reclaim
    /\ UNCHANGED <<diskVars, controlVars>>

\* A dirty page is written back, by eviction or by a checkpoint's flush_all.
WriteBack(p) ==
    /\ mode # "down" /\ p < pageCount
    /\ disk' = [l \in Locations |-> IF l.page = p THEN slots[l] ELSE disk[l]]
    /\ UNCHANGED <<vars, log, synced, through, cache, controlVars>>

-----------------------------------------------------------------------------
(* HeapStore::checkpoint, one action per durable step *)

\* pool.checkpoint: every dirty page is on disk.
Flush ==
    /\ Running /\ checkpoints < MaxCheckpoints
    /\ disk' = slots
    /\ ckpt' = "flushed" /\ checkpoints' = checkpoints + 1
    /\ UNCHANGED <<vars, log, synced, through, cache, mode, pos, via, lost, crashes>>

\* The checkpoint entry, synced whatever the policy.
LogCheckpoint ==
    /\ ckpt = "flushed"
    /\ log' = Append(log, Checkpoint(Len(log)))
    /\ synced' = Len(log) + 1
    /\ ckpt' = "logged"
    /\ UNCHANGED <<vars, disk, through, cache, mode, pos, via, lost, crashes, checkpoints>>

Flushed == log[Len(log)].flushed

\* directory_snapshot, stamped with the checkpoint and the file's length.
directory_snapshot ==
    [lsn |-> Flushed, pages |-> pageCount, offered |-> offered,
     locs |-> [id \in Records |-> newest(directory[id])]]

\* Failing to write the cache discards it and is not an error.
WriteDirectory ==
    /\ ckpt = "logged"
    /\ cache' \in {directory_snapshot, None}
    /\ ckpt' = "cached"
    /\ UNCHANGED <<vars, disk, log, synced, through, mode, pos, via, lost, crashes, checkpoints>>

WriteCatalog ==
    /\ ckpt = "cached"
    /\ through' = Flushed
    /\ ckpt' = "no"
    /\ UNCHANGED <<vars, disk, log, synced, cache, mode, pos, via, lost, crashes, checkpoints>>

-----------------------------------------------------------------------------
(* Crash and HeapStore::recover *)

Crash ==
    /\ mode # "down" /\ crashes < MaxCrashes
    /\ \E n \in synced .. Len(log) :
         /\ log' = SubSeq(log, 1, n)
         /\ lost' = Len(log) - n
         /\ synced' = n
    /\ mode' = "down" /\ ckpt' = "no" /\ crashes' = crashes + 1
    /\ UNCHANGED <<vars, disk, through, cache, pos, via, checkpoints>>

\* Pass 2 looks for the last checkpoint in the entries at or above from_lsn.
FlushedLsn ==
    LET from == IF through = None THEN 1 ELSE through
        at == {n \in 1 .. Len(log) : n >= from /\ log[n].op = "ckpt"}
    IN  IF at = {} THEN 0 ELSE log[CHOOSE n \in at : \A k \in at : k <= n].flushed

\* The location a page scan files a record under: the last one it meets.
Found(id) == {l \in Locations : disk[l] # Dead /\ disk[l].id = id}
scan_pages(id) ==
    IF Found(id) = {} THEN None
    ELSE CHOOSE l \in Found(id) : \A k \in Found(id) :
            k.page < l.page \/ (k.page = l.page /\ k.slot <= l.slot)

\* load_directory trusts a cache of that checkpoint and that file length.
CacheMatches ==
    /\ FlushedLsn # 0
    /\ cache # None
    /\ cache.lsn = FlushedLsn
    /\ cache.pages = pageCount

\* open_shared_at and passes 0 to 2: the directory as of the last checkpoint.
Open ==
    /\ mode = "down"
    /\ LET loc(id) == IF CacheMatches THEN cache.locs[id] ELSE scan_pages(id)
       IN  directory' = [id \in Records |->
             IF loc(id) = None THEN <<>> ELSE <<[txn |-> 0, loc |-> loc(id)]>>]
    /\ offered' = IF CacheMatches THEN cache.offered ELSE 0 .. pageCount - 1
    /\ slots' = disk
    /\ next' = 1
    /\ opening' = [h \in Holders |-> None] /\ open' = [h \in Holders |-> None]
    /\ retained' = 0
    /\ lastWrite' = [id \in Records |-> 0]
    /\ mode' = "replay" /\ pos' = FlushedLsn
    /\ via' = IF CacheMatches THEN "cache" ELSE "scan"
    /\ UNCHANGED <<pageCount, diskVars, ckpt, lost, crashes, checkpoints>>

\* Pass 3 that leaves the deletes out.
Replay_puts ==
    /\ mode = "replay" /\ pos < Len(log)
    /\ LET e == log[pos + 1]
       IN  IF e.op = "put" THEN apply_put(e.id, e.val) ELSE UNCHANGED vars
    /\ pos' = pos + 1
    /\ UNCHANGED <<diskVars, mode, ckpt, via, lost, crashes, checkpoints>>

\* Pass 3, one entry: insert and update replay as an overwrite.
Replay ==
    /\ mode = "replay" /\ pos < Len(log)
    /\ LET e == log[pos + 1]
       IN  \/ e.op = "put" /\ apply_put(e.id, e.val)
           \/ e.op = "del" /\ apply_delete(e.id)
           \/ e.op = "ckpt" /\ UNCHANGED vars
    /\ pos' = pos + 1
    /\ UNCHANGED <<diskVars, mode, ckpt, via, lost, crashes, checkpoints>>

\* No snapshot spans a restart: the chains are collapsed.
Recovered ==
    /\ mode = "replay" /\ pos = Len(log)
    /\ reclaim
    /\ mode' = "up" /\ pos' = 0
    /\ UNCHANGED <<diskVars, ckpt, via, lost, crashes, checkpoints>>

-----------------------------------------------------------------------------
RInit ==
    /\ Init
    /\ disk = slots
    /\ log = <<>> /\ synced = 0
    /\ through = None /\ cache = None
    /\ mode = "up" /\ pos = 0 /\ ckpt = "no" /\ via = "none" /\ lost = 0
    /\ crashes = 0 /\ checkpoints = 0
    /\ durability \in Policies

Calls ==
    \/ \E id \in Records, v \in Values : Insert(id, v) \/ Update(id, v)
    \/ \E id \in Records : Erase(id)
    \/ ReclaimVersions

RNext ==
    /\ \/ Calls
       \/ \E p \in PageIds : WriteBack(p)
       \/ Flush \/ LogCheckpoint \/ WriteDirectory \/ WriteCatalog
       \/ Crash \/ Open \/ Replay \/ Recovered
    /\ UNCHANGED durability

RSpec == RInit /\ [][RNext]_rvars

-----------------------------------------------------------------------------
(* Properties *)

\* Log positions never pass the end of the log, on disk or in memory.
RTypeOK ==
    /\ TypeOK
    /\ disk \in [Locations -> Payloads \cup {Dead}]
    /\ synced \in 0 .. Len(log)
    /\ through \in 0 .. Len(log) \cup {None}
    /\ mode \in {"up", "down", "replay"}
    /\ pos \in 0 .. Len(log)
    /\ via \in {"none", "cache", "scan"}
    /\ ckpt \in {"no", "flushed", "logged", "cached"}

\* What the log says the collection holds.
Effect(c, e) ==
    CASE e.op = "put" -> [c EXCEPT ![e.id] = e.val]
      [] e.op = "del" -> [c EXCEPT ![e.id] = None]
      [] OTHER -> c
LoggedContents ==
    LET upTo[n \in 0 .. Len(log)] ==
            IF n = 0 THEN [id \in Records |-> None] ELSE Effect(upTo[n - 1], log[n])
    IN  upTo[Len(log)]

\* What a get of a record answers; a dead slot is an error, never a value.
get(id) ==
    LET l == newest(directory[id]) IN
    IF l = None THEN None
    ELSE IF slots[l] = Dead THEN Dead ELSE slots[l].val

MatchesLog == [id \in Records |-> get(id)] = LoggedContents

NoCheckpoint == \A n \in DOMAIN log : log[n].op # "ckpt"

AppendOnly ==
    \A m, n \in DOMAIN log :
        log[m].op # "del" /\ (log[m].op = "put" /\ log[n].op = "put" /\ m # n
                                => log[m].id # log[n].id)

\* A running store holds exactly what its log says, before a crash and after any
\* number of them, whichever pages had reached the disk and wherever recovery itself
\* was cut off: while there is no checkpoint, whatever was written; and with
\* checkpoints, by directory cache or by page scan and wherever a checkpoint stopped,
\* as long as no record was written twice.
ContentsMatchLog ==
    mode = "up" /\ durability = "Strict" /\ (NoCheckpoint \/ AppendOnly) => MatchesLog

\* "The scan is the definition and the cache is an optimization of it" (heap.rs,
\* recover): a store recovered by scanning the pages holds what its log says.
ScanIsTheDefinition == mode = "up" /\ durability = "Strict" /\ via = "scan" => MatchesLog

\* "Every change is described here before it is allowed to reach a heap page" and
\* the heap file "is a materialisation of it that may lag behind" (wal.rs): under
\* Strict the log a crash leaves accounts for everything it leaves in the heap file.
HeapLagsLog ==
    mode = "down" /\ durability = "Strict" =>
        \A l \in Locations : disk[l] # Dead =>
            \E n \in 1 .. Len(log) : log[n] = Put(disk[l].id, disk[l].val)

\* Policy: under Strict a crash takes no committed entry, under GroupCommit less
\* than one group ("a crash loses at most one group", wal.rs commit), counting from
\* the sync of the last group, checkpoint or restart.
LossBounded ==
    /\ durability = "Strict" => lost = 0
    /\ durability = "GroupCommit" => lost < GroupSize

\* What a crash may leave of log and heap, in one invariant.
CrashInvariant == RTypeOK /\ HeapLagsLog /\ LossBounded
=============================================================================
