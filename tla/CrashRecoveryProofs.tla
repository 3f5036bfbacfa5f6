------------------------ MODULE CrashRecoveryProofs ------------------------
(***************************************************************************)
(* Theorems of CrashRecovery, for any records, values, group and file size *)
(* and any number of crashes and checkpoints: what a crash may leave of    *)
(* the log and of the heap file, and that what recovery puts together from *)
(* the two is what the log says.                                           *)
(***************************************************************************)
EXTENDS CrashRecovery, VersionedHeapProofs

-----------------------------------------------------------------------------
(* The inductive invariant *)

\* The heap as far as recovery can answer for it: the slots a chain names may, after a
\* recovery from an older directory, be another record's.
Shaped ==
    /\ next \in Nat \ {0}
    /\ opening = [h \in Holders |-> None] /\ open = [h \in Holders |-> None]
    /\ HeapTyped(directory, slots, offered, retained, pageCount, lastWrite)
    /\ InFile(slots, pageCount)
    /\ disk \in [Locations -> Payloads \cup {Dead}] /\ InFile(disk, pageCount)

Entries ==
    {Put(id, v) : id \in Records, v \in Values} \cup {Delete(id) : id \in Records}
    \cup {Checkpoint(n) : n \in Nat}

Directories ==
    {c \in [lsn : Nat, pages : Nat, offered : SUBSET Nat, locs : [Records -> Locations \cup {None}]] :
        c.offered \subseteq 0 .. c.pages - 1}

\* A checkpoint's entry covers only what lies before it, and a catalog, a replay and the
\* length a crash leaves never pass what is stable.
Logging ==
    /\ log \in Seq(Entries) /\ durability \in Policies
    /\ \A n \in 1 .. Len(log) : log[n].op = "ckpt" => log[n].flushed \in 0 .. n - 1
    /\ synced \in 0 .. Len(log)
    /\ through \in 0 .. synced \cup {None}
    /\ pos \in 0 .. synced
    /\ cache \in Directories \cup {None}

\* Whatever the log is cut to is stable, and a checkpoint in progress ends the log.
Staged ==
    /\ mode \in {"up", "down", "replay"} /\ via \in {"none", "cache", "scan"}
    /\ ckpt \in {"no", "flushed", "logged", "cached"}
    /\ ckpt # "no" => mode = "up"
    /\ mode # "up" => synced = Len(log)
    /\ ckpt \in {"logged", "cached"} =>
          Len(log) # 0 /\ log[Len(log)].op = "ckpt" /\ synced = Len(log)

\* What a crash would lose now, and what the last one did.
Exposed ==
    /\ durability = "Strict" => synced = Len(log) /\ lost = 0
    /\ durability = "GroupCommit" => Len(log) - synced < GroupSize /\ lost < GroupSize

Logged(p) == \E n \in 1 .. Len(log) : log[n] = Put(p.id, p.val)

\* Under Strict nothing is in a page, or in the file, that is not in the log.
Described ==
    durability = "Strict" => \A l \in Locations :
        /\ slots[l] # Dead => Logged(slots[l])
        /\ disk[l] # Dead => Logged(disk[l])

RInv == Shaped /\ Logging /\ Staged /\ Exposed /\ Described

-----------------------------------------------------------------------------
(* What the heap's operations do to its shape *)

\* The store's part of the state has the shape the lemmas about the heap ask for.
LEMMA ShapedHeap ==
    ASSUME Shaped
    PROVE  HeapShape /\ next \in Nat \ {0} /\ open \in [Holders -> Nat \cup {None}]
BY DEF Shaped, HeapShape

\* What lies in the file still does once the file has grown.
LEMMA DiskInFile ==
    ASSUME Shaped, UNCHANGED disk, HeapShape', next' \in Nat \ {0}, UNCHANGED <<opening, open>>,
           pageCount \in Nat, pageCount' \in Nat, pageCount <= pageCount'
    PROVE  Shaped'
<1>1. \A l \in Locations : l.page \in Nat
  BY ConstantsAssumption DEF ConstantsAssumption, Locations, PageIds
<1>2. InFile(disk, pageCount')
  BY <1>1 DEF Shaped, InFile
<1> QED
  BY <1>2 DEF Shaped, HeapShape

\* apply_put, whether a call makes it or a replay.
LEMMA PutShape ==
    ASSUME Shaped, NEW id \in Records, NEW v \in Values, apply_put(id, v), UNCHANGED disk
    PROVE  Shaped' /\ Adds(id, v)
<1>1. /\ HeapShape' /\ Adds(id, v)
      /\ pageCount \in Nat /\ pageCount' \in Nat /\ pageCount <= pageCount'
  BY ShapedHeap, PutKeepsShape
<1>2. next' \in Nat \ {0} /\ UNCHANGED <<opening, open>>
  BY ShapedHeap DEF apply_put, begin_write, trackerVars
<1> QED
  BY <1>1, <1>2, DiskInFile

\* A call that leaves the file as long as it was keeps what lies in it inside.
LEMMA SameFile ==
    ASSUME Shaped, UNCHANGED <<disk, pageCount, opening, open>>, next' \in Nat \ {0}, HeapShape'
    PROVE  Shaped'
BY DEF Shaped, HeapShape, InFile

\* apply_delete, whether a call makes it or a replay.
LEMMA DeleteShape ==
    ASSUME Shaped, NEW id \in Records, apply_delete(id), UNCHANGED disk
    PROVE  Shaped' /\ AddsNothing
<1>1. HeapShape' /\ AddsNothing /\ UNCHANGED pageCount
  BY ShapedHeap, DeleteKeepsShape
<1>2. next' \in Nat \ {0} /\ UNCHANGED <<opening, open>>
  BY ShapedHeap DEF apply_delete, begin_write, trackerVars
<1> QED
  BY <1>1, <1>2, SameFile

\* reclaim, in a call or at the end of a recovery.
LEMMA ReclaimedShape ==
    ASSUME Shaped, reclaim, UNCHANGED disk
    PROVE  Shaped' /\ AddsNothing
<1>1. HeapShape' /\ AddsNothing /\ UNCHANGED pageCount
  BY ShapedHeap, ReclaimKeepsShape
<1>2. next' \in Nat \ {0} /\ UNCHANGED <<opening, open>>
  BY ShapedHeap DEF reclaim
<1> QED
  BY <1>1, <1>2, SameFile

-----------------------------------------------------------------------------
(* The log *)

\* An entry is a put, a delete or a checkpoint.
LEMMA EntryKinds ==
    ASSUME NEW e \in Entries
    PROVE  /\ e.op = "put" => e.id \in Records /\ e.val \in Values /\ e = Put(e.id, e.val)
           /\ e.op = "del" => e.id \in Records
BY DEF Entries, Put, Delete, Checkpoint

\* An entry more leaves the others where they were.
LEMMA LogGrows ==
    ASSUME log \in Seq(Entries), NEW e \in Entries, log' = Append(log, e)
    PROVE  /\ log' \in Seq(Entries) /\ Len(log) \in Nat /\ Len(log') = Len(log) + 1
           /\ \A n \in 1 .. Len(log) : log'[n] = log[n]
           /\ log'[Len(log) + 1] = e
BY AppendProperties, LenProperties

\* A prefix of the log is a log.
LEMMA LogCut ==
    ASSUME log \in Seq(Entries), NEW k \in 0 .. Len(log), log' = SubSeq(log, 1, k)
    PROVE  /\ log' \in Seq(Entries) /\ Len(log') = k
           /\ \A n \in 1 .. k : log'[n] = log[n]
<1>1. Len(log) \in Nat
  BY LenProperties
<1>2. \A i \in 1 .. k : log[i] \in Entries
  BY <1>1, ElementOfSeq
<1> QED
  BY <1>1, <1>2, SubSeqProperties

\* What was in the log is in a log that has grown.
LEMMA LoggedStays ==
    ASSUME Len(log) \in Nat, Len(log') \in Nat, Len(log) <= Len(log'),
           \A n \in 1 .. Len(log) : log'[n] = log[n]
    PROVE  \A p : Logged(p) => \E n \in 1 .. Len(log') : log'[n] = Put(p.id, p.val)
<1> SUFFICES ASSUME NEW p, Logged(p) PROVE \E n \in 1 .. Len(log') : log'[n] = Put(p.id, p.val)
  OBVIOUS
<1>1. PICK n \in 1 .. Len(log) : log[n] = Put(p.id, p.val)
  BY DEF Logged
<1>2. n \in 1 .. Len(log') /\ log'[n] = log[n]
  BY <1>1
<1> QED
  BY <1>1, <1>2

\* Wal::commit leaves nothing behind under Strict, and under GroupCommit less than a group.
LEMMA Committing ==
    ASSUME Logging, Exposed, NEW e, Log(e), UNCHANGED durability
    PROVE  /\ synced' \in Nat /\ synced <= synced' /\ synced' <= Len(log) + 1
           /\ durability = "Strict" => synced' = Len(log) + 1
           /\ durability = "GroupCommit" => Len(log) + 1 - synced' < GroupSize
<1>1. /\ synced \in Nat /\ Len(log) \in Nat /\ synced <= Len(log)
      /\ durability \in {"Strict", "GroupCommit", "Relaxed"}
      /\ GroupSize \in Nat \ {0}
  BY LenProperties, RecoveryAssumption DEF Logging, RecoveryAssumption
<1>2. synced' = SyncedAfter(Len(log) + 1)
  BY DEF Log
<1>3. CASE durability = "Strict"
  BY <1>1, <1>2, <1>3 DEF SyncedAfter
<1>4. CASE durability = "GroupCommit"
  <2>1. PICK n : n = Len(log) + 1
    OBVIOUS
  <2>2. n \in Nat /\ synced' = SyncedAfter(n)
    BY <1>1, <1>2, <2>1
  <2>3. CASE n - synced >= GroupSize
    <3>1. synced' = n
      BY <1>4, <2>2, <2>3 DEF SyncedAfter
    <3> QED
      BY <1>1, <1>4, <2>1, <3>1
  <2>4. CASE ~ (n - synced >= GroupSize)
    <3>1. synced' = synced
      BY <1>4, <2>2, <2>4 DEF SyncedAfter
    <3> QED
      BY <1>1, <1>4, <2>1, <2>4, <3>1
  <2> QED
    BY <2>3, <2>4
<1>5. CASE durability = "Relaxed"
  BY <1>1, <1>2, <1>5 DEF SyncedAfter
<1> QED
  BY <1>1, <1>3, <1>4, <1>5

-----------------------------------------------------------------------------
(* Calls and checkpoints *)

\* A call logs what it does before it does it.
LEMMA CallStep ==
    ASSUME RInv, NEW e \in Entries, e.op # "ckpt", Running, Log(e), Shaped',
           \A l \in Locations : slots'[l] # Dead =>
              slots'[l] = slots[l] \/ e = Put(slots'[l].id, slots'[l].val),
           UNCHANGED <<disk, through, cache, mode, pos, ckpt, via, lost, durability>>
    PROVE  RInv'
<1>1. Shaped /\ Logging /\ Staged /\ Exposed /\ Described
  BY DEF RInv
<1>2. /\ log' \in Seq(Entries) /\ Len(log) \in Nat /\ Len(log') = Len(log) + 1
      /\ \A n \in 1 .. Len(log) : log'[n] = log[n]
      /\ log'[Len(log) + 1] = e
  BY <1>1, LogGrows DEF Logging, Log
<1>3. /\ synced' \in Nat /\ synced <= synced' /\ synced' <= Len(log) + 1
      /\ durability = "Strict" => synced' = Len(log) + 1
      /\ durability = "GroupCommit" => Len(log) + 1 - synced' < GroupSize
  BY <1>1, Committing
<1>4. synced \in Nat
  BY <1>1, <1>2 DEF Logging
<1>5. Logging'
  <2>1. ASSUME NEW n \in 1 .. Len(log'), log'[n].op = "ckpt"
        PROVE  log'[n].flushed \in 0 .. n - 1
    <3>1. n # Len(log) + 1
      BY <1>2, <2>1
    <3>2. n \in 1 .. Len(log)
      BY <1>2, <3>1
    <3> QED
      BY <1>1, <1>2, <2>1, <3>2 DEF Logging
  <2>2. synced' \in 0 .. Len(log')
    BY <1>2, <1>3
  <2>3. 0 .. synced \subseteq 0 .. synced'
    BY <1>3, <1>4
  <2>4. through' \in 0 .. synced' \cup {None} /\ pos' \in 0 .. synced'
    BY <1>1, <2>3 DEF Logging
  <2> QED
    BY <1>1, <1>2, <2>1, <2>2, <2>4 DEF Logging
<1>6. Staged'
  BY <1>1 DEF Staged, Running
<1>7. Exposed'
  BY <1>1, <1>2, <1>3 DEF Exposed
<1>8. Described'
  <2> SUFFICES ASSUME durability = "Strict", NEW l \in Locations
               PROVE  /\ slots'[l] # Dead => Logged(slots[l])'
                      /\ disk'[l] # Dead => Logged(disk[l])'
    BY DEF Described
  <2>1. \A p : Logged(p) => \E n \in 1 .. Len(log') : log'[n] = Put(p.id, p.val)
    BY <1>2, LoggedStays
  <2>2. /\ slots[l] # Dead => Logged(slots[l])
        /\ disk[l] # Dead => Logged(disk[l])
    BY <1>1 DEF Described
  <2>3. CASE slots'[l] = slots[l] \/ slots'[l] = Dead
    BY <2>1, <2>2, <2>3 DEF Logged
  <2>4. CASE e = Put(slots'[l].id, slots'[l].val)
    <3>1. Len(log) + 1 \in 1 .. Len(log')
      BY <1>2
    <3> QED
      BY <1>2, <2>1, <2>2, <2>4, <3>1 DEF Logged
  <2> QED
    BY <2>3, <2>4
<1> QED
  BY <1>5, <1>6, <1>7, <1>8 DEF RInv

\* Whatever moves between the pool and the file is described already.
LEMMA PagesStep ==
    ASSUME RInv, Shaped',
           \A l \in Locations : slots'[l] # Dead => slots'[l] = slots[l] \/ slots'[l] = disk[l],
           \A l \in Locations : disk'[l] # Dead => disk'[l] = disk[l] \/ disk'[l] = slots[l],
           UNCHANGED <<log, synced, through, cache, durability, lost>>,
           pos' \in 0 .. synced, Staged'
    PROVE  RInv'
<1>1. Logging'
  BY DEF RInv, Logging
<1>2. Exposed'
  BY DEF RInv, Exposed
<1>3. Described'
  <2> SUFFICES ASSUME durability = "Strict", NEW l \in Locations
               PROVE  /\ slots'[l] # Dead => Logged(slots[l])'
                      /\ disk'[l] # Dead => Logged(disk[l])'
    BY DEF Described
  <2>1. /\ slots[l] # Dead => Logged(slots[l])
        /\ disk[l] # Dead => Logged(disk[l])
    BY DEF RInv, Described
  <2> QED
    BY <2>1 DEF Logged
<1> QED
  BY <1>1, <1>2, <1>3 DEF RInv

\* The heap and its file are as they were.
LEMMA ShapeStays ==
    ASSUME Shaped, UNCHANGED <<vars, disk>>
    PROVE  Shaped'
BY DEF Shaped, vars, HeapTyped, InFile

\* insert, update, delete and reclaim of the running store.
LEMMA CallsStep ==
    ASSUME RInv, Calls, UNCHANGED durability
    PROVE  RInv'
<1>1. Shaped /\ Logging /\ Staged
  BY DEF RInv
<1>2. ASSUME NEW id \in Records, NEW v \in Values, Insert(id, v) \/ Update(id, v)
      PROVE  RInv'
  <2>1. /\ Running /\ Log(Put(id, v)) /\ apply_put(id, v)
        /\ UNCHANGED <<disk, through, cache, mode, pos, ckpt, via, lost>>
    BY <1>2 DEF Insert, Update, controlVars
  <2>2. Shaped' /\ Adds(id, v)
    BY <1>1, <2>1, PutShape
  <2>3. Put(id, v) \in Entries /\ Put(id, v).op # "ckpt"
    BY DEF Entries, Put
  <2>4. \A l \in Locations : slots'[l] # Dead =>
          slots'[l] = slots[l] \/ Put(id, v) = Put(slots'[l].id, slots'[l].val)
    BY <2>2 DEF Adds
  <2> QED
    BY <2>1, <2>2, <2>3, <2>4, CallStep
<1>3. ASSUME NEW id \in Records, Erase(id)
      PROVE  RInv'
  <2>1. /\ Running /\ Log(Delete(id)) /\ apply_delete(id)
        /\ UNCHANGED <<disk, through, cache, mode, pos, ckpt, via, lost>>
    BY <1>3 DEF Erase, controlVars
  <2>2. Shaped' /\ AddsNothing
    BY <1>1, <2>1, DeleteShape
  <2>3. Delete(id) \in Entries /\ Delete(id).op # "ckpt"
    BY DEF Entries, Delete
  <2> QED
    BY <2>1, <2>2, <2>3, CallStep DEF AddsNothing
<1>4. CASE ReclaimVersions
  <2>1. /\ reclaim
        /\ UNCHANGED <<disk, log, synced, through, cache, mode, pos, ckpt, via, lost>>
    BY <1>4 DEF ReclaimVersions, diskVars, controlVars
  <2>2. Shaped' /\ AddsNothing
    BY <1>1, <2>1, ReclaimedShape
  <2>3. pos' \in 0 .. synced /\ Staged'
    BY <1>1, <2>1 DEF Logging, Staged
  <2> QED
    BY <2>1, <2>2, <2>3, PagesStep DEF AddsNothing
<1> QED
  BY <1>2, <1>3, <1>4 DEF Calls

\* A page reaches the file when the pool pleases, or all of them when a checkpoint begins.
LEMMA FlushStep ==
    ASSUME RInv, UNCHANGED durability, (\E p \in PageIds : WriteBack(p)) \/ Flush
    PROVE  RInv'
<1>1. Shaped /\ Logging /\ Staged
  BY DEF RInv
<1>2. /\ UNCHANGED vars /\ UNCHANGED <<log, synced, through, cache, pos, lost>>
  BY DEF WriteBack, Flush, controlVars
<1>3. /\ disk' \in [Locations -> Payloads \cup {Dead}]
      /\ \A l \in Locations : disk'[l] = disk[l] \/ disk'[l] = slots[l]
  <2>1. /\ slots \in [Locations -> Payloads \cup {Dead}]
        /\ disk \in [Locations -> Payloads \cup {Dead}]
    BY <1>1 DEF Shaped, HeapTyped
  <2>2. ASSUME NEW p \in PageIds, WriteBack(p)
        PROVE  disk' = [l \in Locations |-> IF l.page = p THEN slots[l] ELSE disk[l]]
    BY <2>2 DEF WriteBack
  <2>3. Flush => disk' = slots
    BY DEF Flush
  <2> QED
    BY <2>1, <2>2, <2>3
<1>4. UNCHANGED <<next, opening, open, directory, slots, pageCount, offered, retained, lastWrite>>
  BY <1>2 DEF vars
<1>5. Shaped'
  BY <1>1, <1>3, <1>4 DEF Shaped, InFile, HeapTyped
<1>6. Staged'
  <2>1. CASE Flush
    BY <1>1, <2>1 DEF Flush, Running, Staged
  <2>2. CASE \E p \in PageIds : WriteBack(p)
    BY <1>1, <2>2 DEF WriteBack, controlVars, Staged
  <2> QED
    BY <2>1, <2>2
<1> QED
  BY <1>1, <1>2, <1>3, <1>4, <1>5, <1>6, PagesStep DEF Logging

\* The entry of a checkpoint covers the log before it and is synced at once.
LEMMA LogCheckpointStep ==
    ASSUME RInv, LogCheckpoint, UNCHANGED durability
    PROVE  RInv'
<1>1. Shaped /\ Logging /\ Staged /\ Exposed /\ Described
  BY DEF RInv
<1>2. /\ log' = Append(log, Checkpoint(Len(log))) /\ synced' = Len(log) + 1
      /\ ckpt = "flushed" /\ ckpt' = "logged"
      /\ UNCHANGED vars /\ UNCHANGED <<disk, through, cache, mode, pos, via, lost>>
  BY DEF LogCheckpoint
<1>3. Len(log) \in Nat /\ Checkpoint(Len(log)) \in Entries
  BY <1>1, LenProperties DEF Logging, Entries
<1>4. /\ log' \in Seq(Entries) /\ Len(log') = Len(log) + 1
      /\ \A n \in 1 .. Len(log) : log'[n] = log[n]
      /\ log'[Len(log) + 1] = Checkpoint(Len(log))
  BY <1>1, <1>2, <1>3, LogGrows DEF Logging
<1>5. Logging'
  <2>1. ASSUME NEW n \in 1 .. Len(log'), log'[n].op = "ckpt"
        PROVE  log'[n].flushed \in 0 .. n - 1
    <3>1. CASE n = Len(log) + 1
      BY <1>3, <1>4, <3>1 DEF Checkpoint
    <3>2. CASE n # Len(log) + 1
      <4>1. n \in 1 .. Len(log)
        BY <1>3, <1>4, <3>2
      <4> QED
        BY <1>1, <1>4, <2>1, <4>1 DEF Logging
    <3> QED
      BY <3>1, <3>2
  <2>2. synced \in Nat /\ synced <= synced' /\ synced' \in 0 .. Len(log')
    BY <1>1, <1>2, <1>3, <1>4 DEF Logging
  <2>3. 0 .. synced \subseteq 0 .. synced'
    BY <2>2
  <2>4. through' \in 0 .. synced' \cup {None} /\ pos' \in 0 .. synced'
    BY <1>1, <1>2, <2>3 DEF Logging
  <2> QED
    BY <1>1, <1>2, <1>4, <2>1, <2>2, <2>4 DEF Logging
<1>6. Staged'
  <2>1. log'[Len(log')].op = "ckpt" /\ Len(log') # 0 /\ synced' = Len(log')
    BY <1>2, <1>3, <1>4 DEF Checkpoint
  <2> QED
    BY <1>1, <1>2, <2>1 DEF Staged
<1>7. Exposed'
  <2>1. Len(log') - synced' = 0 /\ synced' = Len(log') /\ GroupSize \in Nat \ {0}
    BY <1>2, <1>3, <1>4, RecoveryAssumption DEF RecoveryAssumption
  <2> QED
    BY <1>1, <1>2, <2>1 DEF Exposed
<1>8. Described'
  <2>1. \A p : Logged(p) => \E n \in 1 .. Len(log') : log'[n] = Put(p.id, p.val)
    BY <1>3, <1>4, LoggedStays
  <2>2. slots' = slots /\ disk' = disk
    BY <1>2 DEF vars
  <2> SUFFICES ASSUME durability = "Strict", NEW l \in Locations
               PROVE  /\ slots'[l] # Dead => Logged(slots[l])'
                      /\ disk'[l] # Dead => Logged(disk[l])'
    BY DEF Described
  <2>3. /\ slots[l] # Dead => Logged(slots[l])
        /\ disk[l] # Dead => Logged(disk[l])
    BY <1>1 DEF Described
  <2> QED
    BY <2>1, <2>2, <2>3 DEF Logged
<1>9. Shaped'
  BY <1>1, <1>2, ShapeStays
<1> QED
  BY <1>5, <1>6, <1>7, <1>8, <1>9 DEF RInv

\* The cache, or none, and then the catalog; neither claims more than is stable.
LEMMA CatalogStep ==
    ASSUME RInv, WriteDirectory \/ WriteCatalog, UNCHANGED durability
    PROVE  RInv'
<1>1. Shaped /\ Logging /\ Staged /\ Exposed /\ Described
  BY DEF RInv
<1>2. /\ UNCHANGED vars /\ UNCHANGED <<disk, log, synced, mode, pos, via, lost>>
      /\ ckpt \in {"logged", "cached"} /\ ckpt' \in {"no", "cached"}
  BY DEF WriteDirectory, WriteCatalog
<1>3. Flushed \in 0 .. synced
  <2>1. Len(log) \in Nat /\ Len(log) # 0 /\ log[Len(log)].op = "ckpt" /\ synced = Len(log)
    BY <1>1, <1>2, LenProperties DEF Staged, Logging
  <2>2. Len(log) \in 1 .. Len(log)
    BY <2>1
  <2>3. Flushed \in 0 .. Len(log) - 1
    BY <1>1, <2>1, <2>2 DEF Logging, Flushed
  <2> QED
    BY <2>1, <2>3
<1>4. cache' \in Directories \cup {None} /\ through' \in 0 .. synced \cup {None}
  <2>1. CASE WriteCatalog
    BY <1>1, <1>3, <2>1 DEF WriteCatalog, Logging
  <2>2. CASE WriteDirectory
    <3>1. HeapTyped(directory, slots, offered, retained, pageCount, lastWrite)
      BY <1>1 DEF Shaped
    <3>2. pageCount \in Nat /\ offered \subseteq 0 .. pageCount - 1 /\ Flushed \in Nat
      BY <1>1, <1>3, <3>1, ConstantsAssumption DEF HeapTyped, ConstantsAssumption, Logging
    <3>3. \A id \in Records : newest(directory[id]) \in Locations \cup {None}
      <4> SUFFICES ASSUME NEW id \in Records PROVE newest(directory[id]) \in Locations \cup {None}
        OBVIOUS
      <4>1. directory[id] \in Chains
        BY <3>1 DEF HeapTyped
      <4>2. directory[id] # <<>> => Len(directory[id]) \in 1 .. Len(directory[id])
        BY <4>1, EmptySeq, ChainType DEF Chains
      <4> QED
        BY <4>1, <4>2, ChainType DEF newest
    <3>4. directory_snapshot \in Directories
      <4> DEFINE locs == [id \in Records |-> newest(directory[id])]
      <4>1. locs \in [Records -> Locations \cup {None}]
        BY <3>3
      <4>2. directory_snapshot = [lsn |-> Flushed, pages |-> pageCount, offered |-> offered, locs |-> locs]
        BY DEF directory_snapshot
      <4>3. offered \in SUBSET Nat
        BY <3>2
      <4> HIDE DEF locs
      <4> QED
        BY <3>2, <4>1, <4>2, <4>3 DEF Directories
    <3> QED
      BY <1>1, <2>2, <3>4 DEF WriteDirectory, Logging
  <2> QED
    BY <2>1, <2>2
<1>5. Logging'
  BY <1>1, <1>2, <1>4 DEF Logging
<1>6. Staged'
  BY <1>1, <1>2 DEF Staged
<1>7. Exposed'
  BY <1>1, <1>2 DEF Exposed
<1>8. Described'
  BY <1>1, <1>2 DEF Described, Logged, vars
<1>9. Shaped'
  BY <1>1, <1>2, ShapeStays
<1> QED
  BY <1>5, <1>6, <1>7, <1>8, <1>9 DEF RInv

-----------------------------------------------------------------------------
(* Crash and recovery *)

\* What a crash takes of the log is what was exposed; under Strict that is nothing.
LEMMA CrashStep ==
    ASSUME RInv, Crash, UNCHANGED durability
    PROVE  RInv'
<1>1. Shaped /\ Logging /\ Staged /\ Exposed /\ Described
  BY DEF RInv
<1>2. PICK k \in synced .. Len(log) :
        log' = SubSeq(log, 1, k) /\ lost' = Len(log) - k /\ synced' = k
  BY DEF Crash
<1>3. /\ mode' = "down" /\ ckpt' = "no"
      /\ UNCHANGED vars /\ UNCHANGED <<disk, through, cache, pos, via>>
  BY DEF Crash
<1>4. /\ Len(log) \in Nat /\ synced \in Nat /\ synced <= Len(log)
      /\ k \in 0 .. Len(log) /\ k \in Nat /\ synced <= k /\ k <= Len(log)
      /\ log \in Seq(Entries)
  BY <1>1, LenProperties DEF Logging
<1>5. /\ log' \in Seq(Entries) /\ Len(log') = k
      /\ \A n \in 1 .. k : log'[n] = log[n]
  BY <1>2, <1>4, LogCut
<1>6. Logging'
  <2>1. \A n \in 1 .. Len(log') : log'[n].op = "ckpt" => log'[n].flushed \in 0 .. n - 1
    <3>1. \A n \in 1 .. k : n \in 1 .. Len(log)
      BY <1>4
    <3> QED
      BY <1>1, <1>5, <3>1 DEF Logging
  <2>2. 0 .. synced \subseteq 0 .. synced'
    BY <1>2, <1>4
  <2>3. through' \in 0 .. synced' \cup {None} /\ pos' \in 0 .. synced'
    BY <1>1, <1>3, <2>2 DEF Logging
  <2>4. synced' \in 0 .. Len(log')
    BY <1>2, <1>4, <1>5
  <2> QED
    BY <1>1, <1>3, <1>5, <2>1, <2>3, <2>4 DEF Logging
<1>7. Staged'
  BY <1>1, <1>2, <1>3, <1>5 DEF Staged
<1>8. Exposed'
  <2>1. durability = "Strict" => k = Len(log)
    BY <1>1, <1>4 DEF Exposed
  <2>2. durability = "GroupCommit" => Len(log) - synced < GroupSize
    BY <1>1 DEF Exposed
  <2>3. GroupSize \in Nat \ {0} /\ durability' = durability
    BY RecoveryAssumption DEF RecoveryAssumption
  <2>4. Len(log) - k <= Len(log) - synced
    BY <1>4
  <2>5. synced' = Len(log') /\ lost' = Len(log) - k /\ Len(log') - synced' = 0
    BY <1>2, <1>4, <1>5
  <2>6. durability = "Strict" => lost' = 0
    BY <1>4, <2>1, <2>5
  <2>7. durability = "GroupCommit" => lost' < GroupSize
    BY <1>4, <2>2, <2>3, <2>4, <2>5
  <2> QED
    BY <2>3, <2>5, <2>6, <2>7 DEF Exposed
<1>9. Described'
  <2> SUFFICES ASSUME durability = "Strict" PROVE Described'
    BY DEF Described
  <2>1. k = Len(log)
    BY <1>1, <1>4 DEF Exposed
  <2> QED
    BY <1>1, <1>3, <1>5, <2>1 DEF Described, Logged, vars
<1>10. Shaped'
  BY <1>1, <1>3, ShapeStays
<1> QED
  BY <1>6, <1>7, <1>8, <1>9, <1>10 DEF RInv

\* The checkpoint recovery begins at lies inside the log.
LEMMA FlushedInLog ==
    ASSUME Logging
    PROVE  FlushedLsn \in 0 .. Len(log)
<1> DEFINE from == IF through = None THEN 1 ELSE through
           at == {n \in 1 .. Len(log) : n >= from /\ log[n].op = "ckpt"}
<1>1. Len(log) \in Nat
  BY LenProperties DEF Logging
<1>2. CASE at = {}
  BY <1>1, <1>2 DEF FlushedLsn
<1>3. CASE at # {}
  <2>1. at \in SUBSET (0 .. Len(log))
    BY <1>1
  <2> HIDE DEF at
  <2>2. \E n \in at : \A k \in at : k <= n
    BY <1>1, <1>3, <2>1, NatMax
  <2> DEFINE m == CHOOSE n \in at : \A k \in at : k <= n
  <2>3. m \in at
    BY <2>2
  <2>4. FlushedLsn = log[m].flushed
    BY <1>3 DEF FlushedLsn, at
  <2> HIDE DEF m
  <2>5. m \in 1 .. Len(log) /\ log[m].flushed \in 0 .. m - 1
    BY <2>3 DEF at, Logging
  <2> QED
    BY <1>1, <2>4, <2>5
<1> QED
  BY <1>2, <1>3

\* A scan files a record under a place where it is, if it finds one.
LEMMA ScannedPlace ==
    ASSUME NEW id \in Records
    PROVE  /\ scan_pages(id) \in Locations \cup {None}
           /\ Found(id) = {} => scan_pages(id) = None
           /\ Found(id) # {} => scan_pages(id) \in Found(id)
<1>1. CASE Found(id) = {}
  BY <1>1 DEF scan_pages
<1>2. CASE Found(id) # {}
  <2>1. /\ MaxPages - 1 \in Nat /\ SlotsPerPage - 1 \in Nat
        /\ \A l \in Found(id) : l \in Locations /\ l.page \in 0 .. MaxPages - 1
                                /\ l.slot \in 0 .. SlotsPerPage - 1
    BY ConstantsAssumption DEF ConstantsAssumption, Found, Locations, PageIds, SlotIds
  <2> DEFINE P == {l.page : l \in Found(id)}
  <2>2. P \in SUBSET (0 .. MaxPages - 1) /\ P # {}
    BY <1>2, <2>1
  <2>3. PICK p \in P : \A q \in P : q <= p
    <3> HIDE DEF P
    <3> QED
      BY <2>1, <2>2, NatMax
  <2> DEFINE S == {l.slot : l \in {k \in Found(id) : k.page = p}}
  <2>4. S \in SUBSET (0 .. SlotsPerPage - 1) /\ S # {}
    BY <2>1, <2>3
  <2>5. PICK t \in S : \A u \in S : u <= t
    <3> HIDE DEF S
    <3> QED
      BY <2>1, <2>4, NatMax
  <2>6. PICK l \in Found(id) : l.page = p /\ l.slot = t
    BY <2>5
  <2>7. \A k \in Found(id) : k.page < l.page \/ (k.page = l.page /\ k.slot <= l.slot)
    <3> SUFFICES ASSUME NEW k \in Found(id), k.page # l.page \/ ~ (k.slot <= l.slot)
                 PROVE  k.page < l.page
      BY Zenon
    <3>1. k.page <= p /\ (k.page = p => k.slot <= t)
      BY <2>3, <2>5
    <3>2. k.page \in Nat /\ p \in Nat
      BY <2>1, <2>2
    <3> QED
      BY <2>6, <3>1, <3>2
  <2>8. scan_pages(id) \in Found(id)
    BY <1>2, <2>7 DEF scan_pages
  <2> QED
    BY <1>2, <2>1, <2>8
<1> QED
  BY <1>1, <1>2

\* The directory comes from the cache or the scan, and the pages from the file.
LEMMA OpenStep ==
    ASSUME RInv, Open, UNCHANGED durability
    PROVE  RInv'
<1>1. Shaped /\ Logging /\ Staged /\ Exposed /\ Described
  BY DEF RInv
<1> DEFINE loc(id) == IF CacheMatches THEN cache.locs[id] ELSE scan_pages(id)
<1>2. /\ directory' = [id \in Records |->
              IF loc(id) = None THEN <<>> ELSE <<[txn |-> 0, loc |-> loc(id)]>>]
      /\ offered' = IF CacheMatches THEN cache.offered ELSE 0 .. pageCount - 1
  BY DEF Open
<1>3. /\ slots' = disk /\ next' = 1 /\ retained' = 0
      /\ opening' = [h \in Holders |-> None] /\ open' = [h \in Holders |-> None]
      /\ lastWrite' = [id \in Records |-> 0]
      /\ UNCHANGED <<pageCount, disk, log, synced, through, cache, ckpt, lost>>
  BY DEF Open, diskVars
<1>4. mode = "down" /\ mode' = "replay" /\ pos' = FlushedLsn /\ via' \in {"none", "cache", "scan"}
  BY DEF Open
<1>5. CacheMatches => cache \in Directories /\ cache.pages = pageCount
  BY <1>1 DEF CacheMatches, Logging
<1>6. \A id \in Records : loc(id) \in Locations \cup {None}
  <2>1. \A id \in Records : CacheMatches => cache.locs[id] \in Locations \cup {None}
    BY <1>5 DEF Directories
  <2> QED
    BY <2>1, ScannedPlace
<1>7. offered' \subseteq 0 .. pageCount - 1
  BY <1>2, <1>5 DEF Directories
<1>8. directory' \in [Records -> Chains]
  <2>1. \A id \in Records : loc(id) # None => <<[txn |-> 0, loc |-> loc(id)]>> \in Chains
    <3> SUFFICES ASSUME NEW id \in Records, NEW l \in Locations
                 PROVE  <<[txn |-> 0, loc |-> l]>> \in Chains
      BY <1>6
    <3>1. [txn |-> 0, loc |-> l] \in Versions
      BY DEF Versions
    <3> QED
      BY <3>1 DEF Chains
  <2>2. <<>> \in Chains
    BY EmptySeq DEF Chains
  <2> HIDE DEF loc
  <2> QED
    BY <1>2, <2>1, <2>2
<1>9. Shaped'
  <2>1. /\ disk \in [Locations -> Payloads \cup {Dead}] /\ InFile(disk, pageCount)
        /\ pageCount \in 0 .. MaxPages
    BY <1>1 DEF Shaped, HeapTyped
  <2>2. InFile(slots', pageCount')
    BY <1>3, <2>1 DEF InFile
  <2>3. InFile(disk', pageCount')
    BY <1>3, <2>1 DEF InFile
  <2>4. HeapTyped(directory', slots', offered', retained', pageCount', lastWrite')
    BY <1>3, <1>7, <1>8, <2>1 DEF HeapTyped
  <2> QED
    BY <1>3, <2>1, <2>2, <2>3, <2>4 DEF Shaped
<1>10. synced = Len(log)
  BY <1>1, <1>4 DEF Staged
<1>11. pos' \in 0 .. synced
  BY <1>1, <1>4, <1>10, FlushedInLog
<1>12. Staged'
  BY <1>1, <1>3, <1>4, <1>10 DEF Staged
<1> QED
  BY <1>3, <1>9, <1>11, <1>12, PagesStep

\* Replaying an entry puts into the pages what the log says.
LEMMA ReplayStep ==
    ASSUME RInv, Replay, UNCHANGED durability
    PROVE  RInv'
<1>1. Shaped /\ Logging /\ Staged /\ Exposed /\ Described
  BY DEF RInv
<1> DEFINE e == log[pos + 1]
<1>2. /\ mode = "replay" /\ pos < Len(log) /\ pos' = pos + 1
      /\ UNCHANGED <<disk, log, synced, through, cache, mode, ckpt, via, lost>>
  BY DEF Replay, diskVars
<1>3. /\ pos + 1 \in 1 .. Len(log) /\ pos' \in 0 .. synced
  <2>1. Len(log) \in Nat /\ pos \in Nat /\ synced = Len(log)
    BY <1>1, <1>2, LenProperties DEF Logging, Staged
  <2> QED
    BY <1>2, <2>1
<1>4. e \in Entries
  BY <1>1, <1>3, ElementOfSeq DEF Logging
<1>5. \/ e.op = "put" /\ apply_put(e.id, e.val)
      \/ e.op = "del" /\ apply_delete(e.id)
      \/ UNCHANGED vars
  BY DEF Replay
<1>6. /\ Shaped'
      /\ \A l \in Locations : slots'[l] # Dead =>
            slots'[l] = slots[l] \/ e = Put(slots'[l].id, slots'[l].val)
  <2> HIDE DEF e
  <2>1. CASE e.op = "put" /\ apply_put(e.id, e.val)
    <3>1. e.id \in Records /\ e.val \in Values /\ e = Put(e.id, e.val)
      BY <1>4, <2>1, EntryKinds
    <3>2. Shaped' /\ Adds(e.id, e.val)
      BY <1>1, <1>2, <2>1, <3>1, PutShape
    <3> QED
      BY <3>1, <3>2 DEF Adds
  <2>2. CASE e.op = "del" /\ apply_delete(e.id)
    <3>1. e.id \in Records
      BY <1>4, <2>2, EntryKinds
    <3>2. Shaped' /\ AddsNothing
      BY <1>1, <1>2, <2>2, <3>1, DeleteShape
    <3> QED
      BY <3>2 DEF AddsNothing
  <2>3. CASE UNCHANGED vars
    <3>1. Shaped' /\ slots' = slots
      BY <1>1, <1>2, <2>3, ShapeStays DEF vars
    <3> QED
      BY <3>1
  <2> QED
    BY <1>5, <2>1, <2>2, <2>3
<1>7. Logging'
  BY <1>1, <1>2, <1>3 DEF Logging
<1>8. Staged'
  BY <1>1, <1>2 DEF Staged
<1>9. Exposed'
  BY <1>1, <1>2 DEF Exposed
<1>10. Described'
  <2> SUFFICES ASSUME durability = "Strict", NEW l \in Locations
               PROVE  /\ slots'[l] # Dead => Logged(slots[l])'
                      /\ disk'[l] # Dead => Logged(disk[l])'
    BY DEF Described
  <2>1. /\ slots[l] # Dead => Logged(slots[l])
        /\ disk[l] # Dead => Logged(disk[l])
    BY <1>1 DEF Described
  <2>2. /\ log' = log /\ disk' = disk
        /\ slots'[l] # Dead => slots'[l] = slots[l] \/ log[pos + 1] = Put(slots'[l].id, slots'[l].val)
    BY <1>2, <1>6
  <2> QED
    BY <1>3, <2>1, <2>2 DEF Logged
<1> QED
  BY <1>6, <1>7, <1>8, <1>9, <1>10 DEF RInv

\* The chains are collapsed, and the store is up.
LEMMA RecoveredStep ==
    ASSUME RInv, Recovered, UNCHANGED durability
    PROVE  RInv'
<1>1. Shaped /\ Logging /\ Staged
  BY DEF RInv
<1>2. /\ reclaim /\ mode' = "up" /\ pos' = 0
      /\ UNCHANGED <<disk, log, synced, through, cache, ckpt, via, lost>>
  BY DEF Recovered, diskVars
<1>3. Shaped' /\ AddsNothing
  BY <1>1, <1>2, ReclaimedShape
<1>4. pos' \in 0 .. synced
  BY <1>1, <1>2 DEF Logging
<1>5. Staged'
  BY <1>1, <1>2 DEF Staged
<1> QED
  BY <1>2, <1>3, <1>4, <1>5, PagesStep DEF AddsNothing

-----------------------------------------------------------------------------
(* The theorems *)

\* A store that has just been created.
LEMMA InitRInv ==
    ASSUME RInit
    PROVE  RInv
<1>1. /\ next = 1 /\ opening = [h \in Holders |-> None] /\ open = [h \in Holders |-> None]
      /\ directory = [id \in Records |-> <<>>] /\ slots = [l \in Locations |-> Dead]
      /\ pageCount = 0 /\ offered = {} /\ retained = 0 /\ lastWrite = [id \in Records |-> 0]
      /\ disk = slots
  BY DEF RInit, Init
<1>2. /\ log = <<>> /\ synced = 0 /\ through = None /\ cache = None
      /\ mode = "up" /\ pos = 0 /\ ckpt = "no" /\ via = "none" /\ lost = 0
      /\ durability \in Policies
  BY DEF RInit
<1>3. <<>> \in Chains /\ <<>> \in Seq(Entries) /\ Len(<<>>) = 0
  BY EmptySeq DEF Chains
<1>4. Shaped
  <2>1. MaxPages \in Nat
    BY ConstantsAssumption DEF ConstantsAssumption
  <2>2. HeapTyped(directory, slots, offered, retained, pageCount, lastWrite)
    BY <1>1, <1>3, <2>1 DEF HeapTyped
  <2> QED
    BY <1>1, <2>2 DEF Shaped, InFile
<1>5. Logging
  BY <1>2, <1>3 DEF Logging
<1>6. Staged
  BY <1>2, <1>3 DEF Staged
<1>7. Exposed
  BY <1>2, <1>3, RecoveryAssumption DEF Exposed, RecoveryAssumption
<1>8. Described
  BY <1>1 DEF Described
<1> QED
  BY <1>4, <1>5, <1>6, <1>7, <1>8 DEF RInv

\* Every call, write-back, checkpoint step, crash and recovery step keeps the invariant.
LEMMA NextRInv ==
    ASSUME RInv, [RNext]_rvars
    PROVE  RInv'
<1>1. CASE Calls /\ UNCHANGED durability
  BY <1>1, CallsStep
<1>2. CASE ((\E p \in PageIds : WriteBack(p)) \/ Flush) /\ UNCHANGED durability
  BY <1>2, FlushStep
<1>3. CASE LogCheckpoint /\ UNCHANGED durability
  BY <1>3, LogCheckpointStep
<1>4. CASE (WriteDirectory \/ WriteCatalog) /\ UNCHANGED durability
  BY <1>4, CatalogStep
<1>5. CASE Crash /\ UNCHANGED durability
  BY <1>5, CrashStep
<1>6. CASE Open /\ UNCHANGED durability
  BY <1>6, OpenStep
<1>7. CASE Replay /\ UNCHANGED durability
  BY <1>7, ReplayStep
<1>8. CASE Recovered /\ UNCHANGED durability
  BY <1>8, RecoveredStep
<1>9. CASE UNCHANGED rvars
  <2>1. /\ UNCHANGED vars
        /\ UNCHANGED <<disk, log, synced, through, cache, mode, pos, ckpt, via, lost, durability>>
    BY <1>9 DEF rvars, diskVars, controlVars
  <2>2. Shaped'
    BY <2>1, ShapeStays DEF RInv
  <2>3. slots' = slots /\ pos' \in 0 .. synced /\ Staged'
    BY <2>1 DEF RInv, Logging, Staged, vars
  <2> QED
    BY <2>1, <2>2, <2>3, PagesStep
<1> QED
  BY <1>1, <1>2, <1>3, <1>4, <1>5, <1>6, <1>7, <1>8, <1>9 DEF RNext

\* The inductive invariant holds of every state, whatever reaches the disk and wherever
\* a checkpoint or a recovery is cut off.
THEOREM CrashInvariance == RSpec => []RInv
BY InitRInv, NextRInv, PTL DEF RSpec

\* A crash takes no committed entry under Strict and less than a group under GroupCommit,
\* and under Strict it leaves nothing in the heap file that the log does not account for.
THEOREM CrashesAreBounded == RSpec => []CrashInvariant
<1>1. RInv => CrashInvariant
  <2> SUFFICES ASSUME RInv PROVE CrashInvariant
    OBVIOUS
  <2>1. Shaped /\ Logging /\ Staged /\ Exposed /\ Described
    BY DEF RInv
  <2>2. HeapTyped(directory, slots, offered, retained, pageCount, lastWrite)
    BY <2>1 DEF Shaped
  <2>3. offered \subseteq PageIds
    <3>1. pageCount \in 0 .. MaxPages /\ MaxPages \in Nat /\ offered \subseteq 0 .. pageCount - 1
      BY <2>2, ConstantsAssumption DEF HeapTyped, ConstantsAssumption
    <3> QED
      BY <3>1 DEF PageIds
  <2>4. TypeOK
    BY <2>1, <2>2, <2>3 DEF Shaped, HeapTyped, TypeOK, Chains
  <2>5. RTypeOK
    <3>1. Len(log) \in Nat /\ synced \in 0 .. Len(log)
      BY <2>1, LenProperties DEF Logging
    <3>2. 0 .. synced \subseteq 0 .. Len(log)
      BY <3>1
    <3>3. through \in 0 .. Len(log) \cup {None} /\ pos \in 0 .. Len(log)
      BY <2>1, <3>2 DEF Logging
    <3> QED
      BY <2>1, <2>4, <3>1, <3>3 DEF Shaped, Staged, RTypeOK
  <2>6. HeapLagsLog
    BY <2>1 DEF Described, Logged, HeapLagsLog
  <2>7. LossBounded
    BY <2>1 DEF Exposed, LossBounded
  <2> QED
    BY <2>5, <2>6, <2>7 DEF CrashInvariant
<1> QED
  BY <1>1, CrashInvariance, PTL

-----------------------------------------------------------------------------
(* What recovery goes by: the second inductive invariant. It speaks of the *)
(* runs ContentsMatchLog is about, those it calls regular.                 *)

Regular == durability = "Strict" /\ (NoCheckpoint \/ AppendOnly)

\* The entry changes the record.
Touches(e, id) == e.op # "ckpt" /\ e.id = id
Touched(id, m) == \E n \in 1 .. m : Touches(log[n], id)
LastTouch(id, n, m) ==
    n \in 1 .. m /\ Touches(log[n], id) /\ \A k \in 1 .. m : Touches(log[k], id) => k <= n

\* What a record holds once the entry is applied.
Answer(e) == IF e.op = "put" THEN e.val ELSE None

\* The entries the directory and the pages account for.
Applied == IF mode = "replay" THEN pos ELSE Len(log)

\* A chain names live slots of its own record, each once, under stamps of the past; what
\* else the pages hold, such as what an older recovery left behind, is nobody's.
Sound(dir, sl, n) ==
    \A id \in Records : \A i \in 1 .. Len(dir[id]) :
        /\ dir[id][i].txn < n
        /\ dir[id][i].loc # None =>
              /\ sl[dir[id][i].loc] # Dead /\ sl[dir[id][i].loc].id = id
              /\ \A j \in 1 .. Len(dir[id]) : dir[id][j].loc = dir[id][i].loc => j = i

\* A record the log has touched answers with what the log did to it last.
Answered ==
    \A id \in Records : \A n \in 1 .. Applied :
        LastTouch(id, n, Applied) => get(id) = Answer(log[n])

\* The last checkpoint covers the record.
Covered(id) == Touched(id, FlushedLsn)

\* What the last checkpoint covers is in the file, where the directory says it is.
Pinned ==
    \A id \in Records : Covered(id) =>
        /\ Found(id) # {}
        /\ mode # "down" => newest(directory[id]) \in Found(id)

\* A cache that would be trusted names those places, and no other.
Trusted ==
    CacheMatches => \A id \in Records :
        /\ ~ Covered(id) => cache.locs[id] = None
        /\ Covered(id) =>
              /\ cache.locs[id] \in Found(id)
              /\ mode # "down" => newest(directory[id]) = cache.locs[id]

\* A checkpoint covers all that precedes its entry; no cache is of a longer file or of a
\* later checkpoint, and no replay begins before the last one.
Covering ==
    /\ \A n \in 1 .. Len(log) : log[n].op = "ckpt" => log[n].flushed = n - 1
    /\ cache # None => cache.pages <= pageCount /\ cache.lsn < Len(log)
    /\ mode = "replay" => FlushedLsn <= pos
    /\ ckpt = "flushed" => disk = slots

CInv ==
    Regular =>
        /\ Covering /\ Pinned /\ Trusted
        /\ mode # "down" => Sound(directory, slots, next) /\ Answered

-----------------------------------------------------------------------------
(* What the heap's operations do to chains that are sound *)

\* A record's newest version is where it was, and as it was.
Keeps(id, dir, sl) ==
    /\ newest(directory'[id]) = newest(dir[id])
    /\ newest(dir[id]) # None => slots'[newest(dir[id])] = sl[newest(dir[id])]

\* What reclaim_to leaves of a chain is not freed.
LEMMA KeptIsNotFreed ==
    ASSUME NEW dir \in [Records -> Chains], NEW sl, NEW n, NEW h \in Nat, Sound(dir, sl, n),
           NEW id \in Records, NEW i \in 1 .. Len(dir[id]), i > Cut(dir[id], h),
           dir[id][i].loc # None
    PROVE  dir[id][i].loc \notin FreedLocations(dir, h)
<1> SUFFICES ASSUME NEW w \in Freed(dir, h), dir[w[1]][w[2]].loc = dir[id][i].loc
             PROVE  FALSE
  BY DEF FreedLocations
<1>1. PICK x \in Records : \E j \in Drained(dir[x], h) : w = <<x, j>>
  BY DEF Freed
<1>2. PICK j \in Drained(dir[x], h) : w = <<x, j>>
  BY <1>1
<1>3. dir[x][j].loc = dir[id][i].loc /\ dir[x][j].loc # None
  BY <1>2
<1>4. /\ Drained(dir[x], h) = {k \in 1 .. Cut(dir[x], h) : dir[x][k].loc # None}
      /\ Cut(dir[x], h) \in 0 .. Len(dir[x]) /\ Len(dir[x]) \in Nat
  BY ReclaimToSuffix, ChainType
<1>5. j \in 1 .. Len(dir[x]) /\ j <= Cut(dir[x], h)
  BY <1>2, <1>4
<1>6. x = id
  <2>1. sl[dir[x][j].loc].id = x /\ sl[dir[id][i].loc].id = id
    BY <1>3, <1>5 DEF Sound
  <2> QED
    BY <1>3, <2>1
<1>7. j = i
  BY <1>3, <1>5, <1>6 DEF Sound
<1>8. Cut(dir[id], h) \in Nat /\ i \in Nat
  BY <1>4, <1>6
<1> QED
  BY <1>5, <1>6, <1>7, <1>8

\* A reclamation, whichever of its paths it takes, frees only what no chain needs.
LEMMA ReclaimKeepsSound ==
    ASSUME NEW dir \in [Records -> Chains], NEW sl \in [Locations -> Payloads \cup {Dead}],
           NEW off, NEW ret, NEW pages, NEW n \in Nat,
           open \in [Holders -> Nat \cup {None}],
           Sound(dir, sl, n), Reclaim(dir, sl, off, ret, pages, n)
    PROVE  Sound(directory', slots', n) /\ \A id \in Records : Keeps(id, dir, sl)
<1> DEFINE h == reclaim_horizon(n)
           freed == FreedLocations(dir, h)
<1>1. h \in Nat
  BY HorizonBound
<1>2. \A id \in Records : directory'[id] = Pruned(reclaim_to(dir[id], h))
  BY DEF Reclaim
<1>3. PICK done \in SUBSET freed : slots' = [l \in Locations |-> IF l \in done THEN Dead ELSE sl[l]]
  BY DEF Reclaim
<1> HIDE DEF h, freed
<1>4. ASSUME NEW id \in Records, NEW i \in 1 .. Len(dir[id]), i > Cut(dir[id], h),
             dir[id][i].loc # None
      PROVE  slots'[dir[id][i].loc] = sl[dir[id][i].loc]
  <2>1. dir[id][i].loc \notin freed
    BY <1>1, <1>4, KeptIsNotFreed DEF freed
  <2>2. dir[id][i].loc \in Locations
    BY <1>4, ChainType
  <2> QED
    BY <1>3, <2>1, <2>2
<1>5. ASSUME NEW id \in Records
      PROVE  LET c == dir[id]
                 e == directory'[id]
             IN  /\ Len(c) \in Nat /\ Len(e) \in Nat /\ Cut(c, h) \in 0 .. Len(c)
                 /\ c # <<>> => Cut(c, h) < Len(c)
                 /\ e \in Chains
                 /\ \/ e = <<>> /\ Len(e) = 0 /\ Len(c) = Cut(c, h) + 1 /\ c[Cut(c, h) + 1].loc = None
                    \/ /\ Len(e) = Len(c) - Cut(c, h)
                       /\ \A i \in 1 .. Len(e) : e[i] = c[i + Cut(c, h)]
  <2> DEFINE c == dir[id]
             e == directory'[id]
  <2>1. c \in Chains /\ e = Pruned(reclaim_to(c, h))
    BY <1>2
  <2> HIDE DEF c, e
  <2>2. /\ e \in Chains /\ Cut(c, h) \in 0 .. Len(c)
        /\ c # <<>> => Cut(c, h) < Len(c)
        /\ \/ e = <<>> /\ Len(e) = 0 /\ Len(c) = Cut(c, h) + 1 /\ c[Cut(c, h) + 1].loc = None
           \/ /\ Len(e) = Len(c) - Cut(c, h)
              /\ \A i \in 1 .. Len(e) : e[i] = c[i + Cut(c, h)]
    BY <1>1, <2>1, KeptChain
  <2>3. Len(c) \in Nat /\ Len(e) \in Nat
    BY <2>1, <2>2, ChainType
  <2> QED
    BY <2>2, <2>3 DEF c, e
<1>6. Sound(directory', slots', n)
  <2> SUFFICES ASSUME NEW id \in Records, NEW i \in 1 .. Len(directory'[id])
               PROVE  /\ directory'[id][i].txn < n
                      /\ directory'[id][i].loc # None =>
                            /\ slots'[directory'[id][i].loc] # Dead
                            /\ slots'[directory'[id][i].loc].id = id
                            /\ \A j \in 1 .. Len(directory'[id]) :
                                  directory'[id][j].loc = directory'[id][i].loc => j = i
    BY DEF Sound
  <2> DEFINE c == dir[id]
             e == directory'[id]
             o == Cut(c, h)
  <2>1. /\ Len(c) \in Nat /\ Len(e) \in Nat /\ o \in 0 .. Len(c) /\ Len(e) = Len(c) - o
        /\ \A k \in 1 .. Len(e) : e[k] = c[k + o]
    BY <1>5
  <2>2. \A k \in 1 .. Len(e) : k + o \in 1 .. Len(c) /\ k + o > o
    BY <2>1
  <2>3. \A k \in 1 .. Len(e) :
          /\ e[k].txn < n
          /\ e[k].loc # None =>
               /\ sl[e[k].loc] # Dead /\ sl[e[k].loc].id = id
               /\ slots'[e[k].loc] = sl[e[k].loc]
    <3>1. \A m \in 1 .. Len(c) :
            /\ c[m].txn < n
            /\ c[m].loc # None => sl[c[m].loc] # Dead /\ sl[c[m].loc].id = id
            /\ m > o /\ c[m].loc # None => slots'[c[m].loc] = sl[c[m].loc]
      BY <1>4 DEF Sound
    <3> HIDE DEF c, e, o
    <3> QED
      BY <2>1, <2>2, <3>1
  <2>4. ASSUME e[i].loc # None, NEW j \in 1 .. Len(e), e[j].loc = e[i].loc
        PROVE  j = i
    <3>1. c[j + o].loc = c[i + o].loc /\ c[i + o].loc # None
      BY <2>1, <2>4
    <3>2. j + o = i + o
      BY <2>2, <3>1 DEF Sound
    <3> QED
      BY <2>1, <3>2
  <2> QED
    BY <2>3, <2>4
<1>7. ASSUME NEW id \in Records PROVE Keeps(id, dir, sl)
  <2> DEFINE c == dir[id]
             e == directory'[id]
             o == Cut(c, h)
  <2>0. c \in Chains
    OBVIOUS
  <2>1. /\ Len(c) \in Nat /\ Len(e) \in Nat /\ o \in 0 .. Len(c) /\ e \in Chains
        /\ c # <<>> => o < Len(c)
        /\ \/ e = <<>> /\ Len(e) = 0 /\ Len(c) = o + 1 /\ c[o + 1].loc = None
           \/ Len(e) = Len(c) - o /\ \A i \in 1 .. Len(e) : e[i] = c[i + o]
    BY <1>5
  <2>2. \A i \in 1 .. Len(c) : i > o /\ c[i].loc # None => slots'[c[i].loc] = sl[c[i].loc]
    BY <1>4
  <2> HIDE DEF c, e, o
  <2>3. newest(e) = newest(c) /\ (newest(c) # None => slots'[newest(c)] = sl[newest(c)])
    <3>1. CASE c = <<>>
      <4>1. Len(e) = 0
        BY <2>1, <3>1, EmptySeq
      <4>2. e = <<>>
        BY <2>1, <4>1, EmptySeq DEF Chains
      <4> QED
        BY <3>1, <4>2 DEF newest
    <3>2. CASE c # <<>>
      <4>1. /\ Len(c) \in 1 .. Len(c) /\ newest(c) = c[Len(c)].loc /\ o < Len(c)
        BY <2>0, <2>1, <3>2, NewestOf
      <4>2. CASE e = <<>> /\ Len(c) = o + 1 /\ c[o + 1].loc = None
        BY <4>1, <4>2 DEF newest
      <4>3. CASE Len(e) = Len(c) - o /\ \A i \in 1 .. Len(e) : e[i] = c[i + o]
        <5>1. Len(e) \in 1 .. Len(e) /\ Len(e) + o = Len(c) /\ Len(e) # 0
          BY <2>1, <4>1, <4>3
        <5>2. e # <<>> /\ e[Len(e)] = c[Len(c)]
          BY <4>3, <5>1, EmptySeq
        <5>3. newest(e) = newest(c)
          BY <2>1, <4>1, <5>2, NewestOf
        <5>4. Len(c) > o
          BY <2>1, <4>1
        <5> QED
          BY <2>2, <4>1, <5>3, <5>4
      <4> QED
        BY <2>1, <4>2, <4>3
    <3> QED
      BY <3>1, <3>2
  <2> QED
    BY <2>3 DEF Keeps, c, e
<1> QED
  BY <1>6, <1>7

\* The same of a reclamation that waits until enough is retained.
LEMMA MaybeReclaimKeepsSound ==
    ASSUME NEW dir \in [Records -> Chains], NEW sl \in [Locations -> Payloads \cup {Dead}],
           NEW off, NEW ret, NEW pages, NEW n \in Nat,
           open \in [Holders -> Nat \cup {None}],
           Sound(dir, sl, n), maybe_reclaim(dir, sl, off, ret, pages, n)
    PROVE  Sound(directory', slots', n) /\ \A id \in Records : Keeps(id, dir, sl)
<1>1. CASE ret >= RetentionLimit
  BY <1>1, ReclaimKeepsSound DEF maybe_reclaim
<1>2. CASE ~ (ret >= RetentionLimit)
  <2>1. directory' = dir /\ slots' = sl
    BY <1>2 DEF maybe_reclaim
  <2> QED
    BY <2>1 DEF Keeps
<1> QED
  BY <1>1, <1>2

\* The heap with a version more: the record is where that says, the others are as they were.
Pushes(id, l, dir, sl) ==
    /\ Sound(dir, sl, next + 1) /\ newest(dir[id]) = l
    /\ \A x \in Records \ {id} : dir[x] = directory[x]
    /\ \A x \in Records : newest(directory[x]) # None =>
           sl[newest(directory[x])] = slots[newest(directory[x])]

\* A version pushed for a record, at a slot that was free or, for a tombstone, at none.
LEMMA PushKeepsSound ==
    ASSUME directory \in [Records -> Chains], next \in Nat, Sound(directory, slots, next),
           NEW id \in Records, NEW l \in Locations \cup {None},
           NEW dir, dir = [directory EXCEPT ![id] = Append(@, [txn |-> next, loc |-> l])],
           NEW sl, \A k \in Locations : slots[k] # Dead => sl[k] = slots[k],
           l # None => slots[l] = Dead /\ sl[l] # Dead /\ sl[l].id = id
    PROVE  Pushes(id, l, dir, sl)
<1>1. [txn |-> next, loc |-> l] \in Versions
  BY DEF Versions
<1> DEFINE c == directory[id]
           d == dir[id]
<1>2. /\ d \in Chains /\ Len(d) = Len(c) + 1 /\ Len(c) \in Nat
      /\ \A i \in 1 .. Len(c) : d[i] = c[i]
      /\ d[Len(c) + 1] = [txn |-> next, loc |-> l]
  BY <1>1, AppendProperties, ChainType DEF Chains
<1>3. \A x \in Records \ {id} : dir[x] = directory[x]
  OBVIOUS
<1>4. \A x \in Records : \A i \in 1 .. Len(directory[x]) :
        /\ directory[x][i].txn < next + 1
        /\ directory[x][i].loc # None =>
             /\ directory[x][i].loc # l
             /\ sl[directory[x][i].loc] = slots[directory[x][i].loc]
             /\ sl[directory[x][i].loc] # Dead /\ sl[directory[x][i].loc].id = x
             /\ \A j \in 1 .. Len(directory[x]) :
                   directory[x][j].loc = directory[x][i].loc => j = i
  <2> SUFFICES ASSUME NEW x \in Records, NEW i \in 1 .. Len(directory[x])
               PROVE  /\ directory[x][i].txn < next + 1
                      /\ directory[x][i].loc # None =>
                           /\ directory[x][i].loc # l
                           /\ sl[directory[x][i].loc] = slots[directory[x][i].loc]
                           /\ sl[directory[x][i].loc] # Dead /\ sl[directory[x][i].loc].id = x
                           /\ \A j \in 1 .. Len(directory[x]) :
                                 directory[x][j].loc = directory[x][i].loc => j = i
    OBVIOUS
  <2>1. directory[x][i].txn \in Nat /\ directory[x][i].loc \in Locations \cup {None}
    BY ChainType
  <2>2. /\ directory[x][i].txn < next
        /\ directory[x][i].loc # None =>
             /\ slots[directory[x][i].loc] # Dead /\ slots[directory[x][i].loc].id = x
             /\ \A j \in 1 .. Len(directory[x]) :
                   directory[x][j].loc = directory[x][i].loc => j = i
    BY DEF Sound
  <2>3. directory[x][i].txn < next + 1
    BY <2>1, <2>2
  <2> QED
    BY <2>1, <2>2, <2>3
<1>5. Sound(dir, sl, next + 1)
  <2> SUFFICES ASSUME NEW x \in Records, NEW i \in 1 .. Len(dir[x])
               PROVE  /\ dir[x][i].txn < next + 1
                      /\ dir[x][i].loc # None =>
                           /\ sl[dir[x][i].loc] # Dead /\ sl[dir[x][i].loc].id = x
                           /\ \A j \in 1 .. Len(dir[x]) : dir[x][j].loc = dir[x][i].loc => j = i
    BY DEF Sound
  <2>1. CASE x # id
    BY <1>3, <1>4, <2>1
  <2>2. CASE x = id
    <3>1. i \in 1 .. Len(d)
      BY <2>2
    <3> HIDE DEF c, d
    <3>2. CASE i \in 1 .. Len(c)
      <4>1. d[i] = c[i]
        BY <1>2, <3>2
      <4>2. /\ c[i].txn < next + 1
            /\ c[i].loc # None =>
                 /\ c[i].loc # l
                 /\ sl[c[i].loc] # Dead /\ sl[c[i].loc].id = id
                 /\ \A j \in 1 .. Len(c) : c[j].loc = c[i].loc => j = i
        BY <1>4, <3>2 DEF c
      <4>3. ASSUME d[i].loc # None, NEW j \in 1 .. Len(d), d[j].loc = d[i].loc PROVE j = i
        <5>1. j # Len(c) + 1
          BY <1>2, <4>1, <4>2, <4>3
        <5>2. j \in 1 .. Len(c)
          BY <1>2, <5>1
        <5> QED
          BY <1>2, <4>1, <4>2, <4>3, <5>2
      <4> QED
        BY <2>2, <4>1, <4>2, <4>3 DEF d
    <3>3. CASE i = Len(c) + 1
      <4>1. d[i].txn = next /\ d[i].loc = l /\ next < next + 1
        BY <1>2, <3>3
      <4>2. ASSUME l # None, NEW j \in 1 .. Len(d), d[j].loc = l PROVE j = i
        <5> SUFFICES ASSUME j # i PROVE FALSE
          OBVIOUS
        <5>1. j \in 1 .. Len(c)
          BY <1>2, <3>3
        <5>2. c[j].loc = l
          BY <1>2, <4>2, <5>1
        <5> QED
          BY <1>4, <4>2, <5>1, <5>2 DEF c
      <4> QED
        BY <2>2, <4>1, <4>2 DEF d
    <3>4. i \in 1 .. Len(c) \/ i = Len(c) + 1
      BY <1>2, <3>1
    <3> QED
      BY <3>2, <3>3, <3>4
  <2> QED
    BY <2>1, <2>2
<1>6. newest(d) = l
  <2> HIDE DEF c, d
  <2>1. d # <<>>
    BY <1>2, EmptySeq
  <2>2. newest(d) = d[Len(c) + 1].loc
    BY <1>2, <2>1, NewestOf
  <2> QED
    BY <1>2, <2>2
<1>7. ASSUME NEW x \in Records, newest(directory[x]) # None
      PROVE  sl[newest(directory[x])] = slots[newest(directory[x])]
  <2>1. directory[x] # <<>>
    BY <1>7 DEF newest
  <2>2. Len(directory[x]) \in 1 .. Len(directory[x]) /\ newest(directory[x]) = directory[x][Len(directory[x])].loc
    BY <2>1, NewestOf
  <2> QED
    BY <1>4, <1>7, <2>2
<1> QED
  BY <1>3, <1>5, <1>6, <1>7 DEF Pushes

\* apply_put: the record's newest version is the one just written.
LEMMA PutKeepsSound ==
    ASSUME Shaped, Sound(directory, slots, next),
           NEW id \in Records, NEW v \in Values, apply_put(id, v)
    PROVE  /\ Sound(directory', slots', next')
           /\ newest(directory'[id]) \in Locations
           /\ slots'[newest(directory'[id])] = [id |-> id, val |-> v]
           /\ \A x \in Records \ {id} : Keeps(x, directory, slots)
<1>1. /\ HeapShape /\ next \in Nat \ {0} /\ open \in [Holders -> Nat \cup {None}]
      /\ next' = next + 1 /\ next + 1 \in Nat
  BY ShapedHeap DEF apply_put, begin_write
<1>2. /\ directory \in [Records -> Chains]
      /\ slots \in [Locations -> Payloads \cup {Dead}]
  BY DEF Shaped, HeapTyped
<1>3. PICK p \in PageIds :
        /\ place(p)
        /\ LET loc == [page |-> p, slot |-> FirstDead(p)]
               pages == IF p = pageCount THEN p + 1 ELSE pageCount
           IN  /\ pageCount' = pages
               /\ maybe_reclaim(
                    [directory EXCEPT ![id] = Append(@, [txn |-> next, loc |-> loc])],
                    [slots EXCEPT ![loc] = [id |-> id, val |-> v]],
                    offered \cup {p},
                    IF directory[id] = <<>> THEN retained ELSE retained + 1,
                    pages, next + 1)
  BY Zenon DEF apply_put
<1> DEFINE loc == [page |-> p, slot |-> FirstDead(p)]
           dir1 == [directory EXCEPT ![id] = Append(@, [txn |-> next, loc |-> loc])]
           sl1 == [slots EXCEPT ![loc] = [id |-> id, val |-> v]]
           off1 == offered \cup {p}
           ret1 == IF directory[id] = <<>> THEN retained ELSE retained + 1
<1>4. /\ pageCount' = IF p = pageCount THEN p + 1 ELSE pageCount
      /\ maybe_reclaim(dir1, sl1, off1, ret1, pageCount', next + 1)
  BY <1>3
<1>5. loc \in Locations /\ slots[loc] = Dead
  BY <1>1, <1>3, <1>4, PutPlace
<1>6. dir1 \in [Records -> Chains]
  BY <1>1, <1>2, <1>5, LongerChain
<1>7. /\ sl1 \in [Locations -> Payloads \cup {Dead}]
      /\ sl1[loc] = [id |-> id, val |-> v] /\ sl1[loc] # Dead /\ sl1[loc].id = id
      /\ \A k \in Locations : slots[k] # Dead => sl1[k] = slots[k]
  <2>1. [id |-> id, val |-> v] \in Payloads /\ [id |-> id, val |-> v] # Dead
    BY MarkersAssumption DEF Payloads, MarkersAssumption
  <2> QED
    BY <1>2, <1>5, <2>1
<1>8. loc # None
  BY <1>5, MarkersAssumption DEF MarkersAssumption
<1>9. dir1 = [directory EXCEPT ![id] = Append(@, [txn |-> next, loc |-> loc])]
  OBVIOUS
<1> HIDE DEF loc, dir1, sl1, off1, ret1
<1>10. /\ Sound(dir1, sl1, next + 1) /\ newest(dir1[id]) = loc
       /\ \A x \in Records \ {id} : dir1[x] = directory[x]
       /\ \A x \in Records : newest(directory[x]) # None =>
              sl1[newest(directory[x])] = slots[newest(directory[x])]
  <2>1. next \in Nat /\ loc \in Locations \cup {None}
    BY <1>1, <1>5
  <2>2. loc # None => slots[loc] = Dead /\ sl1[loc] # Dead /\ sl1[loc].id = id
    BY <1>5, <1>7
  <2>3. Pushes(id, loc, dir1, sl1)
    BY <1>2, <1>7, <1>9, <2>1, <2>2, PushKeepsSound
  <2> QED
    BY <2>3 DEF Pushes
<1>11. Sound(directory', slots', next + 1) /\ \A x \in Records : Keeps(x, dir1, sl1)
  BY <1>1, <1>4, <1>6, <1>7, <1>10, MaybeReclaimKeepsSound
<1>12. newest(directory'[id]) = loc /\ slots'[loc] = sl1[loc]
  BY <1>8, <1>10, <1>11 DEF Keeps
<1>13. ASSUME NEW x \in Records \ {id} PROVE Keeps(x, directory, slots)
  BY <1>10, <1>11 DEF Keeps
<1> QED
  BY <1>1, <1>5, <1>7, <1>11, <1>12, <1>13

\* apply_delete: the record is absent, by a tombstone or as it was.
LEMMA DeleteKeepsSound ==
    ASSUME Shaped, Sound(directory, slots, next), NEW id \in Records, apply_delete(id)
    PROVE  /\ Sound(directory', slots', next')
           /\ newest(directory'[id]) = None
           /\ \A x \in Records \ {id} : Keeps(x, directory, slots)
<1>1. /\ next \in Nat \ {0} /\ open \in [Holders -> Nat \cup {None}]
      /\ next' = next + 1 /\ next + 1 \in Nat
  BY ShapedHeap DEF apply_delete, begin_write
<1>2. /\ directory \in [Records -> Chains]
      /\ slots \in [Locations -> Payloads \cup {Dead}]
  BY DEF Shaped, HeapTyped
<1>3. CASE is_absent(directory[id])
  <2>1. directory' = directory /\ slots' = slots
    BY <1>3 DEF apply_delete, heapVars
  <2>2. \A x \in Records : \A i \in 1 .. Len(directory[x]) :
          directory[x][i].txn < next => directory[x][i].txn < next + 1
    <3>1. \A x \in Records : \A i \in 1 .. Len(directory[x]) : directory[x][i].txn \in Nat
      BY <1>2, ChainType
    <3> QED
      BY <1>1, <3>1
  <2>3. Sound(directory, slots, next + 1)
    BY <2>2 DEF Sound
  <2> QED
    BY <1>1, <1>3, <2>1, <2>3 DEF Keeps, is_absent
<1>4. CASE ~ is_absent(directory[id])
  <2> DEFINE dir1 == [directory EXCEPT ![id] = Append(@, [txn |-> next, loc |-> None])]
  <2>1. maybe_reclaim(dir1, slots, offered, retained + 1, pageCount, next + 1)
    BY <1>4 DEF apply_delete
  <2>2. dir1 \in [Records -> Chains]
    BY <1>1, <1>2, LongerChain
  <2>3. dir1 = [directory EXCEPT ![id] = Append(@, [txn |-> next, loc |-> None])]
    OBVIOUS
  <2> HIDE DEF dir1
  <2>4. /\ Sound(dir1, slots, next + 1) /\ newest(dir1[id]) = None
        /\ \A x \in Records \ {id} : dir1[x] = directory[x]
    BY <1>1, <1>2, <2>3, PushKeepsSound DEF Pushes
  <2>5. Sound(directory', slots', next + 1) /\ \A x \in Records : Keeps(x, dir1, slots)
    BY <1>1, <1>2, <2>1, <2>2, <2>4, MaybeReclaimKeepsSound
  <2>6. \A x \in Records \ {id} : Keeps(x, directory, slots)
    BY <2>4, <2>5 DEF Keeps
  <2> QED
    BY <1>1, <2>4, <2>5, <2>6 DEF Keeps
<1> QED
  BY <1>3, <1>4

\* reclaim, in a call or at the end of a recovery.
LEMMA ReclaimedSound ==
    ASSUME Shaped, Sound(directory, slots, next), reclaim
    PROVE  Sound(directory', slots', next') /\ \A x \in Records : Keeps(x, directory, slots)
<1>1. /\ next \in Nat /\ open \in [Holders -> Nat \cup {None}] /\ next' = next
      /\ Reclaim(directory, slots, offered, retained, pageCount, next)
  BY ShapedHeap DEF reclaim
<1>2. /\ directory \in [Records -> Chains]
      /\ slots \in [Locations -> Payloads \cup {Dead}]
  BY DEF Shaped, HeapTyped
<1> QED
  BY <1>1, <1>2, ReclaimKeepsSound

\* The newest version of a sound chain is in the record's own live slot.
LEMMA NewestIsOwn ==
    ASSUME Shaped, Sound(directory, slots, next), NEW id \in Records,
           newest(directory[id]) # None
    PROVE  /\ newest(directory[id]) \in Locations
           /\ slots[newest(directory[id])] \in Payloads
           /\ slots[newest(directory[id])] # Dead /\ slots[newest(directory[id])].id = id
           /\ get(id) = slots[newest(directory[id])].val
<1>1. directory[id] \in Chains /\ slots \in [Locations -> Payloads \cup {Dead}]
  BY DEF Shaped, HeapTyped
<1>2. directory[id] # <<>>
  BY DEF newest
<1>3. /\ Len(directory[id]) \in 1 .. Len(directory[id])
      /\ newest(directory[id]) = directory[id][Len(directory[id])].loc
  BY <1>1, <1>2, NewestOf
<1>4. newest(directory[id]) \in Locations
  BY <1>1, <1>3, ChainType
<1>5. slots[newest(directory[id])] # Dead /\ slots[newest(directory[id])].id = id
  BY <1>3 DEF Sound
<1> QED
  BY <1>1, <1>4, <1>5 DEF get

\* What a record answers is what it did, where its newest version stays.
LEMMA KeepsAnswer ==
    ASSUME NEW id \in Records, Keeps(id, directory, slots)
    PROVE  get(id)' = get(id)
BY DEF Keeps, get

-----------------------------------------------------------------------------
(* What recovery reads in the log *)

\* The log it was, or longer.
Extends ==
    /\ Len(log) \in Nat /\ Len(log') \in Nat /\ Len(log) <= Len(log')
    /\ \A n \in 1 .. Len(log) : log'[n] = log[n]

\* FlushedLsn of any log and catalog.
FlushedIn(lg, th) ==
    LET from == IF th = None THEN 1 ELSE th
        at == {n \in 1 .. Len(lg) : n >= from /\ lg[n].op = "ckpt"}
    IN  IF at = {} THEN 0 ELSE lg[CHOOSE n \in at : \A k \in at : k <= n].flushed

\* FlushedLsn is FlushedIn of this state's log, and of the next state's.
LEMMA FlushedByName == FlushedLsn = FlushedIn(log, through) /\ FlushedLsn' = FlushedIn(log', through')
BY DEF FlushedLsn, FlushedIn

\* The greatest of a set is what a CHOOSE of the greatest chooses.
LEMMA GreatestIs ==
    ASSUME NEW S \in SUBSET Nat, NEW m \in S, \A k \in S : k <= m
    PROVE  (CHOOSE n \in S : \A k \in S : k <= n) = m
<1> DEFINE g == CHOOSE n \in S : \A k \in S : k <= n
<1>1. g \in S /\ \A k \in S : k <= g
  OBVIOUS
<1>2. g \in Nat /\ m \in Nat /\ g <= m /\ m <= g
  BY <1>1
<1> HIDE DEF g
<1>3. g = m
  BY <1>2
<1> QED
  BY <1>3 DEF g

\* Recovery begins at the last checkpoint, which no catalog has passed.
LEMMA FlushedAt ==
    ASSUME NEW lg, Len(lg) \in Nat, NEW th \in Nat \cup {None},
           NEW m \in 1 .. Len(lg), lg[m].op = "ckpt", th # None => th <= m,
           \A k \in 1 .. Len(lg) : lg[k].op = "ckpt" => k <= m
    PROVE  FlushedIn(lg, th) = lg[m].flushed
<1> DEFINE from == IF th = None THEN 1 ELSE th
           at == {n \in 1 .. Len(lg) : n >= from /\ lg[n].op = "ckpt"}
<1>1. m \in at /\ at \in SUBSET Nat /\ \A k \in at : k <= m
  BY MarkersAssumption DEF MarkersAssumption
<1>2. at # {}
  BY <1>1
<1>3. FlushedIn(lg, th) = lg[CHOOSE n \in at : \A k \in at : k <= n].flushed
  BY <1>2 DEF FlushedIn
<1> HIDE DEF at
<1>4. (CHOOSE n \in at : \A k \in at : k <= n) = m
  BY <1>1, GreatestIs
<1> QED
  BY <1>3, <1>4

\* Entries that are no checkpoint leave it where it was.
LEMMA FlushedStays ==
    ASSUME Extends, UNCHANGED through,
           \A n \in 1 .. Len(log') : n > Len(log) => log'[n].op # "ckpt"
    PROVE  FlushedLsn' = FlushedLsn
<1> DEFINE from == IF through = None THEN 1 ELSE through
           at == {n \in 1 .. Len(log) : n >= from /\ log[n].op = "ckpt"}
           at1 == {n \in 1 .. Len(log') : n >= from /\ log'[n].op = "ckpt"}
<1>1. at1 = at
  <2>1. ASSUME NEW n \in at1 PROVE n \in at
    <3>1. n \in 1 .. Len(log') /\ ~ (n > Len(log))
      OBVIOUS
    <3>2. n \in 1 .. Len(log)
      BY <3>1 DEF Extends
    <3> QED
      BY <3>2 DEF Extends
  <2>2. ASSUME NEW n \in at PROVE n \in at1
    <3>1. n \in 1 .. Len(log') /\ log'[n] = log[n]
      BY DEF Extends
    <3> QED
      BY <3>1
  <2> QED
    BY <2>1, <2>2
<1>2. FlushedLsn' = IF at1 = {} THEN 0 ELSE log'[CHOOSE n \in at1 : \A k \in at1 : k <= n].flushed
  BY DEF FlushedLsn
<1>3. FlushedLsn = IF at = {} THEN 0 ELSE log[CHOOSE n \in at : \A k \in at : k <= n].flushed
  BY DEF FlushedLsn
<1>4. at \in SUBSET (0 .. Len(log)) /\ at \subseteq 1 .. Len(log)
  BY DEF Extends
<1> HIDE DEF at, at1
<1>5. CASE at = {}
  BY <1>1, <1>2, <1>3, <1>5
<1>6. CASE at # {}
  <2>1. \E n \in at : \A k \in at : k <= n
    BY <1>4, <1>6, NatMax DEF Extends
  <2>2. (CHOOSE n \in at : \A k \in at : k <= n) \in at
    BY <2>1
  <2> DEFINE m == CHOOSE n \in at : \A k \in at : k <= n
  <2>3. FlushedLsn' = log'[m].flushed /\ FlushedLsn = log[m].flushed
    BY <1>1, <1>2, <1>3, <1>6
  <2> HIDE DEF m
  <2>4. log'[m] = log[m]
    BY <1>4, <2>2 DEF Extends, m
  <2> QED
    BY <2>3, <2>4
<1> QED
  BY <1>5, <1>6

\* Without a checkpoint it begins at the beginning.
LEMMA FlushedNever ==
    ASSUME Logging, NoCheckpoint
    PROVE  FlushedLsn = 0
<1>1. \A n \in 1 .. Len(log) : log[n].op # "ckpt"
  BY LenProperties DEF Logging, NoCheckpoint
<1> QED
  BY <1>1 DEF FlushedLsn

\* What was regular all along.
LEMMA RegularBefore ==
    ASSUME Logging, Logging', Extends, UNCHANGED durability, Regular'
    PROVE  Regular
<1>1. /\ DOMAIN log = 1 .. Len(log) /\ DOMAIN log' = 1 .. Len(log')
      /\ \A n \in 1 .. Len(log) : n \in 1 .. Len(log')
  BY LenProperties DEF Logging, Extends
<1>2. NoCheckpoint' => NoCheckpoint
  BY <1>1 DEF NoCheckpoint, Extends
<1>3. AppendOnly' => AppendOnly
  BY <1>1 DEF AppendOnly, Extends
<1> QED
  BY <1>2, <1>3 DEF Regular

\* In a regular log no entry after the last checkpoint touches what that covers.
LEMMA CoveredOnce ==
    ASSUME Logging, Logging', Extends, Regular', NEW id \in Records, Covered(id),
           NEW k \in 1 .. Len(log'), FlushedLsn < k
    PROVE  ~ Touches(log'[k], id)
<1>1. FlushedLsn \in 0 .. Len(log)
  BY FlushedInLog
<1>2. PICK n \in 1 .. FlushedLsn : Touches(log[n], id)
  BY DEF Covered, Touched
<1>3. n \in 1 .. Len(log) /\ n \in 1 .. Len(log') /\ n # k /\ log'[n] = log[n]
  BY <1>1, <1>2 DEF Extends
<1>4. DOMAIN log = 1 .. Len(log) /\ DOMAIN log' = 1 .. Len(log')
  BY LenProperties DEF Logging
<1>5. ~ NoCheckpoint'
  <2> SUFFICES ASSUME NoCheckpoint' PROVE FALSE
    OBVIOUS
  <2>1. NoCheckpoint
    BY <1>4 DEF NoCheckpoint, Extends
  <2>2. FlushedLsn = 0
    BY <2>1, FlushedNever
  <2> QED
    BY <1>2, <2>2
<1>6. AppendOnly'
  BY <1>5 DEF Regular
<1>7. /\ log'[n].op = "put" /\ log'[n].id = id
  <2>1. log'[n] \in Entries /\ log'[n].op # "del" /\ Touches(log'[n], id)
    BY <1>2, <1>3, <1>4, <1>6, ElementOfSeq DEF AppendOnly, Logging
  <2> QED
    BY <2>1 DEF Touches, Entries, Put, Delete, Checkpoint
<1>8. log'[k] \in Entries /\ log'[k].op # "del"
  BY <1>4, <1>6, ElementOfSeq DEF AppendOnly, Logging
<1> SUFFICES ASSUME Touches(log'[k], id) PROVE FALSE
  OBVIOUS
<1>9. log'[k].op = "put" /\ log'[k].id = id
  BY <1>8 DEF Touches, Entries, Put, Delete, Checkpoint
<1> QED
  BY <1>3, <1>4, <1>6, <1>7, <1>9 DEF AppendOnly

\* A checkpoint that stays the last one covers what it covered.
LEMMA CoveredStays ==
    ASSUME Logging, Extends, FlushedLsn' = FlushedLsn, NEW id
    PROVE  Covered(id)' <=> Covered(id)
<1>1. FlushedLsn \in 0 .. Len(log) /\ Len(log) \in Nat
  BY FlushedInLog DEF Extends
<1>2. \A n \in 1 .. FlushedLsn : n \in 1 .. Len(log) /\ log'[n] = log[n]
  BY <1>1 DEF Extends
<1>3. Covered(id)' <=> \E n \in 1 .. FlushedLsn : Touches(log'[n], id)
  BY DEF Covered, Touched, Touches
<1> QED
  BY <1>2, <1>3 DEF Covered, Touched

-----------------------------------------------------------------------------
(* What a step leaves of the invariant *)

\* A cache that is trusted was trusted before the file grew.
LEMMA TrustedBefore ==
    ASSUME Logging, Covering, UNCHANGED cache, FlushedLsn' = FlushedLsn,
           pageCount \in Nat, pageCount' \in Nat, pageCount <= pageCount', CacheMatches'
    PROVE  CacheMatches
<1>1. cache # None /\ cache.lsn = FlushedLsn /\ cache.pages = pageCount' /\ FlushedLsn # 0
  BY DEF CacheMatches
<1>2. cache.pages \in Nat /\ cache.pages <= pageCount
  BY <1>1 DEF Logging, Directories, Covering
<1>3. cache.pages = pageCount
  BY <1>1, <1>2
<1> QED
  BY <1>1, <1>3 DEF CacheMatches

\* Where what a checkpoint covers is left alone, the file and the cache go on holding it.
LEMMA PinnedStays ==
    ASSUME Logging, Covering, Pinned, Trusted, Extends,
           UNCHANGED <<disk, cache>>, FlushedLsn' = FlushedLsn,
           pageCount \in Nat, pageCount' \in Nat, pageCount <= pageCount',
           mode # "down", mode' # "down",
           \A x \in Records : Covered(x) => Keeps(x, directory, slots)
    PROVE  Pinned' /\ Trusted'
<1>1. \A x \in Records : Covered(x)' <=> Covered(x)
  BY CoveredStays
<1>2. \A x \in Records : Found(x)' = Found(x)
  BY DEF Found
<1>3. \A x \in Records : Covered(x) => newest(directory'[x]) = newest(directory[x])
  BY DEF Keeps
<1>4. Pinned'
  BY <1>1, <1>2, <1>3 DEF Pinned
<1>5. ASSUME CacheMatches' PROVE Trusted'
  <2>1. CacheMatches
    BY <1>5, TrustedBefore
  <2> QED
    BY <1>1, <1>2, <1>3, <2>1 DEF Trusted
<1> QED
  BY <1>4, <1>5 DEF Trusted

\* Every record answers with what the entry did to it, if anything.
Shows(e) == \A x \in Records : get(x)' = IF Touches(e, x) THEN Answer(e) ELSE get(x)

\* One entry more is accounted for, and the records show it.
LEMMA AnsweredNext ==
    ASSUME Answered, NEW m \in Nat, Applied = m, Applied' = m + 1,
           \A n \in 1 .. m : log'[n] = log[n],
           NEW e, e = log'[m + 1],
           Shows(e)
    PROVE  Answered'
<1> SUFFICES ASSUME NEW x \in Records, NEW n \in 1 .. m + 1, LastTouch(x, n, m + 1)'
             PROVE  get(x)' = Answer(log'[n])
  BY DEF Answered, Answer
<1>1. /\ Touches(log'[n], x)
      /\ \A k \in 1 .. m + 1 : Touches(log'[k], x) => k <= n
  BY DEF LastTouch, Touches
<1>2. CASE Touches(e, x)
  <2>1. m + 1 <= n
    BY <1>1, <1>2
  <2>2. n = m + 1
    BY <2>1
  <2> QED
    BY <1>2, <2>2 DEF Shows
<1>3. CASE ~ Touches(e, x)
  <2>1. n # m + 1
    BY <1>1, <1>3
  <2>2. n \in 1 .. m
    BY <2>1
  <2>3. LastTouch(x, n, m)
    <3>1. \A k \in 1 .. m : k \in 1 .. m + 1
      OBVIOUS
    <3> QED
      BY <1>1, <2>2, <3>1 DEF LastTouch
  <2>4. get(x) = Answer(log[n])
    BY <2>2, <2>3 DEF Answered
  <2> QED
    BY <1>3, <2>2, <2>4 DEF Shows
<1> QED
  BY <1>2, <1>3

\* Nothing more is accounted for, and the records show nothing else.
LEMMA AnsweredStays ==
    ASSUME Answered, Applied' = Applied, UNCHANGED log, \A x \in Records : get(x)' = get(x)
    PROVE  Answered'
BY DEF Answered, LastTouch, Touches, Answer

\* What a record answers once an entry of its own is applied.
LEMMA EntryAnswers ==
    ASSUME Shaped, Sound(directory, slots, next), NEW e \in Entries,
           \/ e.op = "put" /\ apply_put(e.id, e.val)
           \/ e.op = "del" /\ apply_delete(e.id)
           \/ e.op = "ckpt" /\ UNCHANGED vars
    PROVE  /\ Sound(directory', slots', next')
           /\ \A x \in Records : ~ Touches(e, x) => Keeps(x, directory, slots)
           /\ Shows(e)
<1>1. /\ Sound(directory', slots', next')
      /\ \A x \in Records : Touches(e, x) => get(x)' = Answer(e)
      /\ \A x \in Records : ~ Touches(e, x) => Keeps(x, directory, slots)
  <2>1. CASE e.op = "put" /\ apply_put(e.id, e.val)
    <3>1. e.id \in Records /\ e.val \in Values
      BY <2>1, EntryKinds
    <3>2. /\ Sound(directory', slots', next')
          /\ newest(directory'[e.id]) \in Locations
          /\ slots'[newest(directory'[e.id])] = [id |-> e.id, val |-> e.val]
          /\ \A x \in Records \ {e.id} : Keeps(x, directory, slots)
      BY <2>1, <3>1, PutKeepsSound
    <3>3. get(e.id)' = e.val
      <4>1. newest(directory'[e.id]) # None
        BY <3>2, MarkersAssumption DEF MarkersAssumption
      <4>2. [id |-> e.id, val |-> e.val] # Dead
        BY <3>1, MarkersAssumption DEF MarkersAssumption, Payloads
      <4> QED
        BY <3>2, <4>1, <4>2 DEF get
    <3> QED
      BY <2>1, <3>2, <3>3 DEF Touches, Answer
  <2>2. CASE e.op = "del" /\ apply_delete(e.id)
    <3>1. e.id \in Records
      BY <2>2, EntryKinds
    <3>2. /\ Sound(directory', slots', next')
          /\ newest(directory'[e.id]) = None
          /\ \A x \in Records \ {e.id} : Keeps(x, directory, slots)
      BY <2>2, <3>1, DeleteKeepsSound
    <3>3. get(e.id)' = None
      BY <3>2 DEF get
    <3> QED
      BY <2>2, <3>2, <3>3 DEF Touches, Answer
  <2>3. CASE e.op = "ckpt" /\ UNCHANGED vars
    BY <2>3 DEF Touches, Keeps, vars
  <2> QED
    BY <2>1, <2>2, <2>3
<1>2. \A x \in Records : ~ Touches(e, x) => get(x)' = get(x)
  BY <1>1, KeepsAnswer
<1> QED
  BY <1>1, <1>2 DEF Shows

-----------------------------------------------------------------------------
(* The steps *)

\* The parts of the invariant of a run that is regular, up or down.
LEMMA RegularState ==
    ASSUME RInv, CInv, Regular
    PROVE  /\ Shaped /\ Logging /\ Staged /\ Exposed /\ Described
           /\ Covering /\ Pinned /\ Trusted
           /\ mode # "down" => Sound(directory, slots, next) /\ Answered
           /\ pageCount \in Nat /\ Len(log) \in Nat /\ FlushedLsn \in 0 .. Len(log)
           /\ synced = Len(log) /\ durability = "Strict"
<1>1. pageCount \in Nat
  BY ConstantsAssumption DEF RInv, Shaped, HeapTyped, ConstantsAssumption
<1>2. synced = Len(log) /\ durability = "Strict"
  BY DEF RInv, Exposed, Regular
<1> QED
  BY <1>1, <1>2, FlushedInLog, LenProperties DEF RInv, CInv, Logging

\* An entry is written to the log and then to the pages, or read from it and replayed.
LEMMA EntryStep ==
    ASSUME RInv, RInv', CInv, Regular', UNCHANGED durability, Extends,
           NEW m \in Nat, Applied = m, Applied' = m + 1, m + 1 \in 1 .. Len(log'),
           FlushedLsn <= m,
           NEW e \in Entries, e = log'[m + 1],
           \A n \in 1 .. Len(log') : n > Len(log) => log'[n] = e /\ e.op # "ckpt",
           m <= Len(log),
           \/ e.op = "put" /\ apply_put(e.id, e.val)
           \/ e.op = "del" /\ apply_delete(e.id)
           \/ e.op = "ckpt" /\ UNCHANGED vars,
           UNCHANGED <<disk, through, cache, mode, ckpt>>, mode # "down", ckpt = "no",
           pageCount <= pageCount', mode = "replay" => pos' = m + 1
    PROVE  CInv'
<1>1. Logging' /\ pageCount' \in Nat
  BY ConstantsAssumption DEF RInv, Shaped, HeapTyped, ConstantsAssumption
<1>2. Regular
  BY <1>1, RegularBefore DEF RInv
<1>3. /\ Shaped /\ Logging /\ Covering /\ Pinned /\ Trusted
      /\ Sound(directory, slots, next) /\ Answered
      /\ pageCount \in Nat /\ Len(log) \in Nat /\ FlushedLsn \in 0 .. Len(log)
  BY <1>2, RegularState
<1>4. FlushedLsn' = FlushedLsn
  BY FlushedStays
<1>5. /\ Sound(directory', slots', next')
      /\ \A x \in Records : ~ Touches(e, x) => Keeps(x, directory, slots)
      /\ Shows(e)
  BY <1>3, EntryAnswers
<1>6. \A n \in 1 .. m : log'[n] = log[n]
  BY <1>3 DEF Extends
<1>7. Answered'
  BY <1>3, <1>5, <1>6, AnsweredNext
<1>8. \A x \in Records : Covered(x) => Keeps(x, directory, slots)
  <2>1. FlushedLsn < m + 1
    BY <1>3
  <2>2. \A x \in Records : Covered(x) => ~ Touches(e, x)
    BY <1>1, <1>3, <2>1, CoveredOnce
  <2> QED
    BY <1>5, <2>2
<1>9. Pinned' /\ Trusted'
  BY <1>1, <1>3, <1>4, <1>8, PinnedStays
<1>10. Covering'
  <2>1. ASSUME NEW n \in 1 .. Len(log'), log'[n].op = "ckpt" PROVE log'[n].flushed = n - 1
    <3>1. n \in 1 .. Len(log)
      BY <1>3, <2>1 DEF Extends
    <3> QED
      BY <1>3, <2>1, <3>1 DEF Extends, Covering
  <2>2. cache # None => cache.pages <= pageCount' /\ cache.lsn < Len(log')
    <3> SUFFICES ASSUME cache # None PROVE cache.pages <= pageCount' /\ cache.lsn < Len(log')
      OBVIOUS
    <3>1. cache.pages \in Nat /\ cache.lsn \in Nat /\ cache.pages <= pageCount /\ cache.lsn < Len(log)
      BY <1>3 DEF Logging, Directories, Covering
    <3> QED
      BY <1>1, <1>3, <3>1 DEF Extends
  <2>3. mode' = "replay" => FlushedLsn' <= pos'
    BY <1>3, <1>4
  <2> QED
    BY <2>1, <2>2, <2>3 DEF Covering
<1> QED
  BY <1>5, <1>7, <1>9, <1>10 DEF CInv

\* A reclamation of the running store, or the one that ends a recovery.
LEMMA CollapseStep ==
    ASSUME RInv, RInv', CInv, Regular', UNCHANGED durability, reclaim,
           UNCHANGED <<diskVars, ckpt>>, mode # "down", mode' = "up", ckpt = "no",
           Applied = Len(log)
    PROVE  CInv'
<1>1. pageCount' \in Nat /\ pageCount' = pageCount
  BY ConstantsAssumption DEF RInv, Shaped, HeapTyped, ConstantsAssumption, reclaim
<1>2. UNCHANGED <<disk, log, through, cache>> /\ Regular
  BY DEF diskVars, Regular, NoCheckpoint, AppendOnly
<1>3. /\ Shaped /\ Logging /\ Covering /\ Pinned /\ Trusted
      /\ Sound(directory, slots, next) /\ Answered
      /\ pageCount \in Nat /\ Len(log) \in Nat /\ FlushedLsn \in 0 .. Len(log)
  BY <1>2, RegularState
<1>4. Extends
  BY <1>2, <1>3 DEF Extends
<1>5. FlushedLsn' = FlushedLsn
  BY <1>2 DEF FlushedLsn
<1>6. Sound(directory', slots', next') /\ \A x \in Records : Keeps(x, directory, slots)
  BY <1>3, ReclaimedSound
<1>7. Pinned' /\ Trusted'
  BY <1>1, <1>2, <1>3, <1>4, <1>5, <1>6, PinnedStays
<1>8. Answered'
  <2>1. Applied' = Applied
    BY <1>2 DEF Applied
  <2>2. \A x \in Records : get(x)' = get(x)
    BY <1>6, KeepsAnswer
  <2> QED
    BY <1>2, <1>3, <2>1, <2>2, AnsweredStays
<1>9. Covering'
  BY <1>1, <1>2, <1>3 DEF Covering
<1> QED
  BY <1>6, <1>7, <1>8, <1>9 DEF CInv

\* insert, update, delete and reclaim of the running store.
LEMMA CallsAgree ==
    ASSUME RInv, RInv', CInv, Calls, UNCHANGED durability
    PROVE  CInv'
<1> SUFFICES ASSUME Regular' PROVE CInv'
  BY DEF CInv
<1>1. Shaped /\ Logging /\ Staged
  BY DEF RInv
<1>2. Running => mode = "up" /\ ckpt = "no" /\ Applied = Len(log) /\ Len(log) \in Nat
  BY <1>1, LenProperties DEF Running, Applied, Logging
<1>3. ASSUME NEW e \in Entries, e.op # "ckpt", Running, Log(e),
             UNCHANGED <<disk, through, cache, controlVars>>, pageCount <= pageCount',
             \/ e.op = "put" /\ apply_put(e.id, e.val)
             \/ e.op = "del" /\ apply_delete(e.id)
      PROVE  CInv'
  <2>1. /\ Len(log) \in Nat /\ Len(log') = Len(log) + 1
        /\ \A n \in 1 .. Len(log) : log'[n] = log[n]
        /\ log'[Len(log) + 1] = e
    BY <1>1, <1>3, LogGrows DEF Logging, Log
  <2>2. Extends /\ Len(log) + 1 \in 1 .. Len(log')
    BY <2>1 DEF Extends
  <2>3. \A n \in 1 .. Len(log') : n > Len(log) => log'[n] = e /\ e.op # "ckpt"
    <3>1. \A n \in 1 .. Len(log') : n > Len(log) => n = Len(log) + 1
      BY <2>1
    <3> QED
      BY <1>3, <2>1, <3>1
  <2>4. UNCHANGED <<mode, pos, ckpt>> /\ mode = "up" /\ ckpt = "no"
    BY <1>2, <1>3 DEF controlVars
  <2>5. Applied = Len(log) /\ Applied' = Len(log) + 1
    BY <2>1, <2>4 DEF Applied
  <2>6. FlushedLsn <= Len(log)
    BY <1>1, <2>1, FlushedInLog
  <2>7. \/ e.op = "put" /\ apply_put(e.id, e.val)
        \/ e.op = "del" /\ apply_delete(e.id)
        \/ e.op = "ckpt" /\ UNCHANGED vars
    BY <1>3
  <2> QED
    BY <1>3, <2>1, <2>2, <2>3, <2>4, <2>5, <2>6, <2>7, EntryStep
<1>4. ASSUME NEW id \in Records, NEW v \in Values, Insert(id, v) \/ Update(id, v)
      PROVE  CInv'
  <2> DEFINE e == Put(id, v)
  <2>1. /\ Running /\ Log(e) /\ apply_put(id, v)
        /\ UNCHANGED <<disk, through, cache, controlVars>>
    BY <1>4 DEF Insert, Update
  <2>2. e \in Entries /\ e.op = "put" /\ e.id = id /\ e.val = v
    BY DEF Entries, Put
  <2>3. pageCount <= pageCount'
    BY <1>1, <2>1, ShapedHeap, PutKeepsShape
  <2>4. e.op = "put" /\ apply_put(e.id, e.val)
    BY <2>1, <2>2
  <2> HIDE DEF e
  <2> QED
    BY <1>3, <2>1, <2>2, <2>3, <2>4
<1>5. ASSUME NEW id \in Records, Erase(id)
      PROVE  CInv'
  <2> DEFINE e == Delete(id)
  <2>1. /\ Running /\ Log(e) /\ apply_delete(id)
        /\ UNCHANGED <<disk, through, cache, controlVars>>
    BY <1>5 DEF Erase
  <2>2. e \in Entries /\ e.op = "del" /\ e.id = id
    BY DEF Entries, Delete
  <2>3. pageCount <= pageCount'
    <3>1. pageCount' = pageCount /\ pageCount \in Nat
      BY <1>1, <2>1, ShapedHeap, DeleteKeepsShape, ConstantsAssumption
         DEF Shaped, HeapTyped, ConstantsAssumption
    <3> QED
      BY <3>1
  <2>4. e.op = "del" /\ apply_delete(e.id)
    BY <2>1, <2>2
  <2> HIDE DEF e
  <2> QED
    BY <1>3, <2>1, <2>2, <2>3, <2>4
<1>6. CASE ReclaimVersions
  <2>1. Running /\ reclaim /\ UNCHANGED <<diskVars, mode, ckpt>>
    BY <1>6 DEF ReclaimVersions, controlVars
  <2> QED
    BY <1>2, <2>1, CollapseStep
<1> QED
  BY <1>4, <1>5, <1>6 DEF Calls

\* A page that is written back holds what a chain names there.
LEMMA FlushAgrees ==
    ASSUME RInv, RInv', CInv, UNCHANGED durability, (\E p \in PageIds : WriteBack(p)) \/ Flush
    PROVE  CInv'
<1> SUFFICES ASSUME Regular' PROVE CInv'
  BY DEF CInv
<1>1. /\ UNCHANGED vars /\ UNCHANGED <<log, synced, through, cache, mode, pos>>
      /\ mode # "down"
  BY DEF WriteBack, Flush, controlVars, Running
<1>2. Regular
  BY <1>1 DEF Regular, NoCheckpoint, AppendOnly
<1>3. /\ Shaped /\ Covering /\ Pinned /\ Trusted
      /\ Sound(directory, slots, next) /\ Answered
  BY <1>1, <1>2, RegularState
<1>4. /\ slots \in [Locations -> Payloads \cup {Dead}]
      /\ disk \in [Locations -> Payloads \cup {Dead}]
  BY <1>3 DEF Shaped, HeapTyped
<1>5. /\ \A l \in Locations : disk'[l] = disk[l] \/ disk'[l] = slots[l]
      /\ ckpt' = "flushed" => disk' = slots
  <2>1. CASE Flush
    BY <1>4, <2>1 DEF Flush
  <2>2. ASSUME NEW p \in PageIds, WriteBack(p)
        PROVE  /\ \A l \in Locations : disk'[l] = disk[l] \/ disk'[l] = slots[l]
               /\ ckpt' = "flushed" => disk' = slots
    <3>1. disk' = [l \in Locations |-> IF l.page = p THEN slots[l] ELSE disk[l]] /\ ckpt' = ckpt
      BY <2>2 DEF WriteBack, controlVars
    <3> QED
      BY <1>3, <1>4, <3>1 DEF Covering
  <2> QED
    BY <2>1, <2>2
<1>6. /\ UNCHANGED <<next, directory, slots, pageCount>>
      /\ FlushedLsn' = FlushedLsn
      /\ \A x \in Records : (Covered(x)' <=> Covered(x)) /\ get(x)' = get(x)
      /\ CacheMatches' <=> CacheMatches
  BY <1>1 DEF vars, FlushedLsn, Covered, Touched, Touches, get, CacheMatches
<1>7. ASSUME NEW x \in Records, Covered(x)
      PROVE  newest(directory[x]) \in Found(x)'
  <2>1. newest(directory[x]) \in Found(x)
    BY <1>1, <1>3, <1>7 DEF Pinned
  <2>2. /\ newest(directory[x]) \in Locations
        /\ disk[newest(directory[x])] # Dead /\ disk[newest(directory[x])].id = x
    BY <2>1 DEF Found
  <2>3. newest(directory[x]) # None
    BY <2>2, MarkersAssumption DEF MarkersAssumption
  <2>4. slots[newest(directory[x])] # Dead /\ slots[newest(directory[x])].id = x
    BY <1>3, <2>3, NewestIsOwn
  <2> QED
    BY <1>5, <2>2, <2>4 DEF Found
<1>8. Pinned'
  BY <1>6, <1>7 DEF Pinned
<1>9. Trusted'
  BY <1>1, <1>3, <1>6, <1>7 DEF Trusted
<1>10. Covering'
  BY <1>1, <1>3, <1>5, <1>6 DEF Covering
<1>11. Answered'
  BY <1>1, <1>3, <1>6, AnsweredStays DEF Applied
<1>12. Sound(directory', slots', next')
  BY <1>3, <1>6
<1> QED
  BY <1>8, <1>9, <1>10, <1>11, <1>12 DEF CInv

\* A record that a regular log of puts has touched is where its directory entry says.
LEMMA TouchedIsThere ==
    ASSUME Shaped, Logging, Sound(directory, slots, next), Answered, Applied = Len(log),
           NEW id \in Records, Touched(id, Len(log)),
           \A n \in 1 .. Len(log) : log[n].op # "del"
    PROVE  /\ newest(directory[id]) \in Locations
           /\ slots[newest(directory[id])] # Dead /\ slots[newest(directory[id])].id = id
<1> DEFINE T == {n \in 1 .. Len(log) : Touches(log[n], id)}
<1>1. Len(log) \in Nat /\ T \in SUBSET (0 .. Len(log)) /\ T # {}
  BY LenProperties DEF Logging, Touched
<1>2. PICK n \in T : \A k \in T : k <= n
  <2> HIDE DEF T
  <2> QED
    BY <1>1, NatMax
<1>3. n \in 1 .. Len(log) /\ LastTouch(id, n, Len(log))
  BY <1>2 DEF LastTouch
<1>4. get(id) = Answer(log[n])
  BY <1>3 DEF Answered
<1>5. log[n].op = "put" /\ log[n].val \in Values
  <2>1. log[n] \in Entries /\ Touches(log[n], id) /\ log[n].op # "del"
    BY <1>3, ElementOfSeq DEF Logging, LastTouch
  <2>2. log[n].op = "put"
    BY <2>1 DEF Touches, Entries, Put, Delete, Checkpoint
  <2> QED
    BY <2>1, <2>2, EntryKinds
<1>6. get(id) # None
  BY <1>4, <1>5, MarkersAssumption DEF Answer, MarkersAssumption
<1>7. newest(directory[id]) # None
  BY <1>6 DEF get
<1> QED
  BY <1>7, NewestIsOwn

\* The entry of a checkpoint covers all that was logged, and all of it has been flushed.
LEMMA LogCheckpointAgrees ==
    ASSUME RInv, RInv', CInv, LogCheckpoint, UNCHANGED durability
    PROVE  CInv'
<1> SUFFICES ASSUME Regular' PROVE CInv'
  BY DEF CInv
<1>1. /\ log' = Append(log, Checkpoint(Len(log)))
      /\ ckpt = "flushed" /\ ckpt' = "logged"
      /\ UNCHANGED vars /\ UNCHANGED <<disk, through, cache, mode, pos>>
  BY DEF LogCheckpoint
<1>2. Logging /\ Logging' /\ mode = "up"
  BY <1>1 DEF RInv, Staged
<1>3. Len(log) \in Nat /\ Checkpoint(Len(log)) \in Entries
  BY <1>2, LenProperties DEF Logging, Entries
<1>4. /\ Len(log') = Len(log) + 1
      /\ \A n \in 1 .. Len(log) : log'[n] = log[n]
      /\ log'[Len(log) + 1] = Checkpoint(Len(log))
  BY <1>1, <1>2, <1>3, LogGrows DEF Logging
<1>5. Extends
  BY <1>3, <1>4 DEF Extends
<1>6. Regular
  BY <1>2, <1>5, RegularBefore
<1>7. /\ Shaped /\ Covering /\ Pinned /\ Trusted
      /\ Sound(directory, slots, next) /\ Answered
  BY <1>2, <1>6, RegularState
<1>8. DOMAIN log' = 1 .. Len(log') /\ Len(log) + 1 \in 1 .. Len(log')
      /\ log'[Len(log) + 1].op = "ckpt" /\ log'[Len(log) + 1].flushed = Len(log)
  BY <1>2, <1>3, <1>4, LenProperties DEF Logging, Checkpoint
<1>9. AppendOnly'
  <2>1. ~ NoCheckpoint'
    BY <1>8 DEF NoCheckpoint
  <2> QED
    BY <2>1 DEF Regular
<1>10. \A n \in 1 .. Len(log) : log[n].op # "del"
  <2>1. \A n \in 1 .. Len(log') : log'[n].op # "del"
    BY <1>8, <1>9 DEF AppendOnly
  <2>2. \A n \in 1 .. Len(log) : n \in 1 .. Len(log')
    BY <1>5 DEF Extends
  <2> QED
    BY <1>4, <2>1, <2>2
<1>11. FlushedLsn' = Len(log)
  <2>1. through \in Nat \cup {None} /\ (through # None => through <= Len(log) + 1)
    <3>1. through \in 0 .. synced \cup {None} /\ synced \in 0 .. Len(log)
      BY <1>2 DEF Logging
    <3> QED
      BY <1>3, <3>1
  <2>2. \A k \in 1 .. Len(log') : k <= Len(log) + 1
    BY <1>3, <1>4
  <2>3. FlushedIn(log', through) = log'[Len(log) + 1].flushed
    BY <1>3, <1>4, <1>8, <2>1, <2>2, FlushedAt
  <2> QED
    BY <1>1, <1>8, <2>3, FlushedByName
<1>12. /\ UNCHANGED <<next, directory, slots, pageCount>>
       /\ \A x \in Records : get(x)' = get(x) /\ Found(x)' = Found(x)
  BY <1>1 DEF vars, get, Found
<1>13. Pinned'
  <2> SUFFICES ASSUME NEW x \in Records, Covered(x)'
               PROVE  newest(directory[x]) \in Found(x)
    BY <1>12 DEF Pinned
  <2>1. Touched(x, Len(log))
    BY <1>4, <1>11 DEF Covered, Touched, Touches
  <2>2. Applied = Len(log)
    BY <1>2 DEF Applied
  <2>3. /\ newest(directory[x]) \in Locations
        /\ slots[newest(directory[x])] # Dead /\ slots[newest(directory[x])].id = x
    BY <1>2, <1>7, <1>10, <2>1, <2>2, TouchedIsThere
  <2>4. disk = slots
    BY <1>1, <1>7 DEF Covering
  <2> QED
    BY <2>3, <2>4 DEF Found
<1>14. Trusted'
  <2> SUFFICES ASSUME CacheMatches' PROVE FALSE
    BY DEF Trusted
  <2>1. cache # None /\ cache.lsn = Len(log)
    BY <1>1, <1>11 DEF CacheMatches
  <2>2. cache.lsn < Len(log)
    BY <1>7, <2>1 DEF Covering
  <2> QED
    BY <1>3, <2>1, <2>2
<1>15. Covering'
  <2>1. ASSUME NEW n \in 1 .. Len(log'), log'[n].op = "ckpt" PROVE log'[n].flushed = n - 1
    <3>1. CASE n = Len(log) + 1
      BY <1>3, <1>8, <3>1
    <3>2. CASE n # Len(log) + 1
      <4>1. n \in 1 .. Len(log)
        BY <1>3, <1>4, <3>2
      <4> QED
        BY <1>4, <1>7, <2>1, <4>1 DEF Covering
    <3> QED
      BY <3>1, <3>2
  <2>2. cache # None => cache.pages <= pageCount' /\ cache.lsn < Len(log')
    <3> SUFFICES ASSUME cache # None PROVE cache.pages <= pageCount' /\ cache.lsn < Len(log')
      OBVIOUS
    <3>1. cache.lsn \in Nat /\ cache.pages <= pageCount /\ cache.lsn < Len(log)
      BY <1>2, <1>7 DEF Logging, Directories, Covering
    <3> QED
      BY <1>3, <1>4, <1>12, <3>1
  <2> QED
    BY <1>1, <1>2, <2>1, <2>2 DEF Covering
<1>16. Answered'
  <2>1. Applied = Len(log) /\ Applied' = Len(log) + 1
    BY <1>1, <1>2, <1>4 DEF Applied
  <2>2. Shows(Checkpoint(Len(log)))
    BY <1>12 DEF Shows, Touches, Checkpoint
  <2> QED
    BY <1>3, <1>4, <1>7, <2>1, <2>2, AnsweredNext
<1>17. Sound(directory', slots', next')
  BY <1>7, <1>12
<1> QED
  BY <1>13, <1>14, <1>15, <1>16, <1>17 DEF CInv

\* While a checkpoint is written down, recovery would begin at it.
LEMMA FlushedIsLast ==
    ASSUME Logging, Staged, ckpt \in {"logged", "cached"}, NEW th \in 0 .. Len(log) \cup {None}
    PROVE  FlushedIn(log, th) = Flushed /\ Len(log) \in 1 .. Len(log) /\ log[Len(log)].op = "ckpt"
<1>1. Len(log) \in Nat /\ Len(log) # 0 /\ log[Len(log)].op = "ckpt"
  BY LenProperties DEF Staged, Logging
<1>2. Len(log) \in 1 .. Len(log) /\ \A k \in 1 .. Len(log) : k <= Len(log)
  BY <1>1
<1>3. th \in Nat \cup {None} /\ (th # None => th <= Len(log))
  BY <1>1
<1>4. FlushedIn(log, th) = log[Len(log)].flushed
  BY <1>1, <1>2, <1>3, FlushedAt
<1> QED
  BY <1>1, <1>2, <1>4 DEF Flushed

\* The cache names what the checkpoint covers, and the catalog does not pass it.
LEMMA CatalogAgrees ==
    ASSUME RInv, RInv', CInv, WriteDirectory \/ WriteCatalog, UNCHANGED durability
    PROVE  CInv'
<1> SUFFICES ASSUME Regular' PROVE CInv'
  BY DEF CInv
<1>1. /\ UNCHANGED vars /\ UNCHANGED <<disk, log, synced, mode, pos>>
      /\ ckpt \in {"logged", "cached"} /\ ckpt' \in {"no", "cached"}
  BY DEF WriteDirectory, WriteCatalog
<1>2. Regular
  BY <1>1 DEF Regular, NoCheckpoint, AppendOnly
<1>3. mode = "up" /\ Logging /\ Staged /\ Described
  BY <1>1 DEF RInv, Staged
<1>4. /\ Shaped /\ Covering /\ Pinned /\ Trusted
      /\ Sound(directory, slots, next) /\ Answered
      /\ pageCount \in Nat /\ Len(log) \in Nat /\ durability = "Strict"
  BY <1>2, <1>3, RegularState
<1>5. /\ FlushedLsn = Flushed /\ FlushedLsn' = Flushed
      /\ Len(log) \in 1 .. Len(log) /\ log[Len(log)].op = "ckpt"
  <2>1. through \in 0 .. Len(log) \cup {None} /\ Flushed \in 0 .. Len(log)
    <3>1. through \in 0 .. synced \cup {None} /\ synced \in 0 .. Len(log)
      BY <1>3 DEF Logging
    <3>2. Len(log) \in 1 .. Len(log) /\ log[Len(log)].op = "ckpt"
      BY <1>1, <1>3, FlushedIsLast
    <3>3. Flushed = Len(log) - 1
      BY <1>4, <3>2 DEF Covering, Flushed
    <3> QED
      BY <1>4, <3>1, <3>2, <3>3
  <2>2. through' \in {through, Flushed}
    BY DEF WriteDirectory, WriteCatalog
  <2>3. through' \in 0 .. Len(log) \cup {None}
    BY <2>1, <2>2
  <2>4. FlushedIn(log, through) = Flushed /\ FlushedIn(log, through') = Flushed
    BY <1>1, <1>3, <2>1, <2>3, FlushedIsLast
  <2> QED
    BY <1>1, <1>3, <2>1, <2>4, FlushedByName, FlushedIsLast
<1>6. Flushed = Len(log) - 1
  BY <1>4, <1>5 DEF Covering, Flushed
<1>7. /\ UNCHANGED <<next, directory, slots, pageCount>>
      /\ \A x \in Records : get(x)' = get(x) /\ Found(x)' = Found(x)
      /\ \A x \in Records : Covered(x)' <=> Covered(x)
  BY <1>1, <1>5 DEF vars, get, Found, Covered, Touched, Touches
<1>8. Pinned'
  BY <1>1, <1>4, <1>7 DEF Pinned
<1>9. Trusted' /\ (cache' # None => cache'.pages <= pageCount' /\ cache'.lsn < Len(log'))
  <2>1. CASE cache' = cache
    <3>1. CacheMatches' <=> CacheMatches
      BY <1>5, <1>7, <2>1 DEF CacheMatches
    <3> QED
      BY <1>1, <1>4, <1>7, <2>1, <3>1 DEF Trusted, Covering
  <2>2. CASE cache' = None
    BY <2>2 DEF CacheMatches, Trusted
  <2>3. CASE cache' = directory_snapshot
    <3>1. /\ cache'.lsn = Flushed /\ cache'.pages = pageCount
          /\ \A x \in Records : cache'.locs[x] = newest(directory[x])
      BY <2>3 DEF directory_snapshot
    <3>2. ASSUME NEW x \in Records, newest(directory[x]) # None
          PROVE  Covered(x)
      <4> DEFINE p == slots[newest(directory[x])]
      <4>1. newest(directory[x]) \in Locations /\ p # Dead /\ p.id = x
        BY <1>4, <3>2, NewestIsOwn
      <4>2. Logged(p)
        BY <1>3, <1>4, <4>1 DEF Described
      <4> HIDE DEF p
      <4>3. PICK n \in 1 .. Len(log) : log[n] = Put(p.id, p.val)
        BY <4>2 DEF Logged
      <4>4. Touches(log[n], x) /\ log[n].op = "put"
        BY <4>1, <4>3 DEF Touches, Put
      <4>5. n # Len(log)
        BY <1>5, <4>4
      <4>6. n \in 1 .. FlushedLsn
        BY <1>4, <1>5, <1>6, <4>5
      <4> QED
        BY <4>4, <4>6 DEF Covered, Touched
    <3>3. Trusted'
      BY <1>1, <1>3, <1>4, <1>7, <3>1, <3>2 DEF Trusted, Pinned
    <3> QED
      BY <1>1, <1>4, <1>6, <1>7, <3>1, <3>3
  <2> QED
    BY <2>1, <2>2, <2>3 DEF WriteDirectory, WriteCatalog
<1>10. Covering'
  BY <1>1, <1>3, <1>4, <1>9 DEF Covering
<1>11. Answered'
  BY <1>1, <1>4, <1>7, AnsweredStays DEF Applied
<1>12. Sound(directory', slots', next')
  BY <1>4, <1>7
<1> QED
  BY <1>8, <1>9, <1>10, <1>11, <1>12 DEF CInv

\* Under Strict a crash takes nothing of the log, and nothing of the file or the cache ever.
LEMMA CrashAgrees ==
    ASSUME RInv, RInv', CInv, Crash, UNCHANGED durability
    PROVE  CInv'
<1> SUFFICES ASSUME Regular' PROVE CInv'
  BY DEF CInv
<1>1. /\ mode' = "down" /\ mode # "down" /\ ckpt' = "no"
      /\ UNCHANGED vars /\ UNCHANGED <<disk, through, cache>>
  BY DEF Crash
<1>2. Logging /\ Logging' /\ Len(log) \in Nat /\ synced = Len(log)
  BY LenProperties DEF RInv, Logging, Exposed, Regular
<1>3. /\ Len(log') = Len(log)
      /\ \A n \in 1 .. Len(log) : log'[n] = log[n]
  <2>1. PICK k \in synced .. Len(log) : log' = SubSeq(log, 1, k)
    BY DEF Crash
  <2>2. k = Len(log) /\ k \in 0 .. Len(log)
    BY <1>2, <2>1
  <2> QED
    BY <1>2, <2>1, <2>2, LogCut DEF Logging
<1>4. Extends
  BY <1>2, <1>3 DEF Extends
<1>5. Regular
  BY <1>2, <1>4, RegularBefore
<1>6. /\ Covering /\ Pinned /\ Trusted
  BY <1>5, RegularState
<1>7. FlushedLsn' = FlushedLsn
  <2>1. \A n \in 1 .. Len(log') : ~ (n > Len(log))
    BY <1>2, <1>3
  <2> QED
    BY <1>1, <1>4, <2>1, FlushedStays
<1>8. /\ \A x \in Records : (Covered(x)' <=> Covered(x)) /\ Found(x)' = Found(x)
      /\ CacheMatches' <=> CacheMatches
      /\ pageCount' = pageCount
  BY <1>1, <1>2, <1>4, <1>7, CoveredStays DEF vars, Found, CacheMatches
<1>9. Pinned' /\ Trusted'
  BY <1>1, <1>6, <1>8 DEF Pinned, Trusted
<1>10. Covering'
  BY <1>1, <1>3, <1>6, <1>8 DEF Covering
<1> QED
  BY <1>1, <1>9, <1>10 DEF CInv

\* A directory of at most one version a record, where the file holds the record.
LEMMA OpenedSound ==
    ASSUME NEW dir, NEW at,
           dir = [id \in Records |-> IF at[id] = None THEN <<>> ELSE <<[txn |-> 0, loc |-> at[id]]>>],
           \A id \in Records : at[id] \in Found(id) \cup {None}
    PROVE  Sound(dir, disk, 1) /\ \A id \in Records : newest(dir[id]) = at[id]
<1>1. ASSUME NEW id \in Records, at[id] = None
      PROVE  dir[id] = <<>> /\ Len(dir[id]) = 0 /\ newest(dir[id]) = None
  BY <1>1, EmptySeq DEF newest
<1>2. ASSUME NEW id \in Records, at[id] # None
      PROVE  /\ Len(dir[id]) = 1 /\ dir[id][1].txn = 0 /\ dir[id][1].loc = at[id]
             /\ newest(dir[id]) = at[id] /\ at[id] \in Found(id)
  <2>1. dir[id] = <<[txn |-> 0, loc |-> at[id]]>>
    BY <1>2
  <2>2. dir[id] # <<>> /\ Len(dir[id]) = 1 /\ dir[id][1] = [txn |-> 0, loc |-> at[id]]
    BY <2>1
  <2> QED
    BY <1>2, <2>2 DEF newest
<1>3. Sound(dir, disk, 1)
  <2> SUFFICES ASSUME NEW id \in Records, NEW i \in 1 .. Len(dir[id])
               PROVE  /\ dir[id][i].txn < 1
                      /\ dir[id][i].loc # None =>
                           /\ disk[dir[id][i].loc] # Dead /\ disk[dir[id][i].loc].id = id
                           /\ \A j \in 1 .. Len(dir[id]) : dir[id][j].loc = dir[id][i].loc => j = i
    BY DEF Sound
  <2>1. at[id] # None
    BY <1>1
  <2>2. Len(dir[id]) = 1 /\ dir[id][1].txn = 0 /\ dir[id][1].loc = at[id] /\ at[id] \in Found(id)
    BY <1>2, <2>1
  <2>3. i = 1 /\ \A j \in 1 .. Len(dir[id]) : j = 1
    BY <2>2
  <2> QED
    BY <2>2, <2>3 DEF Found
<1> QED
  BY <1>1, <1>2, <1>3

\* What recovery starts from is what the last checkpoint covers, and what else the file
\* holds is of records whose entries are still to be replayed.
LEMMA OpenAgrees ==
    ASSUME RInv, RInv', CInv, Open, UNCHANGED durability
    PROVE  CInv'
<1> SUFFICES ASSUME Regular' PROVE CInv'
  BY DEF CInv
<1>1. /\ mode = "down" /\ mode' = "replay" /\ pos' = FlushedLsn
      /\ slots' = disk /\ next' = 1
      /\ UNCHANGED <<pageCount, disk, log, through, cache, ckpt>>
  BY DEF Open, diskVars
<1> DEFINE loc(id) == IF CacheMatches THEN cache.locs[id] ELSE scan_pages(id)
           at == [id \in Records |-> loc(id)]
<1>2. directory' = [id \in Records |->
          IF at[id] = None THEN <<>> ELSE <<[txn |-> 0, loc |-> at[id]]>>]
  BY DEF Open
<1>3. Regular
  BY <1>1 DEF Regular, NoCheckpoint, AppendOnly
<1>4. /\ Logging /\ Described /\ Covering /\ Pinned /\ Trusted /\ Staged
      /\ Len(log) \in Nat /\ FlushedLsn \in 0 .. Len(log) /\ durability = "Strict"
  BY <1>3, RegularState
<1>5. \A id \in Records : /\ at[id] \in Found(id) \cup {None}
                          /\ Covered(id) => at[id] \in Found(id)
                          /\ CacheMatches => at[id] = cache.locs[id]
  <2>1. ASSUME NEW id \in Records, CacheMatches
        PROVE  /\ cache.locs[id] \in Found(id) \cup {None}
               /\ Covered(id) => cache.locs[id] \in Found(id)
    BY <1>4, <2>1 DEF Trusted
  <2>2. ASSUME NEW id \in Records
        PROVE  /\ scan_pages(id) \in Found(id) \cup {None}
               /\ Covered(id) => scan_pages(id) \in Found(id)
    BY <1>4, ScannedPlace DEF Pinned
  <2> QED
    BY <2>1, <2>2
<1> HIDE DEF loc, at
<1>6. Sound(directory', slots', next') /\ \A id \in Records : newest(directory'[id]) = at[id]
  BY <1>1, <1>2, <1>5, OpenedSound
<1>7. /\ FlushedLsn' = FlushedLsn
      /\ \A x \in Records : (Covered(x)' <=> Covered(x)) /\ Found(x)' = Found(x)
      /\ CacheMatches' <=> CacheMatches
  BY <1>1 DEF FlushedLsn, Covered, Touched, Touches, Found, CacheMatches
<1>8. Pinned'
  BY <1>4, <1>5, <1>6, <1>7 DEF Pinned
<1>9. Trusted'
  BY <1>1, <1>4, <1>5, <1>6, <1>7 DEF Trusted
<1>10. Covering'
  <2>1. FlushedLsn <= FlushedLsn
    BY <1>4
  <2>2. ckpt = "no"
    BY <1>1, <1>4 DEF Staged
  <2> QED
    BY <1>1, <1>4, <1>7, <2>1, <2>2 DEF Covering
<1>11. Answered'
  <2>1. Applied' = FlushedLsn
    BY <1>1 DEF Applied
  <2> SUFFICES ASSUME NEW x \in Records, NEW n \in 1 .. FlushedLsn, Touches(log[n], x)
               PROVE  get(x)' = Answer(log[n])
    BY <1>1, <2>1 DEF Answered, LastTouch, Touches, Answer
  <2>2. Covered(x) /\ n \in 1 .. Len(log)
    BY <1>4 DEF Covered, Touched
  <2>3. at[x] \in Locations /\ disk[at[x]] # Dead /\ disk[at[x]].id = x
    BY <1>5, <2>2 DEF Found
  <2> DEFINE p == disk[at[x]]
  <2>4. get(x)' = p.val
    <3>1. newest(directory'[x]) = at[x] /\ at[x] # None
      BY <1>6, <2>3, MarkersAssumption DEF MarkersAssumption
    <3> QED
      BY <1>1, <2>3, <3>1 DEF get
  <2>5. Logged(p)
    BY <1>4, <2>3 DEF Described
  <2>6. p.id = x
    BY <2>3
  <2> HIDE DEF p
  <2>7. PICK m \in 1 .. Len(log) : log[m] = Put(p.id, p.val)
    BY <2>5 DEF Logged
  <2>8. DOMAIN log = 1 .. Len(log)
    BY <1>4, LenProperties DEF Logging
  <2>9. AppendOnly
    <3>1. FlushedLsn # 0
      BY <1>4
    <3>2. ~ NoCheckpoint
      BY <1>4, <3>1, FlushedNever
    <3> QED
      BY <1>3, <3>2 DEF Regular
  <2>10. log[n].op = "put" /\ log[n].id = x
    <3>1. log[n] \in Entries /\ log[n].op # "del"
      BY <1>4, <2>2, <2>8, <2>9, ElementOfSeq DEF Logging, AppendOnly
    <3> QED
      BY <3>1 DEF Touches, Entries, Put, Delete, Checkpoint
  <2>11. m = n
    <3>1. log[m].op = "put" /\ log[m].id = x
      BY <2>6, <2>7 DEF Put
    <3> QED
      BY <2>2, <2>8, <2>9, <2>10, <3>1 DEF AppendOnly
  <2> QED
    BY <2>4, <2>7, <2>10, <2>11 DEF Put, Answer
<1> QED
  BY <1>6, <1>8, <1>9, <1>10, <1>11 DEF CInv

\* The next entry is replayed over what the file and the cache gave.
LEMMA ReplayAgrees ==
    ASSUME RInv, RInv', CInv, Replay, UNCHANGED durability
    PROVE  CInv'
<1> SUFFICES ASSUME Regular' PROVE CInv'
  BY DEF CInv
<1> DEFINE e == log[pos + 1]
<1>1. /\ mode = "replay" /\ pos < Len(log) /\ pos' = pos + 1
      /\ UNCHANGED <<disk, log, through, cache, mode, ckpt>>
      /\ \/ e.op = "put" /\ apply_put(e.id, e.val)
         \/ e.op = "del" /\ apply_delete(e.id)
         \/ e.op = "ckpt" /\ UNCHANGED vars
  BY DEF Replay, diskVars
<1>2. Regular
  BY <1>1 DEF Regular, NoCheckpoint, AppendOnly
<1>3. /\ Logging /\ Covering /\ Shaped /\ Staged
      /\ Len(log) \in Nat /\ FlushedLsn \in 0 .. Len(log) /\ synced = Len(log)
  BY <1>2, RegularState
<1>4. pos \in Nat /\ pos + 1 \in 1 .. Len(log)
  BY <1>1, <1>3 DEF Logging
<1>5. e \in Entries
  BY <1>3, <1>4, ElementOfSeq DEF Logging
<1>6. Extends
  BY <1>1, <1>3 DEF Extends
<1>7. Applied = pos /\ Applied' = pos + 1 /\ FlushedLsn <= pos /\ pos <= Len(log)
  BY <1>1, <1>3, <1>4 DEF Applied, Covering
<1>8. ckpt = "no" /\ mode # "down"
  BY <1>1, <1>3 DEF Staged
<1>9. \A n \in 1 .. Len(log') : n > Len(log) => log'[n] = e /\ e.op # "ckpt"
  BY <1>1, <1>3
<1>10. e = log'[pos + 1] /\ pos + 1 \in 1 .. Len(log')
  BY <1>1, <1>4
<1> HIDE DEF e
<1>11. pageCount <= pageCount'
  <2>0. pageCount \in Nat
    BY <1>3, ConstantsAssumption DEF Shaped, HeapTyped, ConstantsAssumption
  <2>1. CASE e.op = "put" /\ apply_put(e.id, e.val)
    <3>1. e.id \in Records /\ e.val \in Values
      BY <1>5, <2>1, EntryKinds
    <3> QED
      BY <1>3, <2>1, <3>1, ShapedHeap, PutKeepsShape
  <2>2. CASE e.op = "del" /\ apply_delete(e.id)
    <3>1. e.id \in Records
      BY <1>5, <2>2, EntryKinds
    <3>2. pageCount' = pageCount
      BY <1>3, <2>2, <3>1, ShapedHeap, DeleteKeepsShape
    <3> QED
      BY <2>0, <3>2
  <2>3. CASE UNCHANGED vars
    BY <2>0, <2>3 DEF vars
  <2> QED
    BY <1>1, <2>1, <2>2, <2>3
<1> QED
  BY <1>1, <1>4, <1>5, <1>6, <1>7, <1>8, <1>9, <1>10, <1>11, EntryStep

\* The chains are collapsed once every entry is accounted for.
LEMMA RecoveredAgrees ==
    ASSUME RInv, RInv', CInv, Recovered, UNCHANGED durability
    PROVE  CInv'
<1> SUFFICES ASSUME Regular' PROVE CInv'
  BY DEF CInv
<1>1. /\ mode = "replay" /\ mode' = "up" /\ pos = Len(log) /\ reclaim
      /\ UNCHANGED <<diskVars, ckpt>>
  BY DEF Recovered
<1>2. ckpt = "no" /\ Applied = Len(log)
  BY <1>1 DEF RInv, Staged, Applied
<1> QED
  BY <1>1, <1>2, CollapseStep

\* A store that has just been created.
LEMMA InitCInv ==
    ASSUME RInit
    PROVE  CInv
<1>1. /\ directory = [id \in Records |-> <<>>] /\ log = <<>> /\ cache = None
      /\ mode = "up" /\ ckpt = "no"
  BY DEF RInit, Init
<1>2. Len(log) = 0 /\ 1 .. 0 = {} /\ \A id \in Records : directory[id] = <<>> /\ Len(directory[id]) = 0
  BY <1>1, EmptySeq
<1>3. FlushedLsn = 0
  BY <1>2 DEF FlushedLsn
<1>4. Sound(directory, slots, next)
  BY <1>2 DEF Sound
<1>5. Answered
  BY <1>1, <1>2 DEF Answered, Applied
<1>6. Pinned /\ Trusted /\ Covering
  BY <1>1, <1>2, <1>3 DEF Pinned, Trusted, Covering, Covered, Touched, CacheMatches
<1> QED
  BY <1>4, <1>5, <1>6 DEF CInv

\* Every call, write-back, checkpoint step, crash and recovery step keeps it.
LEMMA NextCInv ==
    ASSUME RInv, RInv', CInv, [RNext]_rvars
    PROVE  CInv'
<1>1. CASE Calls /\ UNCHANGED durability
  BY <1>1, CallsAgree
<1>2. CASE ((\E p \in PageIds : WriteBack(p)) \/ Flush) /\ UNCHANGED durability
  BY <1>2, FlushAgrees
<1>3. CASE LogCheckpoint /\ UNCHANGED durability
  BY <1>3, LogCheckpointAgrees
<1>4. CASE (WriteDirectory \/ WriteCatalog) /\ UNCHANGED durability
  BY <1>4, CatalogAgrees
<1>5. CASE Crash /\ UNCHANGED durability
  BY <1>5, CrashAgrees
<1>6. CASE Open /\ UNCHANGED durability
  BY <1>6, OpenAgrees
<1>7. CASE Replay /\ UNCHANGED durability
  BY <1>7, ReplayAgrees
<1>8. CASE Recovered /\ UNCHANGED durability
  BY <1>8, RecoveredAgrees
<1>9. CASE UNCHANGED rvars
  <2>1. /\ UNCHANGED <<directory, slots, next, pageCount, disk, log, through, cache, mode, pos, ckpt, durability>>
    BY <1>9 DEF rvars, vars, diskVars, controlVars
  <2>2. /\ Regular' = Regular /\ FlushedLsn' = FlushedLsn /\ Applied' = Applied
        /\ \A x \in Records : (Covered(x)' <=> Covered(x)) /\ Found(x)' = Found(x) /\ get(x)' = get(x)
        /\ CacheMatches' <=> CacheMatches
    BY <2>1 DEF Regular, NoCheckpoint, AppendOnly, FlushedLsn, Applied, Covered, Touched, Touches,
       Found, get, CacheMatches
  <2>3. Covering => Covering'
    BY <2>1, <2>2 DEF Covering
  <2>4. (Pinned => Pinned') /\ (Trusted => Trusted')
    BY <2>1, <2>2 DEF Pinned, Trusted
  <2>5. Answered => Answered'
    BY <2>1, <2>2, AnsweredStays
  <2> QED
    BY <2>1, <2>2, <2>3, <2>4, <2>5 DEF CInv
<1> QED
  BY <1>1, <1>2, <1>3, <1>4, <1>5, <1>6, <1>7, <1>8, <1>9 DEF RNext

-----------------------------------------------------------------------------
(* What the log says the collection holds *)

\* The last entry of the first m that touches the record decides what it holds.
ByLast(m) ==
    [id \in Records |-> IF Touched(id, m) THEN Answer(log[CHOOSE n : LastTouch(id, n, m)]) ELSE None]

\* There is one such entry at most.
LEMMA LastTouchIs ==
    ASSUME NEW id, NEW m \in Nat, NEW n, LastTouch(id, n, m)
    PROVE  (CHOOSE k : LastTouch(id, k, m)) = n
<1> DEFINE g == CHOOSE k : LastTouch(id, k, m)
<1>1. LastTouch(id, g, m)
  OBVIOUS
<1>2. g \in 1 .. m /\ n \in 1 .. m /\ g <= n /\ n <= g
  BY <1>1 DEF LastTouch
<1> HIDE DEF g
<1>3. g = n
  BY <1>2
<1> QED
  BY <1>3 DEF g

\* ... and one if any entry touches the record.
LEMMA LastTouchExists ==
    ASSUME NEW id, NEW m \in Nat, Touched(id, m)
    PROVE  \E n \in 1 .. m : LastTouch(id, n, m)
<1> DEFINE T == {n \in 1 .. m : Touches(log[n], id)}
<1>1. T \in SUBSET (0 .. m) /\ T # {}
  BY DEF Touched
<1>2. PICK n \in T : \A k \in T : k <= n
  <2> HIDE DEF T
  <2> QED
    BY <1>1, NatMax
<1> QED
  BY <1>2 DEF LastTouch

\* One entry more changes what is held as Effect says.
LEMMA ByLastNext ==
    ASSUME log \in Seq(Entries), NEW m \in Nat, m + 1 \in 1 .. Len(log)
    PROVE  ByLast(m + 1) = Effect(ByLast(m), log[m + 1])
<1> DEFINE e == log[m + 1]
<1>1. e \in Entries
  BY ElementOfSeq
<1>2. ASSUME NEW x \in Records
      PROVE  ByLast(m + 1)[x] = IF Touches(e, x) THEN Answer(e) ELSE ByLast(m)[x]
  <2>1. CASE Touches(e, x)
    <3>1. \A k \in 1 .. m + 1 : k <= m + 1
      OBVIOUS
    <3>2. LastTouch(x, m + 1, m + 1) /\ Touched(x, m + 1)
      BY <2>1, <3>1 DEF LastTouch, Touched
    <3>3. (CHOOSE k : LastTouch(x, k, m + 1)) = m + 1
      BY <3>2, LastTouchIs
    <3> QED
      BY <2>1, <3>2, <3>3 DEF ByLast
  <2>2. CASE ~ Touches(e, x)
    <3>1. \A k \in 1 .. m + 1 : Touches(log[k], x) => k \in 1 .. m
      <4> SUFFICES ASSUME NEW k \in 1 .. m + 1, Touches(log[k], x) PROVE k \in 1 .. m
        OBVIOUS
      <4>1. k # m + 1
        BY <2>2
      <4> QED
        BY <4>1
    <3>2. \A k \in 1 .. m : k \in 1 .. m + 1
      OBVIOUS
    <3>3. Touched(x, m + 1) <=> Touched(x, m)
      BY <3>1, <3>2 DEF Touched
    <3>4. CASE Touched(x, m)
      <4>1. PICK n \in 1 .. m : LastTouch(x, n, m)
        BY <3>4, LastTouchExists
      <4>2. LastTouch(x, n, m + 1)
        BY <3>1, <3>2, <4>1 DEF LastTouch
      <4>3. (CHOOSE k : LastTouch(x, k, m)) = n /\ (CHOOSE k : LastTouch(x, k, m + 1)) = n
        BY <4>1, <4>2, LastTouchIs
      <4>4. ByLast(m)[x] = Answer(log[n])
        BY <3>4, <4>3 DEF ByLast
      <4>5. ByLast(m + 1)[x] = Answer(log[n])
        BY <3>3, <3>4, <4>3 DEF ByLast
      <4> QED
        BY <2>2, <4>4, <4>5
    <3>5. CASE ~ Touched(x, m)
      BY <2>2, <3>3, <3>5 DEF ByLast
    <3> QED
      BY <3>4, <3>5
  <2> QED
    BY <2>1, <2>2
<1>3. /\ ByLast(m) = [x \in Records |-> ByLast(m)[x]]
      /\ ByLast(m + 1) = [x \in Records |-> ByLast(m + 1)[x]]
  BY DEF ByLast
<1> HIDE DEF e
<1>4. ByLast(m + 1) = [x \in Records |-> IF Touches(e, x) THEN Answer(e) ELSE ByLast(m)[x]]
  BY <1>2, <1>3
<1>5. CASE e.op = "put"
  <2>1. e.id \in Records /\ \A x \in Records : Touches(e, x) <=> x = e.id
    BY <1>1, <1>5, EntryKinds DEF Touches
  <2>2. Answer(e) = e.val
    BY <1>5 DEF Answer
  <2>3. Effect(ByLast(m), e) = [ByLast(m) EXCEPT ![e.id] = e.val]
    BY <1>5 DEF Effect
  <2>4. [ByLast(m) EXCEPT ![e.id] = e.val] = [x \in Records |-> IF x = e.id THEN e.val ELSE ByLast(m)[x]]
    BY <1>3
  <2> QED
    BY <1>4, <2>1, <2>2, <2>3, <2>4 DEF e
<1>6. CASE e.op = "del"
  <2>1. e.id \in Records /\ \A x \in Records : Touches(e, x) <=> x = e.id
    BY <1>1, <1>6, EntryKinds DEF Touches
  <2>2. Answer(e) = None
    BY <1>6 DEF Answer
  <2>3. Effect(ByLast(m), e) = [ByLast(m) EXCEPT ![e.id] = None]
    BY <1>6 DEF Effect
  <2>4. [ByLast(m) EXCEPT ![e.id] = None] = [x \in Records |-> IF x = e.id THEN None ELSE ByLast(m)[x]]
    BY <1>3
  <2> QED
    BY <1>4, <2>1, <2>2, <2>3, <2>4 DEF e
<1>7. CASE e.op = "ckpt"
  <2>1. \A x \in Records : ~ Touches(e, x)
    BY <1>7 DEF Touches
  <2>2. Effect(ByLast(m), e) = ByLast(m)
    BY <1>7 DEF Effect
  <2> QED
    BY <1>3, <1>4, <2>1, <2>2 DEF e
<1>8. e.op \in {"put", "del", "ckpt"}
  BY <1>1 DEF Entries, Put, Delete, Checkpoint
<1> QED
  BY <1>5, <1>6, <1>7, <1>8

\* LoggedContents is defined by recursion over the log; this is the function it defines,
\* found without induction: ByLast satisfies the equation, and of two functions that do
\* neither can be the first to differ.
LEMMA ContentsByLast ==
    ASSUME log \in Seq(Entries)
    PROVE  LoggedContents = ByLast(Len(log))
<1> DEFINE Solves(h) ==
        h = [n \in 0 .. Len(log) |-> IF n = 0 THEN [id \in Records |-> None] ELSE Effect(h[n - 1], log[n])]
           g == [n \in 0 .. Len(log) |-> ByLast(n)]
           f == CHOOSE h : Solves(h)
<1>1. Len(log) \in Nat
  BY LenProperties
<1>2. LoggedContents = f[Len(log)]
  BY DEF LoggedContents
<1>3. ByLast(0) = [id \in Records |-> None]
  <2>1. \A id \in Records : ~ Touched(id, 0)
    BY DEF Touched
  <2> QED
    BY <2>1 DEF ByLast
<1>4. \A n \in 0 .. Len(log) : n # 0 => n - 1 \in 0 .. Len(log) /\ ByLast(n) = Effect(ByLast(n - 1), log[n])
  <2> SUFFICES ASSUME NEW n \in 0 .. Len(log), n # 0
               PROVE  n - 1 \in 0 .. Len(log) /\ ByLast(n) = Effect(ByLast(n - 1), log[n])
    OBVIOUS
  <2>1. PICK m \in Nat : n = m + 1
    <3>1. n - 1 \in Nat /\ n = (n - 1) + 1
      BY <1>1
    <3> QED
      BY <3>1
  <2>2. m + 1 \in 1 .. Len(log) /\ n - 1 = m /\ m \in 0 .. Len(log)
    BY <1>1, <2>1
  <2> QED
    BY <2>1, <2>2, ByLastNext
<1>5. Solves(g)
  <2>1. \A n \in 0 .. Len(log) :
          g[n] = IF n = 0 THEN [id \in Records |-> None] ELSE Effect(g[n - 1], log[n])
    BY <1>3, <1>4
  <2> QED
    BY <2>1
<1>6. Solves(f)
  <2> HIDE DEF Solves, g
  <2> QED
    BY <1>5
<1>7. \A n \in 0 .. Len(log) :
        f[n] = IF n = 0 THEN [id \in Records |-> None] ELSE Effect(f[n - 1], log[n])
  <2> HIDE DEF f
  <2> QED
    BY <1>6
<1> HIDE DEF f
<1>8. \A n \in 0 .. Len(log) : f[n] = ByLast(n)
  <2> DEFINE D == {n \in 0 .. Len(log) : f[n] # ByLast(n)}
  <2> SUFFICES ASSUME D # {} PROVE FALSE
    OBVIOUS
  <2>1. PICK n \in D : \A k \in D : n <= k
    <3>1. D \in SUBSET Nat
      BY <1>1
    <3> HIDE DEF D
    <3> QED
      BY <3>1, NatMin
  <2>2. n # 0
    BY <1>3, <1>7, <2>1
  <2>3. n - 1 \in 0 .. Len(log) /\ n - 1 \notin D
    <3>1. n \in Nat /\ ~ (n <= n - 1)
      BY <1>1, <2>1
    <3> QED
      BY <1>4, <2>1, <2>2, <3>1
  <2>4. f[n - 1] = ByLast(n - 1)
    BY <2>3
  <2> QED
    BY <1>4, <1>7, <2>1, <2>2, <2>4
<1>9. Len(log) \in 0 .. Len(log)
  BY <1>1
<1> QED
  BY <1>2, <1>8, <1>9

\* A regular store that is up answers for every record what its log says.
LEMMA RecoveredContents ==
    ASSUME RInv, CInv, Regular, mode = "up"
    PROVE  MatchesLog
<1>1. /\ Shaped /\ Logging /\ Described /\ durability = "Strict"
      /\ Sound(directory, slots, next) /\ Answered /\ Len(log) \in Nat
  BY RegularState
<1>2. Applied = Len(log)
  BY DEF Applied
<1>3. ASSUME NEW x \in Records PROVE get(x) = ByLast(Len(log))[x]
  <2>1. CASE Touched(x, Len(log))
    <3>1. PICK n \in 1 .. Len(log) : LastTouch(x, n, Len(log))
      BY <1>1, <2>1, LastTouchExists
    <3>2. get(x) = Answer(log[n])
      BY <1>1, <1>2, <3>1 DEF Answered
    <3>3. (CHOOSE k : LastTouch(x, k, Len(log))) = n
      BY <1>1, <3>1, LastTouchIs
    <3> QED
      BY <2>1, <3>2, <3>3 DEF ByLast
  <2>2. CASE ~ Touched(x, Len(log))
    <3>1. newest(directory[x]) = None
      <4> SUFFICES ASSUME newest(directory[x]) # None PROVE FALSE
        OBVIOUS
      <4> DEFINE p == slots[newest(directory[x])]
      <4>1. newest(directory[x]) \in Locations /\ p # Dead /\ p.id = x
        BY <1>1, NewestIsOwn
      <4>2. Logged(p)
        BY <1>1, <4>1 DEF Described
      <4> HIDE DEF p
      <4>3. PICK n \in 1 .. Len(log) : log[n] = Put(p.id, p.val)
        BY <4>2 DEF Logged
      <4>4. Touches(log[n], x)
        BY <4>1, <4>3 DEF Touches, Put
      <4> QED
        BY <2>2, <4>4 DEF Touched
    <3>2. get(x) = None
      BY <3>1 DEF get
    <3> QED
      BY <2>2, <3>2 DEF ByLast
  <2> QED
    BY <2>1, <2>2
<1>4. ByLast(Len(log)) = [x \in Records |-> ByLast(Len(log))[x]]
  BY DEF ByLast
<1>5. [x \in Records |-> get(x)] = ByLast(Len(log))
  BY <1>3, <1>4
<1> QED
  BY <1>1, <1>5, ContentsByLast DEF MatchesLog, Logging

\* The second inductive invariant holds of every state as well.
THEOREM RecoveryInvariance == RSpec => []CInv
<1>1. RInv /\ CInv /\ RInv' /\ [RNext]_rvars => CInv'
  BY NextCInv
<1> QED
  BY <1>1, InitCInv, CrashInvariance, PTL DEF RSpec

\* A store under Strict comes back as its log says, whatever had reached the file and wherever
\* recoveries and checkpoints were cut off: with rewrites while there is no checkpoint, and
\* with checkpoints, by cache or by scan, while every record is written once.
THEOREM ContentsAreLogged == RSpec => []ContentsMatchLog
<1>1. RInv /\ CInv => ContentsMatchLog
  BY RecoveredContents DEF Regular, ContentsMatchLog
<1> QED
  BY <1>1, CrashInvariance, RecoveryInvariance, PTL

=============================================================================
