------------------------------- MODULE Restore -------------------------------
(***************************************************************************)
(* What a database directory holds besides its pages, and what opening one *)
(* makes of it: the superblock, the catalog, the derived-structure cache   *)
(* and the unique-constraint file; checkpoints that crash part-way,        *)
(* backups, restores, and point-in-time recovery from supplied log         *)
(* segments (adabt-storage superblock.rs, metadata.rs, derived.rs, heap.rs *)
(* recover / backup_to / restore_from; adabt-engine database.rs open_at,   *)
(* checkpoint; unique.rs).                                                 *)
(*                                                                         *)
(* One collection, one index, Strict durability.  A row reaches the heap   *)
(* file at a checkpoint or, earlier, when its page is evicted; where it is *)
(* placed is CrashRecovery's subject.  Ordinary exits flush nothing, so a  *)
(* process that ends and one that crashes leave the same files.            *)
(***************************************************************************)
EXTENDS Naturals, FiniteSets, Sequences

CONSTANTS
    Dirs,           \* directories, all of them empty at first
    Ids, RowValues, Nothing,
    Evicts,         \* whether pages are written before a checkpoint
    Archives,       \* whether discarded segments are kept (set_log_archive)
    MaxDirLog,      \* bound on a directory's log
    MaxOpens, MaxCopies     \* bounds

ASSUME RestoreAssumption ==
    /\ IsFiniteSet(Ids)
    /\ Evicts \in BOOLEAN /\ Archives \in BOOLEAN
    /\ MaxDirLog \in Nat /\ MaxOpens \in Nat /\ MaxCopies \in Nat

Cells == RowValues \cup {Nothing}
RowsType == [Ids -> Cells]
CatalogType == [identity : Nat, through : Nat, field : BOOLEAN, indexed : BOOLEAN]
CacheType == [stamp : [identity : Nat, lsn : Nat, count : Nat], index : RowsType]

\* What stands for a row, a file or a directory that is not there is none of them.
ASSUME NothingAssumption ==
    /\ Nothing \notin RowValues /\ Nothing \notin Dirs
    /\ Nothing \notin CatalogType /\ Nothing \notin CacheType

VARIABLES
    dirs,       \* directory -> its files
    db,         \* the open database, or Closed
    minted,     \* identities handed out so far
    want,       \* ghost: directory -> what its users were last told
    past,       \* ghost: directory -> the rows after each of its log's entries
    murky,      \* ghost: half-made copies, directories whose pages an earlier moment's open wrote
    foreign,    \* ghost: directories given checkpoint entries about another's pages
    opens, copies

restorevars == <<dirs, db, minted, want, past, murky, foreign, opens, copies>>
ghosts == <<want, past, murky, foreign>>
bounds == <<opens, copies>>

Empty == [i \in Ids |-> Nothing]
NoRows == [rows |-> Empty, field |-> FALSE, unique |-> FALSE, indexed |-> FALSE]
NoDir == [identity |-> 0, heap |-> Empty, log |-> <<>>, first |-> 1,
          catalog |-> Nothing, derived |-> Nothing, unique |-> FALSE]
Closed == [dir |-> Nothing]
IsOpen == db # Closed

\* Entries: a row written, the clustering field declared or cleared, the index created,
\* a checkpoint of everything up to `through`.
PutEntry(i, v) == [op |-> "put", id |-> i, v |-> v]
MarkEntry(op, x) == [op |-> op, id |-> x, v |-> Nothing]

-----------------------------------------------------------------------------
\* Files

next_lsn_of(files) == Len(files.log) + 1

\* A cache that asks only where the log stands and how many rows there are.
state_stamp_unowned(files, rows) ==
    [identity |-> 0, lsn |-> next_lsn_of(files), count |-> Cardinality({i \in Ids : rows[i] # Nothing})]
state_stamp(files, rows) ==
    [identity |-> files.identity, lsn |-> next_lsn_of(files),
     count |-> Cardinality({i \in Ids : rows[i] # Nothing})]

\* derived::read: anything but an exact match is no cache.
Adopted(files, rows) ==
    IF files.derived # Nothing /\ files.derived.stamp = state_stamp(files, rows)
      THEN files.derived.index ELSE rows

\* metadata::read: a catalog of another database is no catalog.
Catalog(files) ==
    IF files.catalog # Nothing /\ files.catalog.identity = files.identity THEN files.catalog ELSE Nothing

catalog_snapshot(through) ==
    [identity |-> dirs[db.dir].identity, through |-> through, field |-> db.field, indexed |-> db.indexed]

\* Wal::start_lsn: 0 while nothing has been discarded.
start_lsn_of(files) == IF files.first <= 1 THEN 0 ELSE files.first
from_lsn(files) == IF Catalog(files) = Nothing THEN 0 ELSE Catalog(files).through

-----------------------------------------------------------------------------
\* Opening

\* A directory without a superblock is given one, with an identity nobody else has; one
\* with a superblock keeps it.
open_or_create(files) ==
    IF files.identity = 0 THEN [files EXCEPT !.identity = minted + 1] ELSE files

\* unique::read and unique::write: the constraints are a file of their own.
Constraints(files) == files.unique
write_constraints(files, on) == [files EXCEPT !.unique = on]

\* The log as recovery is given it: what is present, above the catalog, up to the target.
Seen(files, target) ==
    {l \in DOMAIN files.log : l >= files.first /\ l > from_lsn(files) /\ l <= target}

LastOf(ls) == CHOOSE l \in ls : \A k \in ls : k <= l
flushed_lsn(files, target) ==
    LET marks == {l \in Seen(files, target) : files.log[l].op = "checkpoint"} IN
    IF marks = {} THEN 0 ELSE files.log[LastOf(marks)].id

\* Pass 3: the newest write above the last checkpoint's mark, or what the pages hold.
RecoveredRows(files, target) ==
    [i \in Ids |->
        LET puts == {l \in Seen(files, target) :
                       /\ l > flushed_lsn(files, target)
                       /\ files.log[l].op = "put" /\ files.log[l].id = i}
        IN IF puts = {} THEN files.heap[i] ELSE files.log[LastOf(puts)].v]

\* Pass 1: declarations above the catalog.  The clustering field the catalog names is read
\* with it (metadata.rs:204) and not taken over (heap.rs:643).
DeclaredField(files, target) ==
    LET ds == {l \in Seen(files, target) : files.log[l].op = "field"} IN
    ds # {} /\ files.log[LastOf(ds)].id = 1
\* Index declarations taken from the log alone.
Indexed_by_log(files, target) == \E l \in Seen(files, target) : files.log[l].op = "index"
Indexed(files, target) ==
    \/ Catalog(files) # Nothing /\ Catalog(files).indexed
    \/ \E l \in Seen(files, target) : files.log[l].op = "index"

\* A log whose start is gone needs its catalog, and nothing below the catalog is left.
Refused(files, target) ==
    \/ Catalog(files) = Nothing /\ start_lsn_of(files) > 0
    \/ target < from_lsn(files)

Opened(d, files, target) ==
    LET rows == RecoveredRows(files, target) IN
    [dir |-> d, rows |-> rows, index |-> Adopted(files, rows),
     field |-> DeclaredField(files, target),
     indexed |-> Indexed(files, target), unique |-> Constraints(files),
     short |-> target < Len(files.log),
     stage |-> "none", dest |-> Nothing, through |-> 0]

\* open and open_at: a target past the end of the log is the whole log.
open_at(d, target) ==
    /\ ~IsOpen /\ opens < MaxOpens /\ opens' = opens + 1
    /\ target \in 0..Len(dirs[d].log)
    /\ LET files == open_or_create(dirs[d]) IN
       /\ ~Refused(files, target)
       /\ dirs' = [dirs EXCEPT ![d] = files]
       /\ minted' = IF files.identity > minted THEN files.identity ELSE minted
       /\ db' = Opened(d, files, target)
    /\ UNCHANGED <<ghosts, copies>>

\* The process ends, in whatever it was doing.
ends ==
    /\ IsOpen
    /\ db' = Closed
    /\ UNCHANGED <<dirs, minted, ghosts, bounds>>

-----------------------------------------------------------------------------
\* Writing

Free == IsOpen /\ db.stage = "none"
Room == Len(dirs[db.dir].log) < MaxDirLog

Logged(e) == dirs' = [dirs EXCEPT ![db.dir].log = Append(@, e)]
\* What the users of the directory know once the call returns, db' being what is open then.
Told ==
    /\ want' = [want EXCEPT ![db.dir] = [rows |-> db'.rows, field |-> db'.field,
                                        unique |-> db'.unique, indexed |-> db'.indexed]]
    /\ past' = [past EXCEPT ![db.dir] =
           IF Len(dirs'[db.dir].log) = Len(@) THEN @ ELSE Append(@, db'.rows)]
    /\ murky' = IF db.short THEN murky \cup {db.dir} ELSE murky

put(i, v) ==
    /\ Free /\ Room /\ db.rows[i] # v
    /\ Logged(PutEntry(i, v))
    /\ db' = [db EXCEPT !.rows[i] = v, !.index[i] = v]
    /\ Told /\ UNCHANGED <<minted, foreign, bounds>>

declare_cluster_field(on) ==
    /\ Free /\ Room /\ db.field # on
    /\ Logged(MarkEntry("field", IF on THEN 1 ELSE 0))
    /\ db' = [db EXCEPT !.field = on]
    /\ Told /\ UNCHANGED <<minted, foreign, bounds>>

\* The index first, then the constraint, in a file of its own.
add_unique_constraint ==
    /\ Free /\ ~db.unique
    /\ ~db.indexed => Room
    /\ LET d == db.dir
           files == IF db.indexed THEN dirs[d] ELSE [dirs[d] EXCEPT !.log = Append(@, MarkEntry("index", 0))]
       IN dirs' = [dirs EXCEPT ![d] = write_constraints(files, TRUE)]
    /\ db' = [db EXCEPT !.unique = TRUE, !.indexed = TRUE]
    /\ Told /\ UNCHANGED <<minted, foreign, bounds>>

drop_unique_constraint ==
    /\ Free /\ db.unique
    /\ dirs' = [dirs EXCEPT ![db.dir] = write_constraints(@, FALSE)]
    /\ db' = [db EXCEPT !.unique = FALSE]
    /\ Told /\ UNCHANGED <<minted, foreign, bounds>>

evict(i) ==
    /\ Evicts /\ IsOpen /\ dirs[db.dir].heap[i] # db.rows[i]
    /\ dirs' = [dirs EXCEPT ![db.dir].heap[i] = db.rows[i]]
    /\ murky' = IF db.short THEN murky \cup {db.dir} ELSE murky
    /\ UNCHANGED <<db, minted, want, past, foreign, bounds>>

-----------------------------------------------------------------------------
\* Checkpoints and backups, file by file

\* Pages, then the log entry that says they are written.
begin_checkpoint(dest) ==
    /\ Free /\ Room
    /\ LET d == db.dir IN
       /\ dirs' = [dirs EXCEPT ![d].heap = db.rows,
                               ![d].log = Append(@, MarkEntry("checkpoint", Len(dirs[d].log)))]
       /\ db' = [db EXCEPT !.stage = "flushed", !.dest = dest, !.through = Len(dirs[d].log)]
    /\ Told /\ UNCHANGED <<minted, foreign, bounds>>

write_catalog ==
    /\ IsOpen /\ db.stage = "flushed"
    /\ dirs' = [dirs EXCEPT ![db.dir].catalog = catalog_snapshot(db.through)]
    /\ db' = [db EXCEPT !.stage = "cataloged"]
    /\ UNCHANGED <<minted, ghosts, bounds>>

\* What is below the checkpoint is in segments of its own, or still in the active one.
discard_segments ==
    /\ IsOpen /\ db.stage = "cataloged"
    /\ \E first \in {dirs[db.dir].first, db.through + 1} :
         dirs' = [dirs EXCEPT ![db.dir].first = first]
    /\ db' = [db EXCEPT !.stage = IF db.dest = Nothing THEN "derive" ELSE "copy"]
    /\ UNCHANGED <<minted, ghosts, bounds>>

save_derived ==
    /\ IsOpen /\ db.stage = "derive"
    /\ dirs' = [dirs EXCEPT ![db.dir].derived =
           [stamp |-> state_stamp(dirs[db.dir], db.rows), index |-> db.index]]
    /\ db' = [db EXCEPT !.stage = "none"]
    /\ UNCHANGED <<minted, ghosts, bounds>>

\* HeapStore::backup_to: heap, log, superblock, then the catalog; no caches.
copy_store ==
    /\ IsOpen /\ db.stage = "copy"
    /\ dirs[db.dest] = NoDir
    /\ LET src == dirs[db.dir] IN
       dirs' = [dirs EXCEPT ![db.dest] =
           [NoDir EXCEPT !.identity = src.identity, !.heap = src.heap,
                         !.log = src.log, !.first = src.first]]
    /\ past' = [past EXCEPT ![db.dest] = past[db.dir]]
    /\ murky' = murky \cup {db.dest}
    /\ db' = [db EXCEPT !.stage = "copy_catalog"]
    /\ UNCHANGED <<minted, want, foreign, bounds>>

copy_catalog ==
    /\ IsOpen /\ db.stage = "copy_catalog"
    /\ dirs' = [dirs EXCEPT ![db.dest].catalog = dirs[db.dir].catalog]
    /\ db' = [db EXCEPT !.stage = "copy_unique"]
    /\ UNCHANGED <<minted, ghosts, bounds>>

copy_unique ==
    /\ IsOpen /\ db.stage = "copy_unique"
    /\ dirs' = [dirs EXCEPT ![db.dest] = IF db.unique THEN write_constraints(@, TRUE) ELSE @]
    /\ want' = [want EXCEPT ![db.dest] = want[db.dir]]
    /\ murky' = IF db.dir \in murky \cup foreign THEN murky ELSE murky \ {db.dest}
    /\ db' = [db EXCEPT !.stage = "none", !.dest = Nothing]
    /\ UNCHANGED <<minted, past, foreign, bounds>>

backup_to(dest) ==
    /\ IsOpen /\ dest # db.dir /\ dirs[dest] = NoDir
    /\ begin_checkpoint(dest)

-----------------------------------------------------------------------------
\* What operators do with directories nobody has open

\* restore_from: every file, into an empty directory.
restore_from(src, dest) ==
    /\ copies < MaxCopies /\ copies' = copies + 1
    /\ IsOpen => db.dir # src
    /\ dirs[src].identity # 0 /\ dirs[dest] = NoDir
    /\ dirs' = [dirs EXCEPT ![dest] = dirs[src]]
    /\ want' = [want EXCEPT ![dest] = want[src]]
    /\ past' = [past EXCEPT ![dest] = past[src]]
    /\ murky' = IF src \in murky THEN murky \cup {dest} ELSE murky
    /\ foreign' = IF src \in foreign THEN foreign \cup {dest} ELSE foreign
    /\ UNCHANGED <<db, minted, opens>>

\* A copy is given the segments its original went on to write, discarded ones from the
\* archive; the constraints stay those of the copy's own file.
supply_log(src, dest) ==
    /\ copies < MaxCopies /\ copies' = copies + 1
    /\ IsOpen => dest \notin {db.dir, db.dest}
    /\ src # dest /\ dirs[dest].identity # 0 /\ dirs[src].identity = dirs[dest].identity
    /\ Len(dirs[dest].log) < Len(dirs[src].log)
    /\ dirs[dest].log = SubSeq(dirs[src].log, 1, Len(dirs[dest].log))
    /\ Archives \/ dirs[src].first <= Len(dirs[dest].log) + 1
    /\ dirs' = [dirs EXCEPT ![dest].log = dirs[src].log]
    /\ want' = [want EXCEPT ![dest] = [want[src] EXCEPT !.unique = want[dest].unique]]
    /\ past' = [past EXCEPT ![dest] = past[src]]
    /\ murky' = IF src \in murky THEN murky \cup {dest} ELSE murky
    /\ foreign' = IF \/ src \in foreign
                     \/ \E l \in (Len(dirs[dest].log) + 1)..Len(dirs[src].log) :
                          dirs[src].log[l].op = "checkpoint"
                   THEN foreign \cup {dest} ELSE foreign
    /\ UNCHANGED <<db, minted, opens>>

\* A cache file of one database carried into another.
copy_cache(src, dest) ==
    /\ copies < MaxCopies /\ copies' = copies + 1
    /\ ~IsOpen /\ dirs[src].derived # Nothing
    /\ dirs[dest].identity # 0 /\ dirs[src].derived.stamp.identity # dirs[dest].identity
    /\ dirs' = [dirs EXCEPT ![dest].derived = dirs[src].derived]
    /\ UNCHANGED <<db, minted, ghosts, opens>>

RestoreInit ==
    /\ dirs = [d \in Dirs |-> NoDir] /\ db = Closed /\ minted = 0
    /\ want = [d \in Dirs |-> NoRows] /\ past = [d \in Dirs |-> <<>>]
    /\ murky = {} /\ foreign = {} /\ opens = 0 /\ copies = 0

RestoreNext ==
    \/ \E d \in Dirs, t \in 0..MaxDirLog : open_at(d, t)
    \/ ends
    \/ \E i \in Ids, v \in Cells : put(i, v)
    \/ \E on \in BOOLEAN : declare_cluster_field(on)
    \/ add_unique_constraint \/ drop_unique_constraint
    \/ \E i \in Ids : evict(i)
    \/ begin_checkpoint(Nothing)
    \/ \E dest \in Dirs : backup_to(dest)
    \/ write_catalog \/ discard_segments \/ save_derived
    \/ copy_store \/ copy_catalog \/ copy_unique
    \/ \E src, dest \in Dirs :
         restore_from(src, dest) \/ supply_log(src, dest) \/ copy_cache(src, dest)

RestoreSpec == RestoreInit /\ [][RestoreNext]_restorevars

-----------------------------------------------------------------------------
\* Properties

Sound == Dirs \ (murky \cup foreign)
RowsAt(d, l) == IF l = 0 THEN Empty ELSE past[d][l]

\* The files and the open database stay what the code can write: the log keeps its length
\* bound, every entry has a past, and a checkpoint's marks lie inside the log.
RestoreTypeOK ==
    /\ \A d \in Dirs :
         /\ dirs[d].identity \in 0..minted /\ Len(dirs[d].log) <= MaxDirLog
         /\ Len(past[d]) = Len(dirs[d].log)
         /\ dirs[d].first \in 1..(Len(dirs[d].log) + 1)
         /\ from_lsn(dirs[d]) <= Len(dirs[d].log)
         /\ dirs[d].heap \in RowsType
    /\ IsOpen => /\ db.dir \in Dirs /\ db.rows \in RowsType
                 /\ db.stage \in {"none", "flushed", "cataloged", "derive", "copy",
                                  "copy_catalog", "copy_unique"}
                 /\ dirs[db.dir].identity # 0
    /\ opens <= MaxOpens /\ copies <= MaxCopies

\* An index adopted from the derived cache describes the very rows recovery produced: the
\* stamp rejects a cache of another database, of another moment, or of a crashed checkpoint
\* (derived::read, database.rs open_with_store).
IndexMatchesRows == IsOpen => db.index = db.rows

\* However a checkpoint was cut short and whatever was copied, a whole directory can always
\* be opened: a log never loses its start before a catalog stands for it (heap.rs
\* checkpoint, recover, metadata::missing).
WholeDirectoriesOpen ==
    \A d \in Sound : ~Refused(dirs[d], Len(dirs[d].log))

\* Opening the whole log shows the rows, indexes and constraints the last user of the
\* directory was told, after any crash, backup, restore or supplied log.
ShowsWhatWasTold ==
    \A d \in Sound : open_at(d, Len(dirs[d].log)) =>
        /\ db'.rows = want[d].rows /\ db'.indexed = want[d].indexed
        /\ db'.unique = want[d].unique

\* The moment recovery takes the pages to be at.
FlushedBy(d, t) ==
    LET from == from_lsn(dirs[d]) mark == flushed_lsn(dirs[d], t) IN
    IF mark > from THEN mark ELSE from

\* Over pages that hold what recovery takes them to hold, opening at a target gives exactly
\* the rows there were after it, and a target the catalog is already past is refused.
StopsExactly ==
    \A d \in Sound, t \in 0..MaxDirLog :
        open_at(d, t) /\ dirs[d].heap = RowsAt(d, FlushedBy(d, t)) => db'.rows = RowsAt(d, t)

\* What opening a directory shows, at its end or at a moment before it.
OpensAreExact == [][ShowsWhatWasTold /\ StopsExactly]_restorevars

\* What directories and an open database promise in every state.
RestoreInvariant == RestoreTypeOK /\ IndexMatchesRows /\ WholeDirectoriesOpen

\* What RecoverTarget and tests/backup.rs:287 say, of any directory: everything before the
\* moment, nothing after it.  Pages written since the moment are not taken back.
RestoreStopsAtTarget ==
    [][\A d \in Sound, t \in 0..MaxDirLog :
          open_at(d, t) => db'.rows = RowsAt(d, t)]_restorevars

\* What heap.rs:144 says of a declared clustering field: it survives restarts through
\* replay and the catalog.  The catalog records it and nothing reads it back.
DeclarationsSurvive ==
    [][\A d \in Sound : open_at(d, Len(dirs[d].log)) =>
          db'.field = want[d].field]_restorevars

\* What tests/backup_restore.rs:238 says of a backup and the segments archived since: its
\* opening replays them.  A checkpoint among them is taken for one of the copy's own pages
\* (heap.rs:566), and what it covers is skipped.
SuppliedLogIsReplayed ==
    [][\A d \in Dirs \ murky : open_at(d, Len(dirs[d].log)) => db'.rows = want[d].rows]_restorevars
=============================================================================
