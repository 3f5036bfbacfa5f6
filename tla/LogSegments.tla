---------------------------- MODULE LogSegments ----------------------------
(***************************************************************************)
(* The write-ahead log on disk (crates/adabt-storage/src/wal.rs): a         *)
(* directory of segment files, appended to, sealed and rotated, discarded   *)
(* below a checkpoint, and read back after a crash.                         *)
(*                                                                         *)
(* A frame is an entry or Torn, bytes in which no entry can be decoded.     *)
(* Frames past `synced` are in the writer's buffer or the page cache: a     *)
(* crash keeps any prefix of them and may tear the next.  Writes can fail.  *)
(***************************************************************************)
EXTENDS Naturals, SequencesExt, FiniteSetsExt

CONSTANTS
    Torn,
    SegmentFrames,      \* frames after which a segment is sealed (segment_bytes)
    SyncGroup,          \* group_size
    Durabilities,       \* subset of {"Strict", "GroupCommit", "Relaxed"}
    MaxLsn, MaxBatch, MaxLogCheckpoints, MaxLogCrashes, MaxFaults   \* bounds

\* What the constants must satisfy; a module that gives them values assumes it.
LogAssumption ==
    /\ SegmentFrames \in Nat \ {0} /\ SyncGroup \in Nat \ {0}
    /\ Durabilities \subseteq {"Strict", "GroupCommit", "Relaxed"}
    /\ {MaxLsn, MaxBatch, MaxLogCheckpoints, MaxLogCrashes, MaxFaults} \subseteq Nat
    /\ Torn \notin [lsn : Nat, op : Nat]

VARIABLES
    log_durability,
    files,       \* first_lsn -> the segment file of that name on disk
    archived,    \* the segment files moved to the archive directory
    segs,        \* Wal::segments, by first_lsn; the highest is the active one
    next_lsn, start_lsn, pending,
    up,          \* the log is open
    flushed,     \* the checkpoint in progress: its flushed_lsn, 0 when there is none
    stage,       \* "idle", or what that checkpoint does next: "catalog", "discard"
    doomed,      \* the segments discard_below has still to remove
    catalog_through, \* through_lsn of the catalog on disk
    waiting,     \* ops appended by the caller and not yet committed
    acked,       \* history: ops whose commit returned Ok
    trusted,     \* history: those of them from before the first failed write
    written,     \* history: ops of every entry appended, failed calls included
    faults,      \* whether a failed write, rotation or discard has left something on disk
    budget       \* [crashes, checkpoints, faults]: what is left of the bounds

walVars == <<log_durability, files, archived, segs, next_lsn, start_lsn, pending, up, flushed,
             stage, doomed, catalog_through, waiting, acked, trusted, written, faults, budget>>

IsEntry(f) == f # Torn

\* A segment file: whether its header can be read, its frames, and how many are stable.
File(frames, synced) == [header |-> TRUE, frames |-> frames, synced |-> synced]
NoFile == [header |-> FALSE, frames |-> <<>>, synced |-> 0]

With(d, l, f) == [x \in DOMAIN d \cup {l} |-> IF x = l THEN f ELSE d[x]]
Without(d, S) == [x \in DOMAIN d \ S |-> d[x]]

active == Max(segs)

\* decode_frames / intact_prefix_len: stop at the first damaged frame.
Intact(frames) ==
    LET bad == {i \in DOMAIN frames : ~ IsEntry(frames[i])}
    IN  IF bad = {} THEN frames ELSE SubSeq(frames, 1, Min(bad) - 1)

\* The files whose header checks out.
list_segments(d) == {l \in DOMAIN d : d[l].header}

\* A segment is skipped when the next one starts at or below from.
entries_from(d, from) ==
    LET needed == {l \in list_segments(d) :
                     \A next \in list_segments(d) : l < next => from < next}
    IN  UNION {{e \in ToSet(Intact(d[l].frames)) : e.lsn >= from} : l \in needed}

\* Every entry, segment after segment.
read_all(d) ==
    LET s == SetToSortSeq(list_segments(d), <)
    IN  FlattenSeq([i \in DOMAIN s |-> Intact(d[s[i]].frames)])

\* The least a crash can leave of the files.
Stable(d) == [l \in DOMAIN d |-> [d[l] EXCEPT !.frames = SubSeq(@, 1, d[l].synced)]]

-----------------------------------------------------------------------------
LogInit ==
    /\ log_durability \in Durabilities
    /\ files = [l \in {1} |-> File(<<>>, 0)] /\ segs = {1}
    /\ archived = {} /\ next_lsn = 1 /\ start_lsn = 0 /\ pending = 0
    /\ up = TRUE /\ flushed = 0 /\ stage = "idle" /\ doomed = {} /\ catalog_through = 0
    /\ waiting = {} /\ acked = {} /\ trusted = {} /\ written = <<>> /\ faults = FALSE
    /\ budget = [crashes |-> MaxLogCrashes, checkpoints |-> MaxLogCheckpoints, faults |-> MaxFaults]

Full(frames) == Len(frames) >= SegmentFrames

\* The frame is in the buffer; a full segment is flushed and synced, and the next
\* one begun at the next lsn.  pending is not reset.
Written(e) ==
    LET frames == Append(files[active].frames, e)
    IN  IF Full(frames)
        THEN /\ files' = With(With(files, active, File(frames, Len(frames))),
                              next_lsn + 1, File(<<>>, 0))
             /\ segs' = segs \cup {next_lsn + 1}
        ELSE files' = [files EXCEPT ![active].frames = frames] /\ UNCHANGED segs

NewEntry == [lsn |-> next_lsn, op |-> Len(written) + 1]

append ==
    /\ up /\ stage = "idle" /\ next_lsn < MaxLsn /\ Cardinality(waiting) < MaxBatch
    /\ Written(NewEntry)
    /\ next_lsn' = next_lsn + 1 /\ pending' = pending + 1
    /\ waiting' = waiting \cup {NewEntry.op}
    /\ written' = Append(written, NewEntry)
    /\ UNCHANGED <<log_durability, archived, start_lsn, up, flushed, stage, doomed,
                   catalog_through, acked, trusted, faults, budget>>

Fault == /\ budget.faults > 0 /\ budget' = [budget EXCEPT !.faults = @ - 1]

\* The entry is too large, or a write fails before or in the middle of the frame: the
\* lsn is gone, and part of the frame may stay in front of what is appended next.
append_fails ==
    /\ up /\ stage = "idle" /\ next_lsn < MaxLsn /\ Fault
    /\ next_lsn' = next_lsn + 1 /\ waiting' = {}
    /\ \/ UNCHANGED <<files, faults>>
       \/ /\ files' = [files EXCEPT ![active].frames = Append(@, Torn)]
          /\ faults' = TRUE
    /\ UNCHANGED <<log_durability, archived, segs, start_lsn, pending, up, flushed, stage, doomed,
                   catalog_through, acked, trusted, written>>

\* The entry is written and sealed, and the next segment is not, or not entirely,
\* created: its header may be on disk or not.
half_rotated ==
    /\ up /\ stage = "idle" /\ next_lsn < MaxLsn
    /\ LET frames == Append(files[active].frames, NewEntry) IN
       /\ Full(frames)
       /\ \E header \in BOOLEAN :
            files' = With(With(files, active, File(frames, Len(frames))),
                          next_lsn + 1, IF header THEN File(<<>>, 0) ELSE NoFile)
    /\ next_lsn' = next_lsn + 1 /\ pending' = pending + 1 /\ waiting' = {}
    /\ written' = Append(written, NewEntry)
    /\ UNCHANGED <<log_durability, archived, segs, start_lsn, flushed, stage, doomed,
                   catalog_through, acked, trusted>>

\* The caller is told that the append failed, and the log goes on.
rotate_fails == half_rotated /\ Fault /\ faults' = TRUE /\ UNCHANGED up


\* Flush and fsync the active segment.
Synced == [files EXCEPT ![active].synced = Len(files[active].frames)]

SyncsNow == log_durability = "Strict" \/ (log_durability = "GroupCommit" /\ pending >= SyncGroup)

commit ==
    /\ up /\ stage = "idle" /\ waiting # {}
    /\ IF SyncsNow THEN files' = Synced /\ pending' = 0 ELSE UNCHANGED <<files, pending>>
    /\ acked' = acked \cup waiting /\ waiting' = {}
    /\ trusted' = IF faults THEN trusted ELSE trusted \cup waiting
    /\ UNCHANGED <<log_durability, archived, segs, next_lsn, start_lsn, up, flushed, stage,
                   doomed, catalog_through, written, faults, budget>>

\* The flush or the fsync fails: the caller is told, the frames stay where they are.
commit_fails ==
    /\ up /\ stage = "idle" /\ waiting # {} /\ Fault /\ log_durability # "Relaxed"
    /\ waiting' = {}
    /\ UNCHANGED <<log_durability, files, archived, segs, next_lsn, start_lsn, pending, up,
                   flushed, stage, doomed, catalog_through, acked, trusted, written, faults>>

-----------------------------------------------------------------------------
(* HeapStore::checkpoint, as far as the log goes.                            *)

\* The pages are on disk: a Checkpoint entry naming the lsn before it, and a sync.
checkpoint ==
    /\ up /\ stage = "idle" /\ waiting = {} /\ next_lsn < MaxLsn
    /\ budget.checkpoints > 0 /\ budget' = [budget EXCEPT !.checkpoints = @ - 1]
    /\ flushed' = next_lsn - 1 /\ stage' = "catalog"
    /\ LET frames == Append(files[active].frames, NewEntry) IN
       IF Full(frames)
       THEN /\ files' = With(With(files, active, File(frames, Len(frames))),
                             next_lsn + 1, File(<<>>, 0))
            /\ segs' = segs \cup {next_lsn + 1}
       ELSE files' = With(files, active, File(frames, Len(frames))) /\ UNCHANGED segs
    /\ next_lsn' = next_lsn + 1 /\ pending' = 0
    /\ written' = Append(written, NewEntry)
    /\ UNCHANGED <<log_durability, archived, start_lsn, up, doomed, catalog_through, waiting,
                   acked, trusted, faults>>

\* discard_below: the segments whose successor starts at or before catalog_through + 1.
Removable(last) == {l \in segs : \E next \in segs : l < next /\ next <= last + 1}

\* The segments to go leave the list at once, their files one by one.
discard_below(last) ==
    /\ doomed' = Removable(last) /\ segs' = segs \ Removable(last)
    /\ stage' = IF Removable(last) = {} THEN "idle" ELSE "discard"

\* The segments go before the catalog that covers them is on disk.
catalog_later ==
    /\ up /\ stage = "catalog"
    /\ discard_below(flushed) /\ flushed' = 0
    /\ UNCHANGED <<log_durability, files, archived, next_lsn, start_lsn, pending, up,
                   catalog_through, waiting, acked, trusted, written, faults, budget>>

catalog_written ==
    /\ up /\ stage = "catalog"
    /\ catalog_through' = flushed /\ discard_below(flushed) /\ flushed' = 0
    /\ UNCHANGED <<log_durability, files, archived, next_lsn, start_lsn, pending, up, waiting,
                   acked, trusted, written, faults, budget>>

\* One file, oldest first, is moved to the archive.
discard_one ==
    /\ up /\ stage = "discard" /\ doomed # {}
    /\ archived' = archived \cup {files[Min(doomed)]}
    /\ files' = Without(files, {Min(doomed)})
    /\ doomed' = doomed \ {Min(doomed)}
    /\ UNCHANGED <<log_durability, segs, next_lsn, start_lsn, pending, up, flushed, stage,
                   catalog_through, waiting, acked, trusted, written, faults, budget>>

\* Neither renaming nor copying works: the rest stays on disk, off the list.
discard_fails ==
    /\ up /\ stage = "discard" /\ doomed # {} /\ Fault
    /\ doomed' = {} /\ stage' = "idle" /\ faults' = TRUE
    /\ UNCHANGED <<log_durability, files, archived, segs, next_lsn, start_lsn, pending, up,
                   flushed, catalog_through, waiting, acked, trusted, written>>

checkpointed ==
    /\ up /\ stage = "discard" /\ doomed = {}
    /\ start_lsn' = Min(segs)
    /\ stage' = "idle"
    /\ UNCHANGED <<log_durability, files, archived, segs, next_lsn, pending, up, flushed, doomed,
                   catalog_through, waiting, acked, trusted, written, faults, budget>>

-----------------------------------------------------------------------------
\* The machine stops.  Each file keeps its synced frames and some prefix of the rest,
\* and the frame after that may be cut in two.
crash ==
    /\ up /\ budget.crashes > 0 /\ budget' = [budget EXCEPT !.crashes = @ - 1]
    /\ up' = FALSE /\ waiting' = {} /\ stage' = "idle" /\ flushed' = 0 /\ doomed' = {}
    /\ \E keep \in files[active].synced .. Len(files[active].frames), torn \in BOOLEAN :
         /\ torn => keep < Len(files[active].frames)
         /\ LET left == SubSeq(files[active].frames, 1, keep) \o (IF torn THEN <<Torn>> ELSE <<>>)
            IN  files' = [files EXCEPT ![active] = File(left, Len(left))]
    /\ UNCHANGED <<log_durability, archived, segs, next_lsn, start_lsn, pending, catalog_through,
                   acked, trusted, written, faults>>

crash_in_rotate ==
    /\ half_rotated /\ up' = FALSE /\ UNCHANGED faults
    /\ budget.crashes > 0 /\ budget' = [budget EXCEPT !.crashes = @ - 1]

\* The number the next entry of segment l takes, and where l begins.
lsn_of_segment(l, good) == l
lsn_after(l, good) == IF good = <<>> THEN l ELSE Last(good).lsn + 1

\* Wal::open: the last readable segment is cut to its intact prefix and appended to.
open_log ==
    /\ ~ up /\ up' = TRUE
    /\ LET found == list_segments(files)
           good == Intact(files[Max(found)].frames)
       IN  /\ segs' = found
           /\ files' = With(files, Max(found), File(good, Len(good)))
           /\ next_lsn' = lsn_after(Max(found), good)
           /\ start_lsn' = IF Min(found) <= 1 THEN 0 ELSE Min(found)
    /\ pending' = 0
    /\ UNCHANGED <<log_durability, archived, flushed, stage, doomed, catalog_through, waiting,
                   acked, trusted, written, faults, budget>>

LogNext ==
    \/ append \/ append_fails \/ rotate_fails \/ commit \/ commit_fails
    \/ checkpoint \/ catalog_written \/ discard_one \/ discard_fails \/ checkpointed
    \/ crash \/ crash_in_rotate \/ open_log

LogSpec == LogInit /\ [][LogNext]_walVars
-----------------------------------------------------------------------------
\* Type invariant; and without failed writes nothing still to come is taken for
\* covered by the checkpoint, the list of segments is the end of what is on disk,
\* the entries of a segment lie between its first lsn and the next segment's.
LogTypeOK ==
    /\ up => segs # {} /\ segs \subseteq DOMAIN files /\ next_lsn >= active
    /\ start_lsn <= next_lsn /\ (~ faults /\ up => catalog_through < next_lsn)
    /\ stage \in {"idle", "catalog", "discard"}
    /\ \A l \in DOMAIN files : files[l].synced <= Len(files[l].frames)
    /\ ~ faults /\ up => /\ segs \subseteq list_segments(files)
                        /\ \A l \in segs, old \in list_segments(files) \ segs : old < l
    /\ ~ faults => \A l \in segs : \A e \in ToSet(Intact(files[l].frames)) :
         l <= e.lsn /\ \A next \in segs : l < next => e.lsn < next

Reads(d, from) == {e.op : e \in entries_from(d, from)}

LsnOf(op) == written[op].lsn

\* Under Strict an entry acknowledged before anything had failed is never lost: the
\* checkpoint on disk covers it, or recovery, reading from that checkpoint, finds it,
\* whatever fails, is rotated or is discarded later and wherever the machine stops.
AcknowledgedEntriesSurvive ==
    log_durability = "Strict" => \A op \in trusted :
        LsnOf(op) <= catalog_through \/ op \in Reads(Stable(files), catalog_through)

\* Every acknowledged entry is found again, failed writes or not ("A half-written entry
\* was never acknowledged, so dropping it is correct", Wal::open).
EveryAcknowledgedEntrySurvives ==
    log_durability = "Strict" => \A op \in acked :
        LsnOf(op) <= catalog_through \/ op \in Reads(Stable(files), catalog_through)

\* The archive and the log together still hold every entry that was acknowledged
\* before a failure, which is what a restore to an earlier time replays.
ArchiveIsComplete ==
    log_durability = "Strict" => \A op \in trusted :
        \/ op \in Reads(Stable(files), 0)
        \/ \E a \in archived : op \in {e.op : e \in ToSet(Intact(a.frames))}

\* A crash under GroupCommit loses fewer acknowledged entries than a group holds,
\* whatever was rotated in between ("a crash loses at most one group", commit).
GroupLossBounded ==
    log_durability = "GroupCommit" /\ ~ faults /\ up =>
        Cardinality({op \in acked : op \in Reads(files, 0) \ Reads(Stable(files), 0)}) < SyncGroup

\* What a log in segments promises, in one invariant.
LogInvariant ==
    LogTypeOK /\ AcknowledgedEntriesSurvive /\ ArchiveIsComplete /\ GroupLossBounded

\* One log, as its segments are read: LogStep is what a step of them may do to it.
Acknowledged == INSTANCE LogStore WITH
    entries <- read_all(files),
    durable <- Len(read_all(Stable(files))),
    covered <- catalog_through

LogStep == faults' \/ Acknowledged!LNext
=============================================================================
