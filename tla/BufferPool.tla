----------------------------- MODULE BufferPool -----------------------------
(***************************************************************************)
(* The page file and the buffer pool over it (adabt-storage/src/pager.rs): *)
(* bounded frames, the clock's choice of a victim, read-ahead, growing,    *)
(* shrinking and truncating, and a crash that keeps any part of what was   *)
(* written since the last fsync.                                           *)
(*                                                                         *)
(* A page's content is its version: 0 when fresh, one more after each      *)
(* change.  Page ids count from 1.  A call works in steps (one victim, one *)
(* page flushed at a time), between which only a crash may come.           *)
(***************************************************************************)
EXTENDS Naturals, Sequences, FiniteSets

CONSTANTS
    MaxFilePages,       \* bound on the pages of the file
    MaxVersion,         \* bound on the changes made to one page
    Capacities,         \* the sizes the pool is given
    RunBeforeReadAhead, \* RUN_BEFORE_READ_AHEAD
    ReadAheadPages,     \* READ_AHEAD_PAGES
    AheadShare,         \* a burst is at most 1/AheadShare of the pool
    MaxPoolCrashes

ASSUME PoolAssumption ==
    /\ Capacities \subseteq Nat \ {0} /\ AheadShare \in Nat \ {0}
    /\ MaxFilePages \in Nat /\ MaxVersion \in Nat /\ MaxPoolCrashes \in Nat
    /\ RunBeforeReadAhead \in Nat /\ ReadAheadPages \in Nat \ {0}

VARIABLES
    file,       \* the pages as the operating system holds them
    synced,     \* the pages a crash cannot take back
    frames,     \* resident page -> [v, dirty]
    capacity,
    entries,    \* the clock: <<page, referenced>> in order
    hand,       \* how many entries the hand has passed
    ahead,      \* [on, last, run]: read-ahead and the run of misses that starts it
    call,       \* [op, page, span, write]: what the pool is in the middle of
    latest,     \* ghost: page -> the version its last change left
    pool_crashes

clock == <<entries, hand>>
poolvars == <<file, synced, frames, capacity, clock, ahead, call, latest, pool_crashes>>

Pages == 1..MaxFilePages
Resident == DOMAIN frames
Idle == [op |-> "none", page |-> 0, span |-> 0, write |-> FALSE]
Smaller(a, b) == IF a <= b THEN a ELSE b
Larger(a, b) == IF a >= b THEN a ELSE b
Outside(f, s) == [p \in DOMAIN f \ s |-> f[p]]
With(f, p, x) == [q \in DOMAIN f \cup {p} |-> IF q = p THEN x ELSE f[q]]

-----------------------------------------------------------------------------
\* The clock

Tracked(es) == {es[i][1] : i \in DOMAIN es}

touch(es, p) ==
    IF p \in Tracked(es)
      THEN [i \in DOMAIN es |-> IF es[i][1] = p THEN <<p, TRUE>> ELSE es[i]]
      ELSE Append(es, <<p, TRUE>>)

\* Pages p .. p+n-1, in order.
TouchAll(es, p, n) ==
    LET t[i \in 0..n] == IF i = 0 THEN es ELSE touch(t[i - 1], p + i - 1) IN t[n]

At(h, i) == 1 + ((h + i) % Len(entries))
Start == IF hand >= Len(entries) THEN 0 ELSE hand

\* The hand passes referenced entries, clearing them, and stops at the first that is not:
\* after a whole turn, at the one it started from.
Passed ==
    LET unreferenced == {i \in 0..Len(entries) - 1 : ~entries[At(Start, i)][2]} IN
    IF unreferenced = {} THEN Len(entries)
    ELSE CHOOSE i \in unreferenced : \A j \in unreferenced : i <= j

Cleared == [i \in DOMAIN entries |->
    IF \E j \in 0..Passed - 1 : At(Start, j) = i THEN <<entries[i][1], FALSE>> ELSE entries[i]]
VictimAt == At(Start, Passed)
victim == entries[VictimAt][1]
Without(es, i) == SubSeq(es, 1, i - 1) \o SubSeq(es, i + 1, Len(es))

-----------------------------------------------------------------------------
\* Making room

Crowded == Cardinality(Resident) + call.span > capacity

\* An eviction that takes every frame for clean.
Unwritten(p) == file
Written(p) == [file EXCEPT ![p] = frames[p].v]

\* One page makes room, written back first if it changed; a clock with nothing to offer fails.
evict_one ==
    /\ call.op \in {"load", "allocate", "shrink"} /\ Crowded
    /\ IF entries = <<>>
         THEN call' = [Idle EXCEPT !.op = "failed"] /\ UNCHANGED <<file, frames, clock>>
         ELSE /\ entries' = Without(Cleared, VictimAt)
              /\ hand' = VictimAt - 1
              /\ IF victim \in Resident
                   THEN /\ frames' = Outside(frames, {victim})
                        /\ file' = IF frames[victim].dirty THEN Written(victim) ELSE file
                   ELSE UNCHANGED <<frames, file>>     \* left behind by a truncation
              /\ UNCHANGED call
    /\ UNCHANGED <<synced, capacity, ahead, latest, pool_crashes>>

-----------------------------------------------------------------------------
\* Reading and changing a page

RunAt(p) == IF ahead.last # 0 /\ ahead.last + 1 = p THEN ahead.run + 1 ELSE 1

read_ahead_span(p) ==
    IF ~ahead.on \/ RunAt(p) < RunBeforeReadAhead THEN 1
    ELSE LET quarter == Larger(capacity \div AheadShare, 1)
             remaining == Len(file) - p + 1
         IN Larger(Smaller(ReadAheadPages, Smaller(quarter, remaining)), 1)

\* get_mut hands out the page and the caller changes it before anything else happens.
Changed(fs, p) == [fs EXCEPT ![p] = [v |-> latest[p] + 1, dirty |-> TRUE]]

hit(p, write) ==
    /\ call = Idle /\ p \in Resident
    /\ write => latest[p] < MaxVersion
    /\ entries' = touch(entries, p)
    /\ frames' = IF write THEN Changed(frames, p) ELSE frames
    /\ latest' = IF write THEN [latest EXCEPT ![p] = @ + 1] ELSE latest
    /\ UNCHANGED <<file, synced, capacity, hand, ahead, call, pool_crashes>>

miss(p, write) ==
    /\ call = Idle /\ p \in 1..Len(file) \ Resident
    /\ write => latest[p] < MaxVersion
    /\ ahead' = [ahead EXCEPT !.last = p, !.run = Smaller(RunAt(p), RunBeforeReadAhead)]
    /\ call' = [op |-> "load", page |-> p, span |-> read_ahead_span(p), write |-> write]
    /\ UNCHANGED <<file, synced, frames, capacity, clock, latest, pool_crashes>>

Span == call.page..call.page + call.span - 1

\* A page already resident keeps its frame: it may hold a change the file has not seen.
Loaded == [q \in Resident \cup Span |->
    IF q \in Resident THEN frames[q] ELSE [v |-> file[q], dirty |-> FALSE]]

load ==
    /\ call.op = "load" /\ ~Crowded
    /\ entries' = touch(TouchAll(entries, call.page, call.span), call.page)
    /\ frames' = IF call.write THEN Changed(Loaded, call.page) ELSE Loaded
    /\ latest' = IF call.write THEN [latest EXCEPT ![call.page] = @ + 1] ELSE latest
    /\ call' = Idle
    /\ UNCHANGED <<file, synced, capacity, hand, ahead, pool_crashes>>

-----------------------------------------------------------------------------
\* Growing, resizing, truncating

\* The fresh page is written before there is a frame for it.
allocate ==
    /\ call = Idle /\ Len(file) < MaxFilePages
    /\ file' = Append(file, 0)
    /\ call' = [op |-> "allocate", page |-> Len(file) + 1, span |-> 1, write |-> FALSE]
    /\ latest' = Append(latest, 0)
    /\ UNCHANGED <<synced, frames, capacity, clock, ahead, pool_crashes>>

allocated ==
    /\ call.op = "allocate" /\ ~Crowded
    /\ frames' = With(frames, call.page, [v |-> 0, dirty |-> TRUE])
    /\ entries' = touch(entries, call.page)
    /\ call' = Idle
    /\ UNCHANGED <<file, synced, capacity, hand, ahead, latest, pool_crashes>>

set_capacity(n) ==
    /\ call = Idle /\ n # capacity
    /\ capacity' = n
    /\ call' = [Idle EXCEPT !.op = "shrink"]
    /\ UNCHANGED <<file, synced, frames, clock, ahead, latest, pool_crashes>>

shrunk ==
    /\ call.op = "shrink" /\ ~Crowded
    /\ call' = Idle
    /\ UNCHANGED <<file, synced, frames, capacity, clock, ahead, latest, pool_crashes>>

set_read_ahead(on) ==
    /\ call = Idle /\ on # ahead.on
    /\ ahead' = [on |-> on, last |-> 0, run |-> 0]
    /\ UNCHANGED <<file, synced, frames, capacity, clock, call, latest, pool_crashes>>

\* checkpoint and truncate_to both begin by flushing.
checkpoint ==
    /\ call = Idle
    /\ call' = [Idle EXCEPT !.op = "checkpoint"]
    /\ UNCHANGED <<file, synced, frames, capacity, clock, ahead, latest, pool_crashes>>

truncate_to(n) ==
    /\ call = Idle /\ n < Len(file)
    /\ call' = [Idle EXCEPT !.op = "truncate", !.page = n]
    /\ UNCHANGED <<file, synced, frames, capacity, clock, ahead, latest, pool_crashes>>

Dirty == {p \in Resident : frames[p].dirty}

flush_page(p) ==
    /\ call.op \in {"checkpoint", "truncate"} /\ p \in Dirty
    /\ file' = Written(p)
    /\ frames' = [frames EXCEPT ![p].dirty = FALSE]
    /\ UNCHANGED <<synced, capacity, clock, ahead, call, latest, pool_crashes>>

\* Written and not yet fsynced.
sync_nothing == synced
sync == file

checkpointed ==
    /\ call.op = "checkpoint" /\ Dirty = {}
    /\ synced' = sync
    /\ call' = Idle
    /\ UNCHANGED <<file, frames, capacity, clock, ahead, latest, pool_crashes>>

Retained == Outside(frames, {p \in Pages : p > call.page})

\* The frames go, the clock keeps their entries.
truncated ==
    /\ call.op = "truncate" /\ Dirty = {}
    /\ LET Kept(s) == SubSeq(s, 1, Smaller(call.page, Len(s))) IN
       /\ file' = Kept(file) /\ synced' = Kept(file)
       /\ latest' = Kept(latest)
    /\ frames' = Retained
    /\ call' = Idle
    /\ UNCHANGED <<capacity, clock, ahead, pool_crashes>>

\* Every write since the last fsync is kept or lost on its own; the file may have grown.
crash ==
    /\ pool_crashes < MaxPoolCrashes
    /\ pool_crashes' = pool_crashes + 1
    /\ \E n \in Len(synced)..Len(file) :
         \E f \in [1..n -> 0..MaxVersion] :
           /\ \A p \in 1..n : f[p] \in {file[p]} \cup {synced[q] : q \in {p} \cap DOMAIN synced}
           /\ file' = f /\ synced' = f /\ latest' = f
    /\ frames' = <<>> /\ entries' = <<>> /\ hand' = 0
    /\ ahead' = [on |-> FALSE, last |-> 0, run |-> 0]
    /\ call' = Idle
    /\ UNCHANGED capacity

PoolInit ==
    /\ file = <<>> /\ synced = <<>> /\ frames = <<>>
    /\ capacity \in Capacities
    /\ entries = <<>> /\ hand = 0
    /\ ahead = [on |-> FALSE, last |-> 0, run |-> 0]
    /\ call = Idle
    /\ latest = <<>> /\ pool_crashes = 0

PoolNext ==
    \/ \E p \in Pages, w \in BOOLEAN : hit(p, w) \/ miss(p, w)
    \/ evict_one \/ load \/ allocate \/ allocated \/ shrunk
    \/ \E n \in Capacities : set_capacity(n)
    \/ \E on \in BOOLEAN : set_read_ahead(on)
    \/ checkpoint \/ checkpointed
    \/ \E n \in 0..MaxFilePages : truncate_to(n)
    \/ \E p \in Pages : flush_page(p)
    \/ truncated \/ crash

PoolSpec == PoolInit /\ [][PoolNext]_poolvars

-----------------------------------------------------------------------------
\* Properties

\* A step leaves frames of known pages, entries of distinct pages and a bounded hand.
PoolTypeOK ==
    /\ file \in Seq(0..MaxVersion) /\ Len(file) <= MaxFilePages
    /\ Resident \subseteq 1..Len(file)
    /\ \A p \in Resident : frames[p] \in [v : 0..MaxVersion, dirty : BOOLEAN]
    /\ Len(entries) = Cardinality(Tracked(entries)) /\ hand <= Len(entries)
    /\ Len(latest) = Len(file)
    /\ call.op \in {"none", "load", "allocate", "shrink", "checkpoint", "truncate", "failed"}

\* Whatever was evicted, read ahead, grown or truncated, a page read now shows its last
\* change: from its frame, or from the file once it has none.
NoChangeIsLost ==
    \A p \in DOMAIN latest :
        /\ p \in Resident => frames[p].v = latest[p]
        /\ p \notin Resident => file[p] = latest[p]
        /\ file[p] # latest[p] => p \in Dirty

\* The pool never holds more pages than it was given room for, a burst of read-ahead or a
\* shrinking pool included; and it never asks for a victim the clock does not have.
RoomIsKept ==
    /\ call.op # "shrink" => Cardinality(Resident) <= capacity
    /\ call.op # "failed"
    /\ Resident \subseteq Tracked(entries)

\* A checkpoint that returns has put every page's last change beyond the reach of a
\* crash, and nothing that follows takes it back: no eviction, growth, crash or later
\* checkpoint leaves on disk an older page, and only a truncation removes one.
CheckpointHolds ==
    [][/\ call.op = "checkpoint" /\ call'.op # "checkpoint" => synced' = latest'
       /\ \A p \in DOMAIN synced :
            IF p \in DOMAIN synced' THEN synced'[p] >= synced[p] ELSE call.op = "truncate"
      ]_poolvars

\* What the pool promises its callers at any moment, in one invariant.
PoolInvariant == PoolTypeOK /\ NoChangeIsLost /\ RoomIsKept
=============================================================================
