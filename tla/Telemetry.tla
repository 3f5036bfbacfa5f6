------------------------------ MODULE Telemetry ------------------------------
(***************************************************************************)
(* What the optimizer knows of the workload: the collecting probe of        *)
(* adabt-telemetry.  A query or a read emits events, one lock at a time,    *)
(* into the shard of the thread that runs it; the optimizer's cycle and any *)
(* thread that holds `Database::probe` walk the shards one lock at a time,  *)
(* to add them up, to forget a quarter of them, or to clear them.  The      *)
(* database is used by one thread at a time, so an optimizer cycle never    *)
(* meets a query, but a monitor's walk interleaves with both.               *)
(***************************************************************************)
EXTENDS Integers, Sequences, FiniteSets, Functions, FiniteSetsExt, SequencesExt

CONSTANTS Shards,       \* the shards in use: 1 .. the number of threads
          Queries,      \* [equal, other, ranged, projected, indexed]: sets of fields
          Gets,         \* records that point reads ask for
          Durations,    \* what an operation may take
          Slot,         \* the cell a record hashes to, in each row of the sketch
          SUB_BITS,     \* bits of a duration the histogram keeps
          WordBits,     \* bits of a duration
          Interval,     \* the sketch halves itself after so many observations
          STRIDE,       \* every so many reads one is reported as a touch
          Decay,        \* TELEMETRY_DECAY: <<numerator, denominator>>
          MIN_QUERIES,  \* counted so often, a workload is worth a proposal
          MaxCalls,     \* bound: how many queries, reads or writes a workload makes
          MaxWalks      \* bound: walks a monitor makes

\* What the constants must satisfy; a module that gives them values assumes it.
TelemetryAssumption ==
    /\ IsFiniteSet(Shards) /\ Shards = 1 .. Cardinality(Shards)
    /\ Decay \in Nat \X Nat /\ Decay[1] < Decay[2]
    /\ Durations \subseteq 0 .. 2^WordBits - 1
    /\ \A id \in Gets : DOMAIN Slot[id] # {}
    /\ \A q \in Queries :
          /\ IsFiniteSet(q.equal) /\ IsFiniteSet(q.other) /\ IsFiniteSet(q.projected)
          /\ q.ranged \cup q.indexed \subseteq q.equal \cup q.other

Fields == UNION {q.equal \cup q.other \cup q.projected : q \in Queries}
Keys ==
    ({"filters", "equality", "used", "maintained"} \X Fields)
      \cup ({"pinned"} \X {q.equal : q \in Queries})
      \cup ({"covers"} \X Fields \X {q.projected \ {f} : q \in Queries, f \in Fields} \X BOOLEAN)
      \cup ({"calls"} \X {"get", "scan"})

VARIABLES shards,       \* what each shard has counted
          call,         \* the call under way: its thread, and the events it still has to record
          touch_sample, \* reads since one was reported, modulo the stride
          walks,        \* what the optimizer and a monitor are doing with the shards
          workload,     \* what the application does, "query", "get" or "write", and
          calls,        \* how often it has done it
          walked        \* walks a monitor made

tvars == <<shards, call, touch_sample, walks, workload, calls, walked>>

----------------------------------------------------------------------------
(* The histogram: log-linear buckets. *)

SUB == 2^SUB_BITS
Octave(v) == CHOOSE o \in 0 .. WordBits - 1 : 2^o <= v /\ v < 2^(o + 1)
bucket(v) ==
    IF v < SUB THEN v
    ELSE LET shift == Octave(v) - SUB_BITS
         IN (Octave(v) - SUB_BITS + 1) * SUB + v \div 2^shift - SUB
Buckets == 0 .. bucket(2^WordBits - 1)
value_at(i) == IF i < SUB THEN i ELSE (SUB + (i % SUB)) * 2^(i \div SUB - 1)

Least(a, b) == IF a <= b THEN a ELSE b
Most(a, b) == IF a >= b THEN a ELSE b

\* `samples` is a ghost, as is `touched` below: the multiset the buckets stand for.
Histogram == [counts |-> [i \in Buckets |-> 0], count |-> 0, min |-> 2^WordBits - 1,
              max |-> 0, samples |-> [v \in Durations |-> 0]]
observe_duration(h, v) ==
    [counts |-> [h.counts EXCEPT ![bucket(v)] = @ + 1], count |-> h.count + 1,
     min |-> Least(h.min, v), max |-> Most(h.max, v), samples |-> [h.samples EXCEPT ![v] = @ + 1]]
Sum(f, g) == [k \in DOMAIN f |-> f[k] + g[k]]
merge_keeping_min(h, g) ==
    [counts |-> Sum(h.counts, g.counts), count |-> h.count + g.count, min |-> h.min,
     max |-> Most(h.max, g.max), samples |-> Sum(h.samples, g.samples)]
merge_histograms(h, g) ==
    [counts |-> Sum(h.counts, g.counts), count |-> h.count + g.count,
     min |-> Least(h.min, g.min), max |-> Most(h.max, g.max), samples |-> Sum(h.samples, g.samples)]

Target(h, p) == Most(1, (p * h.count + 99) \div 100)
percentile(h, p) ==
    LET Upto(i) == FoldFunctionOnSet(+, 0, h.counts, 0 .. i)
    IN Most(value_at(CHOOSE i \in Buckets : /\ Upto(i) >= Target(h, p)
                                            /\ h.counts[i] > 0
                                            /\ Upto(i) - h.counts[i] < Target(h, p)), h.min)

----------------------------------------------------------------------------
(* The temperature sketch: a count-min sketch that halves itself. *)

Rows == DOMAIN Slot[CHOOSE id \in Gets : TRUE]
Sketch == [counts |-> [cell \in {<<r, Slot[id][r]>> : id \in Gets, r \in Rows} |-> 0],
           observations |-> 0, touched |-> [id \in Gets |-> 0]]
decay_sketch(t) ==
    [t EXCEPT !.counts = [c \in DOMAIN @ |-> @[c] \div 2],
              !.touched = [id \in Gets |-> @[id] \div 2]]
observe(t, id) ==
    LET counted == [counts |-> [c \in DOMAIN t.counts |->
                                  t.counts[c] + IF Slot[id][c[1]] = c[2] THEN 1 ELSE 0],
                    observations |-> t.observations + 1,
                    touched |-> [t.touched EXCEPT ![id] = @ + 1]]
    IN IF counted.observations % Interval = 0 THEN decay_sketch(counted) ELSE counted
merge_sketches(t, u) ==
    [counts |-> Sum(t.counts, u.counts), observations |-> t.observations + u.observations,
     touched |-> Sum(t.touched, u.touched)]
estimate(t, id) == Min({t.counts[<<r, Slot[id][r]>>] : r \in Rows})

----------------------------------------------------------------------------
(* Shards, and what a call records in them. *)

Shard == [count |-> [k \in Keys |-> 0], latency |-> Histogram, temperature |-> Sketch]

\* `record`: one event, under the lock of one shard.
record(s, ev) ==
    CASE ev.kind = "op" ->
             [s EXCEPT !.count[<<"calls", "scan">>] = @ + 1, !.latency = observe_duration(@, ev.nanos)]
      [] ev.kind = "touch" -> [s EXCEPT !.temperature = observe(@, ev.id)]
      [] ev.kind = "filtered" ->
             [s EXCEPT !.count = [k \in Keys |-> @[k] +
                 IF k = <<"filters", ev.field>> \/ (ev.equality /\ k = <<"equality", ev.field>>)
                 THEN 1 ELSE 0]]
      [] ev.kind = "count" -> [s EXCEPT !.count[ev.key] = @ + 1]

\* What `note_filtered_fields` has a query record: every field its filter reads, the set
\* of fields pinned to literals when there are two, and for a projecting query the fields
\* each filtered field would have to carry.
Filtered(q) ==
    [i \in 1 .. Cardinality(q.equal \cup q.other) |->
        LET f == SetToSeq(q.equal \cup q.other)[i]
        IN [kind |-> "filtered", field |-> f, equality |-> f \in q.equal]]
Together(q) ==
    (IF Cardinality(q.equal) > 1 THEN {<<"pinned", q.equal>>} ELSE {})
      \cup {<<"covers", f, q.projected \ {f}, f \in q.equal>> :
              f \in IF q.projected = {} THEN {}
                    ELSE {g \in q.equal \cup q.ranged : q.projected \ {g} # {}}}
Count(keys) == [i \in 1 .. Cardinality(keys) |-> [kind |-> "count", key |-> SetToSeq(keys)[i]]]
events(q, nanos) ==
    Filtered(q) \o Count(Together(q) \cup ({"used"} \X q.indexed))
      \o <<[kind |-> "op", nanos |-> nanos]>>

----------------------------------------------------------------------------
(* Walks.  `fresh` and `low` are ghosts: whether nothing was forgotten since *)
(* the walk began, and what the shards held then.                            *)

\* What the first n shards have counted.
Subtotals(k) ==
    LET upto[n \in 0 .. Cardinality(Shards)] ==
            IF n = 0 THEN 0 ELSE upto[n - 1] + shards[n].count[k]
    IN  upto
Total(k) == Subtotals(k)[Cardinality(Shards)]
Rest == [doing |-> "rest", at |-> 1, out |-> Shard, fresh |-> TRUE, low |-> [k \in Keys |-> 0]]
Walkers == {"optimizer", "monitor"}
Beyond == Cardinality(Shards) + 1

Begin(what) ==
    [Rest EXCEPT !.doing = what,
                 !.low = [k \in Keys |-> IF what = "snapshot" THEN Total(k) ELSE 0]]
\* `Snapshot`: one more shard added to what the walk has so far.
gather_over(out, s) ==
    [count |-> [k \in Keys |-> IF s.count[k] > 0 THEN s.count[k] ELSE out.count[k]],
     latency |-> merge_histograms(out.latency, s.latency),
     temperature |-> merge_sketches(out.temperature, s.temperature)]
gather(out, s) ==
    [count |-> Sum(out.count, s.count), latency |-> merge_histograms(out.latency, s.latency),
     temperature |-> merge_sketches(out.temperature, s.temperature)]

scale_up(n) == (n * Decay[1] + Decay[2] - 1) \div Decay[2]
scale(n) == (n * Decay[1]) \div Decay[2]
\* `decay` leaves alone what was pinned together and what was projected together.
Decaying == {k \in Keys : k[1] \notin {"pinned", "covers"}}
Forgotten(s) == [s EXCEPT !.count = [k \in Keys |-> IF k \in Decaying THEN scale(@[k]) ELSE @[k]]]

\* What the driver finds worth building in a snapshot: indexes on filtered fields, on sets
\* pinned together, and with the fields a query projects.
Proposed(out) == {k \in Keys : k[1] \in {"filters", "pinned", "covers"} /\ out.count[k] >= MIN_QUERIES}

Exclusive == call.todo = <<>>
Stale(w) == [walks[w] EXCEPT !.fresh = FALSE, !.low = Rest.low]

----------------------------------------------------------------------------

TelemetryInit ==
    /\ shards = [s \in Shards |-> Shard]
    /\ call = [by |-> 1, todo |-> <<>>]
    /\ touch_sample = 0
    /\ walks = [w \in Walkers |-> Rest]
    /\ workload \in DOMAIN MaxCalls /\ calls = 0 /\ walked = 0

\* One more call of the workload: the database is free, and no cycle holds it.
called(what) ==
    /\ workload = what /\ calls < MaxCalls[what] /\ calls' = calls + 1
    /\ Exclusive /\ walks["optimizer"].doing = "rest"
    /\ UNCHANGED <<workload, walked>>

\* A thread runs a query; a planner that used an index says so.
run_query(s) ==
    /\ called("query")
    /\ \E q \in Queries, nanos \in Durations : call' = [by |-> s, todo |-> events(q, nanos)]
    /\ UNCHANGED <<shards, touch_sample, walks>>

sampled(n) == (n + 1) % STRIDE

\* A point read: `note_touch` reports one read in STRIDE.
get(s) ==
    /\ called("get")
    /\ touch_sample' = sampled(touch_sample)
    /\ \E touched \in IF touch_sample' = 0 THEN {<<[kind |-> "touch", id |-> id]>> : id \in Gets}
                      ELSE {<<>>} :
           call' = [by |-> s, todo |-> touched \o Count({<<"calls", "get">>})]
    /\ UNCHANGED <<shards, walks>>

\* A write, as the telemetry sees it: the upkeep of an index.
maintain(s) ==
    /\ called("write")
    /\ \E f \in Fields : call' = [by |-> s, todo |-> Count({<<"maintained", f>>})]
    /\ UNCHANGED <<shards, touch_sample, walks>>

emit ==
    /\ ~ Exclusive
    /\ shards' = [shards EXCEPT ![call.by] = record(@, Head(call.todo))]
    /\ call' = [call EXCEPT !.todo = Tail(@)]
    /\ UNCHANGED <<touch_sample, walks, workload, calls, walked>>

\* The cycle: read everything, decide, then forget a little.
optimize ==
    /\ Exclusive /\ walks["optimizer"].doing = "rest"
    /\ walks' = [walks EXCEPT !["optimizer"] = Begin("snapshot")]
    /\ UNCHANGED <<shards, call, touch_sample, workload, calls, walked>>

forget_a_little ==
    /\ walks["optimizer"].doing = "snapshot" /\ walks["optimizer"].at = Beyond
    /\ walks' = [walks EXCEPT !["optimizer"] = Begin("decay")]
    /\ UNCHANGED <<shards, call, touch_sample, workload, calls, walked>>

monitor(what) ==
    /\ walks["monitor"].doing = "rest" /\ walked < MaxWalks
    /\ walks' = [walks EXCEPT !["monitor"] = Begin(what)]
    /\ walked' = walked + 1
    /\ UNCHANGED <<shards, call, touch_sample, workload, calls>>

snapshot(w) ==
    /\ walks[w].doing = "snapshot" /\ walks[w].at # Beyond
    /\ walks' = [walks EXCEPT ![w].at = @ + 1, ![w].out = gather(@, shards[walks[w].at])]
    /\ UNCHANGED <<shards, call, touch_sample, workload, calls, walked>>

\* A shard is cut down or cleared; a snapshot another walker has begun is no longer `fresh`.
Cut(w, what, Become(_)) ==
    /\ walks[w].doing = what /\ walks[w].at # Beyond
    /\ shards' = [shards EXCEPT ![walks[w].at] = Become(@)]
    /\ walks' = [v \in Walkers |-> IF v = w THEN [walks[w] EXCEPT !.at = @ + 1] ELSE Stale(v)]
    /\ UNCHANGED <<call, touch_sample, workload, calls, walked>>
decay(w) == Cut(w, "decay", Forgotten)
Cleared(s) == Shard
reset(w) == Cut(w, "reset", Cleared)

finish(w) ==
    /\ walks[w].at = Beyond
    /\ w = "optimizer" => walks[w].doing = "decay"
    /\ walks' = [walks EXCEPT ![w] = Rest]
    /\ UNCHANGED <<shards, call, touch_sample, workload, calls, walked>>

Cycle == optimize \/ forget_a_little \/ snapshot("optimizer") \/ decay("optimizer") \/ finish("optimizer")

TelemetryNext ==
    \/ \E s \in Shards : run_query(s) \/ get(s) \/ maintain(s)
    \/ emit
    \/ Cycle
    \/ monitor("snapshot") \/ monitor("reset")
    \/ snapshot("monitor") \/ reset("monitor") \/ finish("monitor")

\* An adaptive database keeps being optimized: cycle after cycle begins and is completed,
\* and as none begins during a call, every call is.
Completed == walks["optimizer"].doing = "decay" /\ walks["optimizer"].at = Beyond
TelemetryFairness == []<>Completed /\ []<>~Completed
TelemetrySpec == TelemetryInit /\ [][TelemetryNext]_tvars /\ TelemetryFairness

----------------------------------------------------------------------------
(* Properties *)

\* What has been added up: every shard, and every walk under way or complete.
Sums == Range(shards) \cup {walks[w].out : w \in Walkers}

\* The counters and the walks have their types.
TelemetryTypeOK ==
    /\ \A s \in Sums : s.count \in [Keys -> Nat] /\ s.latency.min \in 0 .. 2^WordBits - 1
    /\ \A w \in Walkers : walks[w].at \in 1 .. Beyond
    /\ touch_sample \in 0 .. STRIDE - 1

\* A field is never pinned to a literal more often than it is filtered on, in any shard
\* or any snapshot taken across shards while some were being cut down: otherwise
\* `equality_fraction` exceeds one and `range_count` hides a range workload.
EqualityWithinTotal ==
    \A s \in Sums, f \in Fields : s.count[<<"equality", f>>] <= s.count[<<"filters", f>>]

\* A snapshot that met no forgetting shows no less than was counted when it began and no
\* more than when it ended.
SnapshotsLieBetween ==
    \A w \in Walkers :
        walks[w].doing = "snapshot" /\ walks[w].at = Beyond /\ walks[w].fresh =>
            \A k \in Keys : walks[w].low[k] <= walks[w].out.count[k] /\ walks[w].out.count[k] <= Total(k)

\* However shards are merged, a percentile is in the bucket of the duration it stands for
\* and never above it.
PercentilesAreClose ==
    \A s \in Sums, p \in {1, 50, 100} :
        LET h == s.latency
            exact == CHOOSE v \in Durations :
                         LET Upto(P(_)) == MapThenSumSet(LAMBDA d : h.samples[d], {d \in Durations : P(d)})
                         IN /\ Upto(LAMBDA d : d <= v) >= Target(h, p)
                            /\ Upto(LAMBDA d : d < v) < Target(h, p)
        IN h.count > 0 => /\ percentile(h, p) <= exact
                          /\ bucket(percentile(h, p)) = bucket(exact)

\* The sketch may overestimate how often a record was touched and never underestimates it,
\* in a shard or across shards.
TouchesAreNotLost ==
    \A s \in Sums, id \in Gets : estimate(s.temperature, id) >= s.temperature.touched[id]

\* What the histograms promise in every state, in a shard and in any snapshot.
TelemetryInvariant == TelemetryTypeOK /\ PercentilesAreClose

\* What the counters and the sketches promise there, whatever walks meet whatever calls.
CountsAreTrue == EqualityWithinTotal /\ SnapshotsLieBetween /\ TouchesAreNotLost

\* Once the workload has ended, its counts reach zero: `decay` is documented as reaching
\* zero rather than approaching it, because the driver retracts what nothing has used.
NothingCounted == \A k \in Decaying : Total(k) = 0
CountsReachZero == <>[]NothingCounted

\* `decay` "forgets a fraction of what has been counted so far" (collector.rs:367), so that the
\* driver follows "is this useful now": what it finds worth building, it stops finding worth
\* building when the workload has ended.
EndedWorkloadsAreForgotten == <>[](Proposed(walks["optimizer"].out) = {})
=============================================================================
