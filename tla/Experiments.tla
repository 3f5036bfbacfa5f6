----------------------------- MODULE Experiments -----------------------------
(***************************************************************************)
(* Proving a change against live traffic: the phases of adabt-opt's        *)
(* experiment.rs, driven by adabt-engine's Database over the queries that  *)
(* arrive.  A candidate structure is built behind a mask that the planner  *)
(* asks about every kind of structure but composite indexes, answers       *)
(* beside the baseline (shadow), then serves a growing share of the        *)
(* traffic (canary), and is promoted or taken back.                        *)
(*                                                                         *)
(* A query is one that pins every indexed field; reads by record id, which *)
(* are not planned for, and the direct arrays they use are left out.       *)
(*                                                                         *)
(* Latencies, memory and policy are nondeterministic verdicts.  A count of *)
(* samples stops at what the phase asks for, and a query number at         *)
(* Hundred: neither test of the code can tell larger ones apart.           *)
(***************************************************************************)
EXTENDS Integers, FiniteSets

CONSTANTS Collections,    \* the collections of the database
          Global,         \* the scope of a change that names no collection
          ByHand,         \* the collections whose index the operator creates and drops
          Trials,         \* the changes that may be experimented on
          MaxExperiments, \* how many experiments are begun
          Hundred,        \* the number of queries a share is a share of
          CanarySteps,    \* CANARY_STEPS
          MinSamples,     \* Guardrails.min_samples
          SamplesFloor,   \* MIN_SAMPLES_FLOOR
          MaxStalled      \* MAX_STALLED_ADVANCES

Ids == 1..MaxExperiments

\* an index of one field, plain, partial or covering; an index of several
Indexes == {"index", "composite"}
\* what Candidates knows of; anything else that is tried is a switch
Kinds == Indexes \cup {"column_store"}

Structures == [what: Kinds, on: Collections]
              \cup [what: {"switch"}, on: Collections \cup {Global}]

ASSUME GlobalAssumption == Global \notin Collections /\ ByHand \subseteq Collections
ASSUME TrialsAssumption ==
    Trials \subseteq [what: Indexes, on: Collections]
                     \cup [what: {"column_store", "switch"}, on: Collections \cup {Global}]
ASSUME StepsAssumption ==
    /\ MaxExperiments \in Nat
    /\ Hundred \in Nat \ {0, 1}
    /\ CanarySteps \subseteq 1..Hundred
    /\ Hundred \in CanarySteps
    /\ \E p \in CanarySteps : p < Hundred
ASSUME SamplesAssumption ==
    /\ MinSamples \in Nat
    /\ SamplesFloor \in Nat \ {0}
    /\ MaxStalled \in Nat \ {0}

VARIABLES experiments, \* every experiment: its LiveExperiment, running or not
          begun,       \* next_experiment_id - 1
          due,         \* experiments advance_experiments has still to visit
          structures,  \* what the engine keeps beside the heap
          hidden,      \* the mask: structures with the experiment they belong to
          plans,       \* the access path the plan cache holds for a collection's shape
          earned,      \* what really was served in the phase: not part of the program
          proved       \* phases that were left with enough evidence: not part of the program

xvars == <<experiments, begun, due, structures, hidden, plans, earned, proved>>

------------------------------------------------------------------------------
(* Phases.                                                                  *)

Phase(name) == [name |-> name, share |-> 0]
Canary(p) == [name |-> "canary", share |-> p]

Canaries == {Canary(p) : p \in CanarySteps \ {Hundred}}
Phases == {Phase(n) : n \in {"none", "proposed", "building", "shadow", "promoted", "reverted"}}
          \cup Canaries

is_measuring(phase) == phase.name \in {"shadow", "canary"}
is_running(phase) == phase.name \in {"proposed", "building", "shadow", "canary"}

FirstStep == CHOOSE p \in CanarySteps : \A q \in CanarySteps : p <= q
NextStep(p) == CHOOSE q \in CanarySteps :
                 q > p /\ \A r \in CanarySteps : r > p => q <= r

\* canary at a hundred per cent is promotion
Entered(p) == IF p = Hundred THEN Phase("promoted") ELSE Canary(p)

\* what a healthy experiment enters
NextPhase(phase) ==
    CASE phase.name = "proposed" -> Phase("building")
      [] phase.name = "building" -> Phase("shadow")
      [] phase.name = "shadow" -> Entered(FirstStep)
      [] OTHER -> Entered(NextStep(phase.share))

------------------------------------------------------------------------------
(* Evidence.                                                                *)

\* f64::round of MinSamples * share / Hundred, raised to the floor
Scaled(share) == LET n == (2 * MinSamples * share + Hundred) \div (2 * Hundred)
                 IN IF n < SamplesFloor THEN SamplesFloor ELSE n

Sides == {"baseline", "candidate"}

\* the share of the queries a side sees: in the shadow phase both see all of them
ShareOf(side, phase) ==
    IF phase.name = "shadow" THEN Hundred
    ELSE IF side = "candidate" THEN phase.share ELSE Hundred - phase.share

required_samples(phase) == [side \in Sides |-> Scaled(ShareOf(side, phase))]

NoSamples == [side \in Sides |-> 0]

Enough(samples, phase) == \A side \in Sides : samples[side] >= required_samples(phase)[side]

\* one more sample on `side`, counted no further than the phase asks
Sampled(samples, side, phase) ==
    IF samples[side] < required_samples(phase)[side]
    THEN [samples EXCEPT ![side] = @ + 1] ELSE samples

SampledTwice(samples, phase) ==
    Sampled(Sampled(samples, "baseline", phase), "candidate", phase)

\* floor stepping: is the query after `n` others the candidate's?
Routes(n, p) == ((n + 1) * p) \div Hundred > (n * p) \div Hundred

NotBegun == [what |-> "index", on |-> Global, phase |-> Phase("none"),
             samples |-> NoSamples, fresh |-> FALSE, stalled |-> 0,
             divergences |-> FALSE, trialled |-> FALSE, errors |-> FALSE, routed |-> 0]

Running == {id \in Ids : is_running(experiments[id].phase)}

\* the verdicts `assess` can reach; latency and memory can always say no
assess(e) ==
    IF e.divergences \/ e.errors \/ (is_measuring(e.phase) /\ e.stalled >= MaxStalled)
    THEN {"abort"}
    ELSE IF ~is_measuring(e.phase) THEN {"healthy", "abort"}
    ELSE IF ~Enough(e.samples, e.phase) THEN {"inconclusive", "abort"}
    ELSE {"healthy", "abort"}

\* what is counted when an experiment enters a phase
reset_measurements(e) == [e EXCEPT !.samples = NoSamples, !.errors = FALSE]

enter(e, phase) ==
    LET f == [e EXCEPT !.phase = phase, !.stalled = 0, !.fresh = FALSE]
    IN IF is_measuring(phase) THEN reset_measurements(f) ELSE f

Stalled_never(e) == [e EXCEPT !.fresh = FALSE]

\* the part of `advance` before it assesses
Stalled(e) ==
    IF ~is_measuring(e.phase) THEN e
    ELSE [e EXCEPT !.stalled = IF e.fresh THEN 0 ELSE @ + 1, !.fresh = FALSE]

------------------------------------------------------------------------------
(* The mask.                                                                *)

\* what a change builds: columns are built for every collection
BuiltBy(e) ==
    IF e.what = "column_store" THEN [what: {"column_store"}, on: Collections]
    ELSE {[what |-> e.what, on |-> e.on]}

\* what can be held beside the current representation
Maskable(e) == e.what # "switch" /\ e.on # Global

\* Candidates::record
Recorded(id, e) ==
    IF ~Maskable(e) THEN {}
    ELSE IF /\ e.what = "column_store"
            /\ \E h \in hidden : h.what = e.what /\ h.on = e.on THEN {}
    ELSE {[by |-> id, what |-> e.what, on |-> e.on]}

MaskOf(id, mask) == {h \in mask : h.by = id}

forget_all(id, mask) == {}

forget(id, mask) == mask \ MaskOf(id, mask)

\* the kinds plan_context asks the mask about; composite indexes it passes on unasked
Asked == {"index", "column_store"}

\* hides_index, hides_column_store
Hides(s, revealed) == \E h \in hidden : h.what = s.what /\ h.on = s.on /\ h.by # revealed

\* what the planner sees for a query on `c` that may see `revealed`'s candidate
Visible(c, revealed) ==
    {s \in structures : s.on = c /\ (s.what \in Asked => ~Hides(s, revealed))}

Nobody == 0

PlanFor(c, revealed) ==
    LET seen == {s.what : s \in Visible(c, revealed)}
    IN IF "composite" \in seen THEN "composite"
       ELSE IF "index" \in seen THEN "index"
       ELSE IF "column_store" \in seen THEN "column_store" ELSE "scan"

NoPlans == [c \in Collections |-> "none"]

------------------------------------------------------------------------------
(* Beginning.                                                               *)

scopes_overlap(a, b) == a = Global \/ b = Global \/ a = b

begin_experiment(t) ==
    /\ due = {} /\ begun < MaxExperiments
    /\ \A id \in Running : ~scopes_overlap(experiments[id].on, t.on)
    /\ begun' = begun + 1
    /\ experiments' = [experiments EXCEPT ![begun + 1] =
                         [NotBegun EXCEPT !.what = t.what, !.on = t.on,
                                          !.phase = Phase("proposed")]]
    /\ UNCHANGED <<due, structures, hidden, plans, earned, proved>>

------------------------------------------------------------------------------
(* Ending.                                                                  *)

\* retire_experiment without promotion: what was masked is undone
Undone(id, e, mask, kept) ==
    IF MaskOf(id, mask) = {} THEN kept ELSE kept \ BuiltBy(e)

\* building or dropping clears the plan cache, where anything was built or dropped
PlansAfter(e, kept) ==
    IF e.what = "column_store" \/ (e.what \in Indexes /\ kept # structures) THEN NoPlans ELSE plans

revert(id, e) ==
    /\ structures' = Undone(id, e, hidden, structures)
    /\ plans' = IF MaskOf(id, hidden) = {} THEN plans ELSE PlansAfter(e, structures')
    /\ hidden' = forget(id, hidden)

retire_promoted(id) ==
    /\ hidden' = forget(id, hidden)
    /\ UNCHANGED <<structures, plans>>

abort_experiment(id) ==
    /\ due = {} /\ id \in Running
    /\ experiments' = [experiments EXCEPT ![id] = enter(@, Phase("reverted"))]
    /\ revert(id, experiments[id])
    /\ UNCHANGED <<begun, due, earned, proved>>

------------------------------------------------------------------------------
(* Advancing: one call visits every running experiment, oldest first.       *)

advance_experiments ==
    /\ due = {} /\ Running # {}
    /\ due' = Running
    /\ UNCHANGED <<experiments, begun, structures, hidden, plans, earned, proved>>

\* the controller carries the change out; what left nothing to mask is aborted,
\* and what is not masked is not undone
built(id, e) ==
    LET mask == hidden \cup Recorded(id, e)
        masked == MaskOf(id, mask) # {}
    IN /\ experiments' = [experiments EXCEPT ![id] =
             IF masked THEN enter(e, Phase("building"))
             ELSE enter(e, Phase("reverted"))]
       /\ hidden' = IF masked THEN mask ELSE forget(id, mask)
       /\ structures' = structures \cup BuiltBy(e)
       /\ plans' = PlansAfter(e, structures')
       /\ due' = due \ {id}

\* the controller's gates refuse it
build_refused(id, e) ==
    /\ experiments' = [experiments EXCEPT ![id] = enter(e, Phase("reverted"))]
    /\ revert(id, e)
    /\ due' = due \ {id}

\* the action is recorded before it is carried out, and the error ends the call
build_fails(id, e) ==
    /\ experiments' = [experiments EXCEPT ![id] = enter(e, Phase("building"))]
    /\ hidden' = hidden \cup Recorded(id, e)
    /\ due' = {}
    /\ UNCHANGED <<structures, plans>>

build_candidate(id, e) == built(id, e) \/ build_refused(id, e) \/ build_fails(id, e)

Stays(id, e) ==
    /\ experiments' = [experiments EXCEPT ![id] = e]
    /\ due' = due \ {id}
    /\ UNCHANGED <<structures, hidden, plans>>

Aborted(id, e) ==
    /\ experiments' = [experiments EXCEPT ![id] = enter(e, Phase("reverted"))]
    /\ revert(id, e)
    /\ due' = due \ {id}

Moves(id, e) ==
    LET next == NextPhase(e.phase)
    IN \/ next.name = "building" /\ build_candidate(id, e)
       \/ next.name = "promoted"
          /\ experiments' = [experiments EXCEPT ![id] = enter(e, next)]
          /\ retire_promoted(id)
          /\ due' = due \ {id}
       \/ next.name \notin {"building", "promoted"}
          /\ Stays(id, enter(e, next))

advance(id) ==
    /\ id \in due /\ \A other \in due : id <= other
    /\ LET e == Stalled(experiments[id])
       IN \E verdict \in assess(e) :
            \/ verdict = "abort" /\ Aborted(id, e)
            \/ verdict = "inconclusive" /\ Stays(id, e)
            \/ verdict = "healthy" /\ Moves(id, e)
    /\ earned' = [earned EXCEPT ![id] =
                    IF experiments'[id].phase # experiments[id].phase THEN NoSamples ELSE @]
    /\ proved' = [proved EXCEPT ![id] =
                    IF /\ experiments'[id].phase # experiments[id].phase
                       /\ is_measuring(experiments[id].phase)
                       /\ Enough(earned[id], experiments[id].phase)
                    THEN @ \cup {experiments[id].phase} ELSE @]
    /\ UNCHANGED begun

------------------------------------------------------------------------------
(* Queries, and the operator's own changes.                                 *)

experiment_for(c) ==
    {id \in Running : is_measuring(experiments[id].phase) /\ experiments[id].on \in {Global, c}}

\* QueryMode::Normal: plans are cached by shape
query_normal(c) ==
    /\ experiment_for(c) = {}
    /\ plans' = [plans EXCEPT ![c] = IF @ = "none" THEN PlanFor(c, Nobody) ELSE @]
    /\ UNCHANGED <<experiments, earned>>

\* both paths answered; they agreed or not
Compared(e, diverged) ==
    [e EXCEPT !.samples = SampledTwice(@, e.phase), !.fresh = TRUE, !.trialled = TRUE,
              !.divergences = @ \/ diverged]

shadow_trial(id) ==
    /\ experiments[id].phase = Phase("shadow")
    /\ \E diverged \in BOOLEAN :
         experiments' = [experiments EXCEPT ![id] = Compared(@, diverged)]
    /\ earned' = [earned EXCEPT ![id] = SampledTwice(@, Phase("shadow"))]
    /\ UNCHANGED plans

\* one path failed: the trial before, if any, is counted again, as an error
CountedAgain(e) ==
    IF ~e.trialled THEN e
    ELSE [e EXCEPT !.samples = SampledTwice(@, e.phase), !.fresh = TRUE, !.errors = TRUE]

shadow_fails(id) ==
    /\ experiments[id].phase = Phase("shadow")
    /\ experiments' = [experiments EXCEPT ![id] = CountedAgain(@)]
    /\ UNCHANGED <<plans, earned>>

SideOf(e) == IF Routes(e.routed, e.phase.share) THEN "candidate" ELSE "baseline"
Served(e, ok) ==
    [e EXCEPT !.samples = Sampled(@, SideOf(e), e.phase), !.routed = (@ + 1) % Hundred,
              !.fresh = @ \/ SideOf(e) = "candidate",
              !.errors = @ \/ (SideOf(e) = "candidate" /\ ~ok)]

canary_query(id) ==
    /\ experiments[id].phase.name = "canary"
    /\ \E ok \in BOOLEAN : experiments' = [experiments EXCEPT ![id] = Served(@, ok)]
    /\ earned' = [earned EXCEPT ![id] = Sampled(@, SideOf(experiments[id]), experiments[id].phase)]
    /\ UNCHANGED plans

query(c) ==
    /\ due = {}
    /\ \/ query_normal(c)
       \/ \E id \in experiment_for(c) :
            shadow_trial(id) \/ shadow_fails(id) \/ canary_query(id)
    /\ UNCHANGED <<begun, due, structures, hidden, proved>>

\* an index the operator creates or drops, outside any experiment
create_index(c) ==
    /\ due = {} /\ [what |-> "index", on |-> c] \notin structures
    /\ structures' = structures \cup {[what |-> "index", on |-> c]}
    /\ plans' = NoPlans
    /\ UNCHANGED <<experiments, begun, due, hidden, earned, proved>>

drop_index(c) ==
    /\ due = {} /\ [what |-> "index", on |-> c] \in structures
    /\ structures' = structures \ {[what |-> "index", on |-> c]}
    /\ plans' = NoPlans
    /\ UNCHANGED <<experiments, begun, due, hidden, earned, proved>>

ExperimentsInit ==
    /\ experiments = [id \in Ids |-> NotBegun]
    /\ begun = 0 /\ due = {}
    /\ structures = {} /\ hidden = {}
    /\ plans = NoPlans
    /\ earned = [id \in Ids |-> NoSamples]
    /\ proved = [id \in Ids |-> {}]

Advances == advance_experiments \/ \E id \in Ids : advance(id)

ExperimentsNext ==
    \/ \E t \in Trials : begin_experiment(t)
    \/ Advances
    \/ \E id \in Ids : abort_experiment(id)
    \/ \E c \in Collections : query(c)
    \/ \E c \in ByHand : create_index(c) \/ drop_index(c)

\* the caller's own loop advances its experiments again and again
Fairness == WF_xvars(Advances)

ExperimentsSpec == ExperimentsInit /\ [][ExperimentsNext]_xvars
FairExperimentsSpec == ExperimentsSpec /\ Fairness

------------------------------------------------------------------------------
(* What has to hold.                                                        *)

\* The fields of an experiment keep the types and the ranges the code gives
\* them; a canary never runs at the full share, which is promotion.
ExperimentsTypeOK ==
    /\ experiments \in [Ids -> [what: Kinds \cup {"switch"},
                                on: Collections \cup {Global}, phase: Phases,
                                samples: [Sides -> Nat],
                                fresh: BOOLEAN, stalled: 0..MaxStalled,
                                divergences: BOOLEAN, trialled: BOOLEAN,
                                errors: BOOLEAN, routed: 0..(Hundred - 1)]]
    /\ begun \in 0..MaxExperiments
    /\ due \subseteq Running
    /\ structures \subseteq Structures
    /\ hidden \subseteq [by: Running, what: Kinds, on: Collections]
    /\ plans \in [Collections -> Kinds \cup {"none", "scan"}]

\* No query is evidence for two experiments: the scopes of the running ones
\* do not meet (scopes_overlap, asked once, when an experiment begins).
OneExperimentPerQuery ==
    \A c \in Collections :
        Cardinality({id \in Running : experiments[id].on \in {Global, c}}) <= 1

\* From the moment it is built until the verdict, a candidate that is an index of
\* one field or a column store is visible to no query but the ones its own
\* experiment sends to it, whatever other experiments begin, end or take back
\* meanwhile (Candidates::forget, masked, revealed).  Of a composite index it is
\* not true: CompositesStayHidden below.
CandidatesStayHidden ==
    \A id \in Running :
        LET e == experiments[id]
        IN (e.phase.name # "proposed" /\ e.what \in Asked /\ e.on # Global) =>
             \A other \in (Running \cup {Nobody}) \ {id} :
                 [what |-> e.what, on |-> e.on] \notin Visible(e.on, other)

\* A change is promoted only if no trial ever diverged and each measuring phase
\* saw, itself, the queries it asks for on both sides (assess,
\* reset_measurements: evidence of one phase does not count in the next).
PromotionIsEarned ==
    \A id \in Ids :
        experiments[id].phase.name = "promoted" =>
            /\ ~experiments[id].divergences
            /\ Canaries \cup {Phase("shadow")} \subseteq proved[id]

\* Of any Hundred queries in a row a canary takes exactly its share, wherever
\* in the count the phase began (LiveExperiment::route).
CanaryShareIsExact ==
    \A id \in Ids :
        LET e == experiments[id]
        IN e.phase.name = "canary" =>
             Cardinality({n \in e.routed..(e.routed + Hundred - 1) : Routes(n, e.phase.share)})
                 = e.phase.share

Reverts(id) == id \in Running /\ experiments'[id].phase.name = "reverted"

\* Taking an experiment back takes away the index or the columns it built for its
\* collection, from whichever phase it is taken back (retire_experiment).
RemovesReverted ==
    \A id \in Ids :
        (Reverts(id) /\ Maskable(experiments[id]) /\ experiments[id].phase.name # "proposed")
            => [what |-> experiments[id].what, on |-> experiments[id].on] \notin structures'

\* An experiment that is advanced again and again comes to a verdict, whatever
\* the traffic does: an idle one is given up (MAX_STALLED_ADVANCES).
ExperimentsEnd ==
    \A id \in Ids :
        experiments[id].phase.name = "proposed"
            ~> experiments[id].phase.name \in {"promoted", "reverted"}

\* Every trial ends, and one that ends in a revert leaves nothing behind.
TrialsEndCleanly == [][RemovesReverted]_xvars /\ ExperimentsEnd

\* What trials promise in every state: nobody else sees a candidate the mask is asked
\* about, and none is kept without evidence of its own.
TrialInvariant ==
    /\ ExperimentsTypeOK /\ OneExperimentPerQuery /\ CandidatesStayHidden
    /\ PromotionIsEarned /\ CanaryShareIsExact

\* What the tests and comments also say, and the code does not do.

\* "The mask applies to everything the planner can see, so a candidate that is
\* hidden is genuinely invisible": so is a composite index on trial (plan_context
\* lists composite indexes without asking the mask, so they serve the baseline of
\* their own experiment and every other query).
CompositesStayHidden ==
    \A id \in Running :
        LET e == experiments[id]
        IN (e.phase.name # "proposed" /\ e.what = "composite") =>
             \A other \in (Running \cup {Nobody}) \ {id} :
                 [what |-> e.what, on |-> e.on] \notin Visible(e.on, other)

\* "Unmasking is what promotion is [...] all that changes is that the planner is
\* now allowed to know about it": a query planned after a promotion can use what
\* was promoted (retire_experiment keeps the plans made under the mask).
PromotionReachesPlans ==
    \A id \in Ids :
        LET e == experiments[id]
        IN (e.phase.name = "promoted" /\ Running = {} /\ e.what \in Indexes
              /\ [what |-> e.what, on |-> e.on] \in structures)
             => plans[e.on] \in Indexes \cup {"none"}

\* A reverted experiment leaves nothing in the live database that was not there
\* before (retire_experiment undoes only what the mask names).
RevertLeavesNothingNew ==
    [][\A id \in Ids : Reverts(id) => structures' \subseteq structures]_xvars

\* A promoted experiment measured a candidate that exists: another one's end
\* does not take it away.
PromotedCandidateExists ==
    [][\A id \in Ids :
         (id \in Running /\ experiments'[id].phase.name = "promoted")
             => [what |-> experiments[id].what, on |-> experiments[id].on] \in structures]_xvars

=============================================================================
