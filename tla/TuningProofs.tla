---------------------------- MODULE TuningProofs ----------------------------
(***************************************************************************)
(* Theorems about what the database learns from its calls.  Experiments:   *)
(* for any collections, changes tried, steps of a canary and demands for   *)
(* samples, a change is kept only on evidence of its own, and until then   *)
(* shown to nobody else.  Telemetry: for any threads, queries and walks,   *)
(* what was counted is what a snapshot shows.                              *)
(***************************************************************************)
EXTENDS Experiments, Telemetry, FiniteSetTheorems, SequenceTheorems, WellFoundedInduction, TLAPS

-----------------------------------------------------------------------------
(* The inductive invariant                                                   *)

Whats == Kinds \cup {"switch"}
Scopes == Collections \cup {Global}
SampleCounts == [Sides -> Nat]
ExperimentType ==
    [what : Whats, on : Scopes, phase : Phases, samples : SampleCounts, fresh : BOOLEAN,
     stalled : 0 .. MaxStalled, divergences : BOOLEAN, trialled : BOOLEAN, errors : BOOLEAN,
     routed : 0 .. Hundred - 1]

Own(e) == [what |-> e.what, on |-> e.on]
Mark(id, e) == [by |-> id, what |-> e.what, on |-> e.on]

\* What is not yet begun does not run; an index is never a change of the whole database.
TrialsTyped ==
    /\ ExperimentsTypeOK
    /\ earned \in [Ids -> SampleCounts] /\ proved \in [Ids -> SUBSET Phases]
    /\ \A id \in Ids : id > begun => id \notin Running
    /\ \A id \in Running : experiments[id].what \in Indexes => experiments[id].on # Global

\* No two running experiments have a query in common.
ScopesApart ==
    \A i, j \in Running : i # j => ~ scopes_overlap(experiments[i].on, experiments[j].on)

\* The mask names only what the experiment that set it builds, and all that a running
\* experiment has built of what can be masked.
MaskIsExact ==
    /\ \A h \in hidden : h = Mark(h.by, experiments[h.by])
    /\ \A id \in Running :
         experiments[id].phase.name # "proposed" /\ Maskable(experiments[id]) =>
             Mark(id, experiments[id]) \in hidden

\* What was counted in a phase is what was served in it, unless a trial failed.
EvidenceIsFresh ==
    \A id \in Ids :
        is_measuring(experiments[id].phase) /\ ~ experiments[id].errors =>
            experiments[id].samples = earned[id]

\* The phases an experiment is past, each left with enough evidence.
Before(phase) ==
    IF phase.name = "canary" THEN {Phase("shadow")} \cup {c \in Canaries : c.share < phase.share}
    ELSE IF phase.name = "promoted" THEN {Phase("shadow")} \cup Canaries
    ELSE {}
PhasesProved ==
    \A id \in Ids :
        /\ Before(experiments[id].phase) \subseteq proved[id]
        /\ experiments[id].phase.name = "promoted" => ~ experiments[id].divergences

TrialIInv == TrialsTyped /\ ScopesApart /\ MaskIsExact /\ EvidenceIsFresh /\ PhasesProved

-----------------------------------------------------------------------------
(* Steps of a canary, samples, phases                                        *)

\* A nonempty set of naturals has a least element.
LEMMA LeastOf ==
    ASSUME NEW S \in SUBSET Nat, S # {}
    PROVE  \E x \in S : \A y \in S : x <= y
<1>1. PICK x \in S : \A y \in S : ~ (<<y, x>> \in OpToRel(<, Nat))
  BY NatLessThanWellFounded, WFMin
<1>2. \A y \in S : ~ (y < x)
  BY <1>1 DEF OpToRel
<1> QED
  BY <1>2

\* The first share is below a hundred, and below a hundred there is always a next one.
LEMMA ShareSteps ==
    /\ CanarySteps \subseteq 1 .. Hundred /\ Hundred \in Nat \ {0, 1} /\ Hundred \in CanarySteps
    /\ \A p \in CanarySteps : p \in Nat /\ p <= Hundred
    /\ FirstStep \in CanarySteps /\ FirstStep < Hundred
    /\ \A q \in CanarySteps : FirstStep <= q
    /\ \A p \in CanarySteps : p < Hundred =>
         /\ NextStep(p) \in CanarySteps /\ NextStep(p) > p
         /\ \A r \in CanarySteps : r > p => NextStep(p) <= r
<1>1. /\ CanarySteps \subseteq 1 .. Hundred /\ Hundred \in Nat \ {0, 1} /\ Hundred \in CanarySteps
      /\ \E p \in CanarySteps : p < Hundred
  BY StepsAssumption
<1>2. CanarySteps \in SUBSET Nat /\ CanarySteps # {} /\ \A p \in CanarySteps : p <= Hundred
  BY <1>1
<1>3. \E p \in CanarySteps : \A q \in CanarySteps : p <= q
  BY <1>2, LeastOf
<1>4. FirstStep \in CanarySteps /\ \A q \in CanarySteps : FirstStep <= q
  BY <1>3 DEF FirstStep
<1>5. FirstStep < Hundred
  <2>1. PICK p \in CanarySteps : p < Hundred
    BY <1>1
  <2>2. FirstStep <= p /\ FirstStep \in Nat /\ p \in Nat
    BY <1>2, <1>4
  <2> QED
    BY <1>1, <2>1, <2>2
<1>6. ASSUME NEW p \in CanarySteps, p < Hundred
      PROVE  /\ NextStep(p) \in CanarySteps /\ NextStep(p) > p
             /\ \A r \in CanarySteps : r > p => NextStep(p) <= r
  <2> DEFINE Above == {q \in CanarySteps : q > p}
  <2>1. Above \in SUBSET Nat /\ Hundred \in Above
    BY <1>1, <1>2, <1>6
  <2>2. PICK q \in Above : \A r \in Above : q <= r
    BY <2>1, LeastOf
  <2>3. \E x \in CanarySteps : x > p /\ \A r \in CanarySteps : r > p => x <= r
    BY <2>2
  <2> QED
    BY <2>3 DEF NextStep
<1> QED
  BY <1>1, <1>2, <1>4, <1>5, <1>6

\* Counting a sample keeps the counts natural.
LEMMA SamplesCount ==
    /\ NoSamples \in SampleCounts
    /\ \A s \in SampleCounts, side \in Sides, phase \in Phases : Sampled(s, side, phase) \in SampleCounts
    /\ \A s \in SampleCounts, phase \in Phases : SampledTwice(s, phase) \in SampleCounts
<1>1. NoSamples \in SampleCounts
  BY DEF NoSamples, SampleCounts
<1>2. ASSUME NEW s \in SampleCounts, NEW side \in Sides, NEW phase \in Phases
      PROVE  Sampled(s, side, phase) \in SampleCounts
  BY DEF Sampled, SampleCounts
<1>3. "baseline" \in Sides /\ "candidate" \in Sides
  BY DEF Sides
<1>4. ASSUME NEW s \in SampleCounts, NEW phase \in Phases
      PROVE  SampledTwice(s, phase) \in SampleCounts
  BY <1>2, <1>3 DEF SampledTwice
<1> QED
  BY <1>1, <1>2, <1>4

\* An experiment that has begun, whatever its count of idle advances.
Begun ==
    [what : Whats, on : Scopes, phase : Phases, samples : SampleCounts, fresh : BOOLEAN,
     stalled : Nat, divergences : BOOLEAN, trialled : BOOLEAN, errors : BOOLEAN,
     routed : 0 .. Hundred - 1]

\* f is the same trial as e, with the same record of trials and of routing.
SameTrial(e, f) ==
    /\ f.what = e.what /\ f.on = e.on /\ f.divergences = e.divergences
    /\ f.trialled = e.trialled /\ f.routed = e.routed

\* Entering a phase starts its counts at nothing.
LEMMA Entering ==
    ASSUME NEW e \in Begun, NEW phase \in Phases
    PROVE  /\ enter(e, phase) \in ExperimentType /\ SameTrial(e, enter(e, phase))
           /\ enter(e, phase).phase = phase
           /\ is_measuring(phase) =>
                enter(e, phase).samples = NoSamples /\ enter(e, phase).errors = FALSE
<1>1. 0 \in 0 .. MaxStalled
  BY SamplesAssumption
<1> DEFINE f == [e EXCEPT !.phase = phase, !.stalled = 0, !.fresh = FALSE]
<1>2. /\ f \in ExperimentType /\ SameTrial(e, f) /\ f.phase = phase
  BY <1>1 DEF Begun, ExperimentType, SameTrial
<1>3. CASE is_measuring(phase)
  <2>1. enter(e, phase) = [f EXCEPT !.samples = NoSamples, !.errors = FALSE]
    BY <1>3 DEF enter, reset_measurements
  <2> QED
    BY <1>2, <2>1, SamplesCount DEF ExperimentType, SameTrial
<1>4. CASE ~ is_measuring(phase)
  <2>1. enter(e, phase) = f
    BY <1>4 DEF enter
  <2> QED
    BY <1>2, <1>4, <2>1
<1> QED
  BY <1>3, <1>4

\* Advancing first counts an idle advance, and nothing else.
LEMMA Stalling ==
    ASSUME NEW e \in ExperimentType
    PROVE  /\ Stalled(e) \in Begun /\ SameTrial(e, Stalled(e))
           /\ Stalled(e).phase = e.phase /\ Stalled(e).samples = e.samples
           /\ Stalled(e).errors = e.errors
           /\ ~ is_measuring(e.phase) => Stalled(e) = e
<1>0. MaxStalled \in Nat
  BY SamplesAssumption
<1>1. e \in Begun
  BY <1>0 DEF ExperimentType, Begun
<1>2. CASE ~ is_measuring(e.phase)
  BY <1>1, <1>2 DEF Stalled, SameTrial
<1>3. CASE is_measuring(e.phase)
  <2> DEFINE n == IF e.fresh THEN 0 ELSE e.stalled + 1
  <2>1. n \in Nat
    BY <1>1 DEF Begun
  <2>2. Stalled(e) = [e EXCEPT !.stalled = n, !.fresh = FALSE]
    BY <1>3 DEF Stalled
  <2> QED
    BY <1>1, <1>3, <2>1, <2>2 DEF Begun, SameTrial
<1> QED
  BY <1>2, <1>3

\* What the phases are.
LEMMA PhaseCases ==
    /\ \A n \in {"none", "proposed", "building", "shadow", "promoted", "reverted"} :
         Phase(n) \in Phases /\ Phase(n).name = n
    /\ \A c \in Canaries : c \in Phases /\ c.name = "canary" /\ c = Canary(c.share)
                             /\ c.share \in CanarySteps /\ c.share < Hundred
    /\ \A p \in CanarySteps : p < Hundred => Canary(p) \in Canaries /\ Canary(p).share = p
    /\ \A phase \in Phases : phase.name = "canary" => phase \in Canaries
    /\ \A phase \in Phases : phase.name # "canary" =>
         /\ phase = Phase(phase.name)
         /\ phase.name \in {"none", "proposed", "building", "shadow", "promoted", "reverted"}
<1>1. /\ \A n \in {"none", "proposed", "building", "shadow", "promoted", "reverted"} :
            Phase(n) \in Phases /\ Phase(n).name = n
      /\ \A c \in Canaries : c \in Phases
  BY DEF Phases, Phase
<1>2. ASSUME NEW c \in Canaries
      PROVE  c.name = "canary" /\ c = Canary(c.share) /\ c.share \in CanarySteps /\ c.share < Hundred
  <2>1. PICK p \in CanarySteps \ {Hundred} : c = Canary(p)
    BY DEF Canaries
  <2>2. c.name = "canary" /\ c.share = p
    BY <2>1 DEF Canary
  <2>3. p \in 1 .. Hundred /\ Hundred \in Nat
    BY ShareSteps
  <2> QED
    BY <2>1, <2>2, <2>3
<1>3. ASSUME NEW p \in CanarySteps, p < Hundred
      PROVE  Canary(p) \in Canaries /\ Canary(p).share = p
  <2>1. p # Hundred
    BY <1>3, ShareSteps
  <2> QED
    BY <2>1 DEF Canaries, Canary
<1>4. ASSUME NEW phase \in Phases, phase.name = "canary"
      PROVE  phase \in Canaries
  BY <1>4 DEF Phases, Phase
<1>5. ASSUME NEW phase \in Phases, phase.name # "canary"
      PROVE  /\ phase = Phase(phase.name)
             /\ phase.name \in {"none", "proposed", "building", "shadow", "promoted", "reverted"}
  <2>1. phase \notin Canaries
    BY <1>2, <1>5
  <2>2. PICK n \in {"none", "proposed", "building", "shadow", "promoted", "reverted"} : phase = Phase(n)
    BY <2>1 DEF Phases
  <2> QED
    BY <1>1, <2>2
<1> QED
  BY <1>1, <1>2, <1>3, <1>4, <1>5

\* A healthy experiment goes on to the phase that only the one it leaves comes before, and
\* a phase but the last is one in which it runs.
LEMMA GoingOn ==
    ASSUME NEW phase \in Phases, is_running(phase)
    PROVE  /\ NextPhase(phase) \in Phases
           /\ NextPhase(phase).name = "building" <=> phase.name = "proposed"
           /\ NextPhase(phase).name # "promoted" => is_running(NextPhase(phase))
           /\ NextPhase(phase).name \notin {"building", "promoted"} => is_measuring(NextPhase(phase))
           /\ NextPhase(phase).name # "proposed"
           /\ ~ is_measuring(phase) => Before(NextPhase(phase)) = {}
           /\ is_measuring(phase) => Before(NextPhase(phase)) \subseteq Before(phase) \cup {phase}
<1>1. CASE phase.name = "proposed"
  <2>1. NextPhase(phase) = Phase("building")
    BY <1>1 DEF NextPhase
  <2> QED
    BY <1>1, <2>1, PhaseCases DEF is_running, is_measuring, Before
<1>2. CASE phase.name = "building"
  <2>1. NextPhase(phase) = Phase("shadow")
    BY <1>2 DEF NextPhase
  <2> QED
    BY <1>2, <2>1, PhaseCases DEF is_running, is_measuring, Before
<1>3. CASE phase.name = "shadow"
  <2>1. FirstStep \in CanarySteps /\ FirstStep < Hundred /\ FirstStep # Hundred
    BY ShareSteps
  <2>2. NextPhase(phase) = Canary(FirstStep)
    BY <1>3, <2>1 DEF NextPhase, Entered
  <2>3. NextPhase(phase) \in Canaries /\ NextPhase(phase).share = FirstStep
    BY <2>1, <2>2, PhaseCases
  <2>4. NextPhase(phase).name = "canary" /\ NextPhase(phase) \in Phases
    BY <2>3, PhaseCases
  <2>5. ~ \E c \in Canaries : c.share < FirstStep
    <3>1. ASSUME NEW c \in Canaries PROVE ~ (c.share < FirstStep)
      <4>1. c.share \in CanarySteps /\ FirstStep <= c.share
        BY PhaseCases, ShareSteps
      <4>2. c.share \in Nat /\ FirstStep \in Nat
        BY <4>1, ShareSteps
      <4> QED
        BY <4>1, <4>2
    <3> QED
      BY <3>1
  <2>6. Before(NextPhase(phase)) = {Phase("shadow")}
    BY <2>3, <2>4, <2>5 DEF Before
  <2>7. phase = Phase("shadow")
    BY <1>3, PhaseCases
  <2> QED
    BY <1>3, <2>4, <2>6, <2>7 DEF is_running, is_measuring
<1>4. CASE phase.name = "canary"
  <2> PICK p : p = phase.share
    OBVIOUS
  <2>1. phase \in Canaries /\ phase = Canary(p) /\ p \in CanarySteps /\ p < Hundred
    BY <1>4, PhaseCases
  <2> PICK q : q = NextStep(p)
    OBVIOUS
  <2>2. q \in CanarySteps /\ q > p /\ \A r \in CanarySteps : r > p => q <= r
    BY <2>1, ShareSteps
  <2>3. NextPhase(phase) = Entered(q)
    BY <1>4 DEF NextPhase
  <2>4. ASSUME NEW c \in Canaries, c.share < q
        PROVE  c \in Before(phase) \cup {phase}
    <3>1. c.share \in CanarySteps /\ c = Canary(c.share)
      BY PhaseCases
    <3>2. p \in Nat /\ q \in Nat /\ c.share \in Nat
      BY <2>1, <2>2, <3>1, ShareSteps
    <3>3. c.share <= p
      BY <2>2, <2>4, <3>1, <3>2
    <3>4. CASE c.share = p
      BY <2>1, <3>1, <3>4
    <3>5. CASE c.share < p
      BY <1>4, <3>5 DEF Before
    <3> QED
      BY <3>2, <3>3, <3>4, <3>5
  <2>5. Phase("shadow") \in Before(phase)
    BY <1>4 DEF Before
  <2>6. CASE q = Hundred
    <3>1. NextPhase(phase) = Phase("promoted")
      BY <2>3, <2>6 DEF Entered
    <3>2. \A c \in Canaries : c.share < q
      BY <2>6, PhaseCases
    <3>3. NextPhase(phase).name = "promoted" /\ NextPhase(phase) \in Phases
      BY <3>1, PhaseCases
    <3>4. Before(NextPhase(phase)) = {Phase("shadow")} \cup Canaries
      BY <3>3 DEF Before
    <3> QED
      BY <1>4, <2>4, <2>5, <3>2, <3>3, <3>4 DEF is_running, is_measuring
  <2>7. CASE q # Hundred
    <3>1. NextPhase(phase) = Canary(q)
      BY <2>3, <2>7 DEF Entered
    <3>2. q < Hundred
      BY <2>2, <2>7, ShareSteps
    <3>3. NextPhase(phase) \in Canaries /\ NextPhase(phase).share = q
      BY <2>2, <3>1, <3>2, PhaseCases
    <3>4. NextPhase(phase).name = "canary" /\ NextPhase(phase) \in Phases
      BY <3>3, PhaseCases
    <3>5. Before(NextPhase(phase)) = {Phase("shadow")} \cup {c \in Canaries : c.share < q}
      BY <3>3, <3>4 DEF Before
    <3> QED
      BY <1>4, <2>4, <2>5, <3>4, <3>5 DEF is_running, is_measuring
  <2> QED
    BY <2>6, <2>7
<1> QED
  BY <1>1, <1>2, <1>3, <1>4 DEF is_running

-----------------------------------------------------------------------------
(* A step of one trial, and what it leaves alone                             *)

\* An experiment has its type, and one that runs has begun.
LEMMA TrialFacts ==
    ASSUME TrialsTyped
    PROVE  /\ \A id \in Ids : experiments[id] \in ExperimentType
           /\ \A id \in Running : id \in Ids /\ id <= begun
           /\ Ids \subseteq Nat /\ begun \in Nat /\ begun <= MaxExperiments
           /\ \A h \in hidden : h.by \in Running /\ h.on \in Collections
<1>1. MaxExperiments \in Nat /\ Ids = 1 .. MaxExperiments /\ begun \in 0 .. MaxExperiments
  BY StepsAssumption DEF Ids, TrialsTyped, ExperimentsTypeOK
<1>2. experiments \in [Ids -> ExperimentType]
  BY DEF TrialsTyped, ExperimentsTypeOK, ExperimentType, Whats, Scopes, SampleCounts
<1>3. \A id \in Running : id \in Ids
  BY DEF Running
<1>4. \A id \in Running : id <= begun
  <2>1. ASSUME NEW id \in Running, ~ (id <= begun) PROVE FALSE
    <3>1. id \in Ids /\ id \in Nat /\ begun \in Nat
      BY <1>1, <1>3
    <3> QED
      BY <2>1, <3>1 DEF TrialsTyped
  <2> QED
    BY <2>1
<1>5. \A h \in hidden : h.by \in Running /\ h.on \in Collections
  BY DEF TrialsTyped, ExperimentsTypeOK
<1> QED
  BY <1>1, <1>2, <1>3, <1>4, <1>5

PlanType == [Collections -> Kinds \cup {"none", "scan"}]

\* A running experiment becomes f, running or not: the others are not touched, and the mask
\* keeps what is theirs and has of f exactly what it should.
LEMMA OneTrial ==
    ASSUME TrialsTyped, ScopesApart, MaskIsExact,
           NEW id \in Running, NEW f \in ExperimentType,
           f.what = experiments[id].what, f.on = experiments[id].on,
           experiments' = [experiments EXCEPT ![id] = f],
           begun' = begun, due' \subseteq due, id \in due' => is_running(f.phase),
           structures' \subseteq Structures, plans' \in PlanType,
           earned' \in [Ids -> SampleCounts], proved' \in [Ids -> SUBSET Phases],
           \A h \in hidden' : h \in hidden \/ h.by = id,
           \A h \in hidden : h.by # id => h \in hidden',
           \A h \in hidden' : h.by = id =>
               /\ h = Mark(id, f) /\ is_running(f.phase)
               /\ Maskable(f),
           is_running(f.phase) /\ f.phase.name # "proposed" /\ Maskable(f) =>
               Mark(id, f) \in hidden'
    PROVE  TrialsTyped' /\ ScopesApart' /\ MaskIsExact'
<1>0. id \in Ids /\ experiments[id] \in ExperimentType
  BY TrialFacts
<1>1. /\ experiments \in [Ids -> ExperimentType]
      /\ experiments' \in [Ids -> ExperimentType]
  <2>1. experiments \in [Ids -> ExperimentType]
    BY DEF TrialsTyped, ExperimentsTypeOK, ExperimentType, Whats, Scopes, SampleCounts
  <2> QED
    BY <1>0, <2>1
<1>2. /\ experiments'[id] = f
      /\ \A other \in Ids : other # id => experiments'[other] = experiments[other]
  BY <1>0, <1>1
<1>3. Running' = IF is_running(f.phase) THEN Running ELSE Running \ {id}
  <2>1. ASSUME NEW i
        PROVE  i \in Running' <=> i \in IF is_running(f.phase) THEN Running ELSE Running \ {id}
    <3>1. CASE i = id
      BY <1>0, <1>2, <3>1 DEF Running
    <3>2. CASE i # id
      BY <1>2, <3>2 DEF Running
    <3> QED
      BY <3>1, <3>2
  <2> QED
    BY <2>1
<1>4. \A i \in Running' : experiments'[i].on = experiments[i].on
  BY <1>2, <1>3 DEF Running
<1>5. hidden' \subseteq [by : Running', what : Kinds, on : Collections]
  <2>1. ASSUME NEW h \in hidden'
        PROVE  h \in [by : Running', what : Kinds, on : Collections]
    <3>1. CASE h.by = id
      <4>1. h = Mark(id, f) /\ is_running(f.phase) /\ Maskable(f)
        BY <3>1
      <4>2. f.on \in Collections /\ f.what \in Kinds
        BY <4>1 DEF ExperimentType, Scopes, Whats, Maskable
      <4>3. id \in Running'
        BY <1>3, <4>1
      <4> QED
        BY <4>1, <4>2, <4>3 DEF Mark
    <3>2. CASE h.by # id
      <4>1. h \in hidden
        BY <3>2
      <4>2. h \in [by : Running, what : Kinds, on : Collections]
        BY <4>1 DEF TrialsTyped, ExperimentsTypeOK
      <4>3. h.by \in Running'
        BY <1>3, <3>2, <4>2
      <4> QED
        BY <4>2, <4>3
    <3> QED
      BY <3>1, <3>2
  <2> QED
    BY <2>1
<1>6. due' \subseteq Running'
  BY <1>3 DEF TrialsTyped, ExperimentsTypeOK
<1>7. ExperimentsTypeOK'
  <2>1. begun \in 0 .. MaxExperiments
    BY DEF TrialsTyped, ExperimentsTypeOK
  <2> QED
    BY <1>1, <1>5, <1>6, <2>1 DEF ExperimentsTypeOK, ExperimentType, Whats, Scopes, SampleCounts, PlanType
<1>8. \A i \in Ids : i > begun' => i \notin Running'
  BY <1>3 DEF TrialsTyped
<1>10. TrialsTyped'
  <2>1. \A i \in Running' : experiments'[i].what \in Indexes => experiments'[i].on # Global
    BY <1>2, <1>3, <1>4 DEF TrialsTyped, Running
  <2> QED
    BY <1>7, <1>8, <2>1 DEF TrialsTyped
<1>11. ScopesApart'
  <2>1. Running' \subseteq Running
    BY <1>3
  <2> QED
    BY <1>4, <2>1 DEF ScopesApart
<1>12. ASSUME NEW h \in hidden' PROVE h = Mark(h.by, experiments'[h.by])
  <2>1. CASE h.by = id
    BY <1>2, <2>1
  <2>2. CASE h.by # id
    <3>1. h \in hidden /\ h.by \in Ids
      BY <2>2, TrialFacts
    <3> QED
      BY <1>2, <2>2, <3>1 DEF MaskIsExact
  <2> QED
    BY <2>1, <2>2
<1>13. ASSUME NEW i \in Running', experiments'[i].phase.name # "proposed", Maskable(experiments'[i])
       PROVE  Mark(i, experiments'[i]) \in hidden'
  <2>1. CASE i = id
    <3>1. is_running(f.phase)
      BY <1>3, <1>13, <2>1
    <3> QED
      BY <1>2, <1>13, <2>1, <3>1
  <2>2. CASE i # id
    <3>1. i \in Running /\ i \in Ids /\ experiments'[i] = experiments[i]
      BY <1>2, <1>3, <2>2 DEF Running
    <3>2. Mark(i, experiments[i]) \in hidden /\ Mark(i, experiments[i]).by # id
      BY <1>13, <2>2, <3>1 DEF MaskIsExact, Mark
    <3> QED
      BY <3>1, <3>2
  <2> QED
    BY <2>1, <2>2
<1>14. MaskIsExact'
  BY <1>12, <1>13 DEF MaskIsExact
<1> QED
  BY <1>10, <1>11, <1>14

\* The plans stay what they may be, and what is built is a structure.
LEMMA PlansKeepTheirType ==
    ASSUME TrialsTyped, NEW e
    PROVE  /\ structures \subseteq Structures /\ plans \in PlanType
           /\ NoPlans \in PlanType /\ \A kept : PlansAfter(e, kept) \in PlanType
<1>1. structures \subseteq Structures /\ plans \in PlanType
  BY DEF TrialsTyped, ExperimentsTypeOK, PlanType
<1>2. NoPlans \in PlanType
  BY DEF NoPlans, PlanType
<1> QED
  BY <1>1, <1>2 DEF PlansAfter

\* What an experiment builds in one collection or globally are structures.
LEMMA BuiltByType ==
    ASSUME NEW e, e.what \in Whats, e.on \in Scopes, e.what \in Indexes => e.on # Global
    PROVE  BuiltBy(e) \subseteq Structures
<1>1. CASE e.what \in Indexes
  <2>1. e.on \in Collections
    BY <1>1 DEF Scopes
  <2> QED
    BY <1>1, <2>1 DEF BuiltBy, Structures, Kinds, Indexes
<1>2. CASE e.what = "column_store"
  BY <1>2 DEF BuiltBy, Structures, Kinds
<1>3. CASE e.what = "switch"
  BY <1>3 DEF BuiltBy, Structures, Scopes
<1> QED
  BY <1>1, <1>2, <1>3 DEF Whats, Kinds

\* Taking an experiment back, or promoting it, forgets its mask.
LEMMA ForgettingKeeps ==
    ASSUME TrialsTyped, ScopesApart, MaskIsExact,
           NEW id \in Running, NEW f \in ExperimentType,
           f.what = experiments[id].what, f.on = experiments[id].on, ~ is_running(f.phase),
           experiments' = [experiments EXCEPT ![id] = f], hidden' = forget(id, hidden),
           begun' = begun, due' \subseteq due, id \notin due',
           structures' \subseteq Structures, plans' \in PlanType,
           earned' \in [Ids -> SampleCounts], proved' \in [Ids -> SUBSET Phases]
    PROVE  TrialsTyped' /\ ScopesApart' /\ MaskIsExact'
<1>1. /\ \A h \in hidden' : h \in hidden /\ h.by # id
      /\ \A h \in hidden : h.by # id => h \in hidden'
  BY DEF forget, MaskOf
<1> QED
  BY <1>1, OneTrial

\* Taking an experiment back keeps types, scopes and mask.
LEMMA RevertKeeps ==
    ASSUME TrialsTyped, ScopesApart, MaskIsExact,
           NEW id \in Running, NEW e, NEW f \in ExperimentType,
           f.what = experiments[id].what, f.on = experiments[id].on, ~ is_running(f.phase),
           experiments' = [experiments EXCEPT ![id] = f], revert(id, e),
           begun' = begun, due' \subseteq due, id \notin due',
           earned' \in [Ids -> SampleCounts], proved' \in [Ids -> SUBSET Phases]
    PROVE  TrialsTyped' /\ ScopesApart' /\ MaskIsExact'
<1>1. structures' \subseteq Structures
  BY PlansKeepTheirType DEF revert, Undone
<1>2. plans' \in PlanType
  <2>1. plans' = IF MaskOf(id, hidden) = {} THEN plans ELSE PlansAfter(e, structures')
    BY DEF revert
  <2>2. PlansAfter(e, structures') \in PlanType /\ plans \in PlanType
    BY PlansKeepTheirType
  <2> QED
    BY <2>1, <2>2
<1>3. hidden' = forget(id, hidden)
  BY DEF revert
<1> QED
  BY <1>1, <1>2, <1>3, ForgettingKeeps

\* An experiment that goes on with its mask as it was has been built before, if it is built.
LEMMA StayingKeeps ==
    ASSUME TrialsTyped, ScopesApart, MaskIsExact,
           NEW id \in Running, NEW f \in ExperimentType,
           f.what = experiments[id].what, f.on = experiments[id].on, is_running(f.phase),
           f.phase.name # "proposed" => experiments[id].phase.name # "proposed",
           experiments' = [experiments EXCEPT ![id] = f],
           begun' = begun, due' \subseteq due, UNCHANGED <<structures, hidden>>, plans' \in PlanType,
           earned' \in [Ids -> SampleCounts], proved' \in [Ids -> SUBSET Phases]
    PROVE  TrialsTyped' /\ ScopesApart' /\ MaskIsExact'
<1>1. structures' \subseteq Structures
  BY PlansKeepTheirType
<1>2. ASSUME NEW h \in hidden, h.by = id
      PROVE  h = Mark(id, f) /\ Maskable(f)
  <2>1. h = Mark(id, f)
    BY <1>2 DEF MaskIsExact, Mark
  <2>2. h \in [by : Running, what : Kinds, on : Collections]
    BY DEF TrialsTyped, ExperimentsTypeOK
  <2>3. h.on \in Collections /\ h.what # "switch"
    BY <2>2 DEF Kinds, Indexes
  <2>4. h.on = f.on /\ h.what = f.what
    BY <2>1 DEF Mark
  <2> QED
    BY <2>1, <2>3, <2>4, GlobalAssumption DEF Maskable
<1>3. f.phase.name # "proposed" /\ Maskable(f) => Mark(id, f) \in hidden
  BY DEF MaskIsExact, Mark, Maskable
<1> QED
  BY <1>1, <1>2, <1>3, OneTrial

\* What building a candidate adds to the mask: its mark, if it can be masked; no other running experiment has masked the like.
LEMMA RecordedIsExact ==
    ASSUME TrialsTyped, ScopesApart, MaskIsExact, NEW id \in Running, NEW e,
           e.what = experiments[id].what, e.on = experiments[id].on
    PROVE  /\ ~ Maskable(e) => Recorded(id, e) = {} /\ MaskOf(id, hidden) = {}
           /\ Maskable(e) => hidden \cup Recorded(id, e) = hidden \cup {Mark(id, e)}
<1>0. id \in Ids /\ experiments[id] \in ExperimentType
  BY TrialFacts
<1>2. ASSUME NEW h \in hidden, h.what = e.what, h.on = e.on, Maskable(e)
      PROVE  h = Mark(id, e)
  <2>1. h.by \in Running /\ h = Mark(h.by, experiments[h.by])
    BY TrialFacts DEF MaskIsExact
  <2>2. experiments[h.by].on = e.on
    BY <1>2, <2>1 DEF Mark
  <2>3. h.by = id
    BY <2>1, <2>2 DEF ScopesApart, scopes_overlap
  <2> QED
    BY <2>1, <2>3 DEF Mark
<1>3. ASSUME ~ Maskable(e) PROVE MaskOf(id, hidden) = {}
  <2>1. ASSUME NEW h \in hidden, h.by = id PROVE FALSE
    <3>1. h.on \in Collections /\ h = Mark(h.by, experiments[h.by])
      BY TrialFacts DEF MaskIsExact
    <3>2. h.what \in Kinds
      BY DEF TrialsTyped, ExperimentsTypeOK
    <3>3. h.on = e.on /\ h.what = e.what
      BY <2>1, <3>1 DEF Mark
    <3> QED
      BY <1>3, <3>1, <3>2, <3>3, GlobalAssumption DEF Maskable, Kinds, Indexes
  <2> QED
    BY <2>1 DEF MaskOf
<1>4. ASSUME Maskable(e)
      PROVE  hidden \cup Recorded(id, e) = hidden \cup {Mark(id, e)}
  <2>1. CASE \E h \in hidden : h.what = e.what /\ h.on = e.on
    <3>1. Mark(id, e) \in hidden
      BY <1>2, <1>4, <2>1
    <3>2. Recorded(id, e) \subseteq {Mark(id, e)}
      BY DEF Recorded, Mark
    <3> QED
      BY <3>1, <3>2
  <2>2. CASE ~ \E h \in hidden : h.what = e.what /\ h.on = e.on
    <3>1. Recorded(id, e) = {Mark(id, e)}
      BY <1>4, <2>2 DEF Recorded, Mark
    <3> QED
      BY <3>1
  <2> QED
    BY <2>1, <2>2
<1>5. ~ Maskable(e) => Recorded(id, e) = {}
  BY DEF Recorded
<1> QED
  BY <1>3, <1>4, <1>5

-----------------------------------------------------------------------------
(* Evidence                                                                  *)

\* One experiment becomes f, and only its evidence changes.
LEMMA OneEvidence ==
    ASSUME TrialsTyped, EvidenceIsFresh, PhasesProved,
           NEW id \in Ids, NEW f \in ExperimentType,
           experiments' = [experiments EXCEPT ![id] = f],
           \A i \in Ids : i # id => earned'[i] = earned[i] /\ proved'[i] = proved[i],
           is_measuring(f.phase) /\ ~ f.errors => f.samples = earned'[id],
           Before(f.phase) \subseteq proved'[id],
           f.phase.name = "promoted" => ~ f.divergences
    PROVE  EvidenceIsFresh' /\ PhasesProved'
<1>1. experiments \in [Ids -> ExperimentType]
  BY DEF TrialsTyped, ExperimentsTypeOK, ExperimentType, Whats, Scopes, SampleCounts
<1>2. /\ experiments'[id] = f
      /\ \A other \in Ids : other # id => experiments'[other] = experiments[other]
  BY <1>1
<1>3. EvidenceIsFresh'
  <2>1. ASSUME NEW i \in Ids, is_measuring(experiments'[i].phase), ~ experiments'[i].errors
        PROVE  experiments'[i].samples = earned'[i]
    <3>1. CASE i = id
      BY <1>2, <2>1, <3>1
    <3>2. CASE i # id
      BY <1>2, <2>1, <3>2 DEF EvidenceIsFresh
    <3> QED
      BY <3>1, <3>2
  <2> QED
    BY <2>1 DEF EvidenceIsFresh
<1>4. PhasesProved'
  <2>1. ASSUME NEW i \in Ids
        PROVE  /\ Before(experiments'[i].phase) \subseteq proved'[i]
               /\ experiments'[i].phase.name = "promoted" => ~ experiments'[i].divergences
    <3>1. CASE i = id
      BY <1>2, <3>1
    <3>2. CASE i # id
      BY <1>2, <3>2 DEF PhasesProved
    <3> QED
      BY <3>1, <3>2
  <2> QED
    BY <2>1 DEF PhasesProved
<1> QED
  BY <1>3, <1>4

-----------------------------------------------------------------------------
(* Advancing                                                                 *)

\* What a visit by advance_experiments can make of an experiment: keep it, take it back, or
\* move it on, healthy and with enough evidence of this phase.
Continued(e, f) ==
    /\ SameTrial(e, f) /\ f \in ExperimentType
    /\ \/ /\ f.phase = e.phase /\ f.samples = e.samples /\ f.errors = e.errors
       \/ f.phase.name = "reverted"
       \/ /\ f.phase = NextPhase(e.phase) /\ ~ e.divergences /\ ~ e.errors
          /\ is_measuring(e.phase) => Enough(e.samples, e.phase)
          /\ is_measuring(f.phase) => f.samples = NoSamples

\* What a visit does to the mask, to the structures and to the order of the visits.
VisitKeeps(id, f) ==
    /\ experiments' = [experiments EXCEPT ![id] = f]
    /\ due' \subseteq due \ {id}
    /\ f.phase.name = "reverted" /\ experiments[id].phase.name # "proposed"
         /\ Maskable(experiments[id]) => Own(experiments[id]) \notin structures'

\* Taken back from any phase but the first, what the experiment built is gone.
LEMMA RevertRemoves ==
    ASSUME TrialsTyped, MaskIsExact, NEW id \in Running, NEW e,
           e.what = experiments[id].what, e.on = experiments[id].on, revert(id, e),
           experiments[id].phase.name # "proposed", Maskable(experiments[id])
    PROVE  Own(experiments[id]) \notin structures'
<1>0. id \in Ids /\ experiments[id] \in ExperimentType
  BY TrialFacts
<1>1. Mark(id, experiments[id]) \in MaskOf(id, hidden)
  BY DEF MaskIsExact, MaskOf, Mark
<1>2. structures' = structures \ BuiltBy(e)
  BY <1>1 DEF revert, Undone
<1>3. Own(experiments[id]) \in BuiltBy(e)
  <2>1. e.on \in Collections
    BY <1>0 DEF ExperimentType, Scopes, Maskable
  <2> QED
    BY <2>1 DEF BuiltBy, Own
<1> QED
  BY <1>2, <1>3

\* What a verdict other than abort says of the experiment.
LEMMA Verdicts ==
    ASSUME NEW e
    PROVE  /\ "inconclusive" \in assess(e) => is_measuring(e.phase) /\ ~ (e.stalled >= MaxStalled)
           /\ "healthy" \in assess(e) =>
                /\ ~ e.divergences /\ ~ e.errors
                /\ is_measuring(e.phase) => Enough(e.samples, e.phase)
BY DEF assess

\* Building it: a candidate built for one collection is masked at once, one that is not is
\* taken back, and so is one that the gates refuse; if building fails, it is masked already.
LEMMA BuildKeeps ==
    ASSUME TrialsTyped, ScopesApart, MaskIsExact, NEW id \in Running,
           experiments[id].phase.name = "proposed",
           NEW e \in Begun, SameTrial(experiments[id], e),
           build_candidate(id, e), begun' = begun,
           earned' \in [Ids -> SampleCounts], proved' \in [Ids -> SUBSET Phases]
    PROVE  /\ TrialsTyped' /\ ScopesApart' /\ MaskIsExact'
           /\ \E phase \in {Phase("building"), Phase("reverted")} :
                experiments' = [experiments EXCEPT ![id] = enter(e, phase)]
           /\ due' \subseteq due \ {id}
<1>0. /\ id \in Ids /\ experiments[id] \in ExperimentType
      /\ e.what = experiments[id].what /\ e.on = experiments[id].on
  BY TrialFacts DEF SameTrial
<1>1. Phase("building") \in Phases /\ Phase("reverted") \in Phases
  BY PhaseCases
<1> PICK fb : fb = enter(e, Phase("building"))
  OBVIOUS
<1> PICK fr : fr = enter(e, Phase("reverted"))
  OBVIOUS
<1>2. /\ fb \in ExperimentType /\ fb.what = e.what /\ fb.on = e.on
      /\ fb.phase.name = "building" /\ is_running(fb.phase)
  <2>1. fb \in ExperimentType /\ SameTrial(e, fb) /\ fb.phase = Phase("building")
    BY <1>1, Entering
  <2>2. Phase("building").name = "building"
    BY DEF Phase
  <2> QED
    BY <2>1, <2>2 DEF SameTrial, is_running
<1>3. /\ fr \in ExperimentType /\ fr.what = e.what /\ fr.on = e.on
      /\ fr.phase.name = "reverted" /\ ~ is_running(fr.phase)
  <2>1. fr \in ExperimentType /\ SameTrial(e, fr) /\ fr.phase = Phase("reverted")
    BY <1>1, Entering
  <2>2. Phase("reverted").name = "reverted"
    BY DEF Phase
  <2> QED
    BY <2>1, <2>2 DEF SameTrial, is_running
<1>4. e.what \in Whats /\ e.on \in Scopes /\ (e.what \in Indexes => e.on # Global)
  BY <1>0 DEF ExperimentType, TrialsTyped
<1>5. BuiltBy(e) \subseteq Structures
  BY <1>4, BuiltByType
<1>6. /\ ~ Maskable(e) => Recorded(id, e) = {} /\ MaskOf(id, hidden) = {}
      /\ Maskable(e) => hidden \cup Recorded(id, e) = hidden \cup {Mark(id, e)}
      /\ Maskable(fb) <=> Maskable(e)
  BY <1>0, <1>2, RecordedIsExact DEF Maskable
<1>7. ASSUME Maskable(e), hidden' = hidden \cup {Mark(id, e)},
             experiments' = [experiments EXCEPT ![id] = fb], due' \subseteq due \ {id},
             structures' \subseteq Structures, plans' \in PlanType
      PROVE  TrialsTyped' /\ ScopesApart' /\ MaskIsExact'
  <2>1. Mark(id, fb) = Mark(id, e) /\ Mark(id, e).by = id
    BY <1>2 DEF Mark
  <2>2. ASSUME NEW h \in hidden', h.by = id
        PROVE  h = Mark(id, fb)
    <3>1. h \in hidden => h = Mark(h.by, experiments[h.by])
      BY DEF MaskIsExact
    <3>2. Mark(id, experiments[id]) = Mark(id, e)
      BY <1>0 DEF Mark
    <3> QED
      BY <1>7, <2>1, <2>2, <3>1, <3>2
  <2>3. /\ \A h \in hidden' : h \in hidden \/ h.by = id
        /\ \A h \in hidden : h.by # id => h \in hidden'
        /\ Mark(id, fb) \in hidden'
    BY <1>7, <2>1
  <2>4. Maskable(fb)
    BY <1>6, <1>7
  <2> QED
    BY <1>0, <1>2, <1>7, <2>2, <2>3, <2>4, OneTrial
<1>8. CASE built(id, e)
  <2>1. /\ structures' = structures \cup BuiltBy(e) /\ plans' = PlansAfter(e, structures')
        /\ due' = due \ {id}
    BY <1>8 DEF built
  <2>2. structures' \subseteq Structures /\ plans' \in PlanType
    <3>1. PlansAfter(e, structures') \in PlanType /\ structures \subseteq Structures
      BY PlansKeepTheirType
    <3> QED
      BY <1>5, <2>1, <3>1
  <2>3. CASE Maskable(e)
    <3>1. Mark(id, e) \in MaskOf(id, hidden \cup {Mark(id, e)})
      BY DEF MaskOf, Mark
    <3>2. hidden' = hidden \cup {Mark(id, e)} /\ experiments' = [experiments EXCEPT ![id] = fb]
      BY <1>6, <1>8, <2>3, <3>1 DEF built
    <3> QED
      BY <1>7, <2>1, <2>2, <2>3, <3>2
  <2>4. CASE ~ Maskable(e)
    <3>1. hidden \cup Recorded(id, e) = hidden /\ MaskOf(id, hidden) = {}
      BY <1>6, <2>4
    <3>2. hidden' = forget(id, hidden) /\ experiments' = [experiments EXCEPT ![id] = fr]
      BY <1>8, <3>1 DEF built
    <3>3. TrialsTyped' /\ ScopesApart' /\ MaskIsExact'
      BY <1>0, <1>3, <2>1, <2>2, <3>2, ForgettingKeeps
    <3> QED
      BY <2>1, <3>2, <3>3
  <2> QED
    BY <2>3, <2>4
<1>9. CASE build_refused(id, e)
  <2>1. /\ experiments' = [experiments EXCEPT ![id] = fr] /\ revert(id, e) /\ due' = due \ {id}
    BY <1>9 DEF build_refused
  <2>2. TrialsTyped' /\ ScopesApart' /\ MaskIsExact'
    BY <1>0, <1>3, <2>1, RevertKeeps
  <2> QED
    BY <2>1, <2>2
<1>10. CASE build_fails(id, e)
  <2>1. /\ experiments' = [experiments EXCEPT ![id] = fb] /\ due' = {}
        /\ hidden' = hidden \cup Recorded(id, e) /\ UNCHANGED <<structures, plans>>
    BY <1>10 DEF build_fails
  <2>2. structures' \subseteq Structures /\ plans' \in PlanType
    BY <2>1, PlansKeepTheirType
  <2>3. CASE Maskable(e)
    <3>1. hidden' = hidden \cup {Mark(id, e)}
      BY <1>6, <2>1, <2>3
    <3>2. TrialsTyped' /\ ScopesApart' /\ MaskIsExact'
      BY <1>7, <2>1, <2>2, <2>3, <3>1
    <3> QED
      BY <2>1, <3>2
  <2>4. CASE ~ Maskable(e)
    <3>1. hidden' = hidden
      BY <1>6, <2>1, <2>4
    <3>2. ~ \E h \in hidden' : h.by = id
      BY <1>6, <2>4, <3>1 DEF MaskOf
    <3>3. TrialsTyped' /\ ScopesApart' /\ MaskIsExact'
      BY <1>0, <1>2, <1>6, <2>1, <2>2, <2>4, <3>1, <3>2, OneTrial
    <3> QED
      BY <2>1, <3>3
  <2> QED
    BY <2>3, <2>4
<1> QED
  BY <1>8, <1>9, <1>10 DEF build_candidate

\* A visit ends in one of the ways above, and keeps types, scopes and mask.
LEMMA VisitMoves ==
    ASSUME TrialsTyped, ScopesApart, MaskIsExact, NEW id \in Ids, advance(id),
           earned' \in [Ids -> SampleCounts], proved' \in [Ids -> SUBSET Phases]
    PROVE  /\ id \in Running
           /\ TrialsTyped' /\ ScopesApart' /\ MaskIsExact'
           /\ \E f : Continued(experiments[id], f) /\ VisitKeeps(id, f)
<1> PICK old : old = experiments[id]
  OBVIOUS
<1> PICK e : e = Stalled(experiments[id])
  OBVIOUS
<1>1. id \in Running /\ id \in due /\ old \in ExperimentType /\ begun' = begun
  BY TrialFacts DEF advance, TrialsTyped, ExperimentsTypeOK
<1>2. /\ e \in Begun /\ SameTrial(old, e)
      /\ e.phase = old.phase /\ e.samples = old.samples /\ e.errors = old.errors
      /\ ~ is_measuring(old.phase) => e = old
  BY <1>1, Stalling
<1>3. old.phase \in Phases /\ is_running(old.phase) /\ e.what = old.what /\ e.on = old.on
  BY <1>1, <1>2 DEF ExperimentType, Running, SameTrial
<1> PICK back : back = enter(e, Phase("reverted"))
  OBVIOUS
<1>4. /\ back \in ExperimentType /\ SameTrial(old, back) /\ back.phase.name = "reverted"
      /\ ~ is_running(back.phase) /\ back.what = old.what /\ back.on = old.on
  <2>1. Phase("reverted") \in Phases /\ Phase("reverted").name = "reverted"
    BY PhaseCases
  <2>2. back \in ExperimentType /\ SameTrial(e, back) /\ back.phase = Phase("reverted")
    BY <1>2, <2>1, Entering
  <2>3. back.phase.name = "reverted"
    BY <2>1, <2>2
  <2> QED
    BY <1>2, <2>2, <2>3 DEF SameTrial, is_running
<1>5. ASSUME Aborted(id, e)
      PROVE  /\ TrialsTyped' /\ ScopesApart' /\ MaskIsExact'
             /\ \E f : Continued(experiments[id], f) /\ VisitKeeps(id, f)
  <2>1. /\ experiments' = [experiments EXCEPT ![id] = back] /\ revert(id, e)
        /\ due' = due \ {id}
    BY <1>5 DEF Aborted
  <2>2. TrialsTyped' /\ ScopesApart' /\ MaskIsExact'
    BY <1>1, <1>3, <1>4, <2>1, RevertKeeps
  <2>3. experiments[id].phase.name # "proposed" /\ Maskable(experiments[id]) =>
            Own(experiments[id]) \notin structures'
    BY <1>1, <1>3, <2>1, RevertRemoves
  <2>4. VisitKeeps(id, back)
    BY <2>1, <2>3 DEF VisitKeeps
  <2>5. Continued(experiments[id], back)
    BY <1>4 DEF Continued
  <2> QED
    BY <2>2, <2>4, <2>5
<1>6. ASSUME NEW f \in ExperimentType, Continued(old, f), f.what = old.what, f.on = old.on,
             is_running(f.phase), f.phase.name # "proposed" => old.phase.name # "proposed",
             f.phase.name # "reverted", Stays(id, f)
      PROVE  /\ TrialsTyped' /\ ScopesApart' /\ MaskIsExact'
             /\ Continued(experiments[id], f) /\ VisitKeeps(id, f)
  <2>1. /\ experiments' = [experiments EXCEPT ![id] = f] /\ due' = due \ {id}
        /\ UNCHANGED <<structures, hidden, plans>>
    BY <1>6 DEF Stays
  <2>2. plans' \in PlanType /\ due' \subseteq due
    BY <2>1, PlansKeepTheirType
  <2>3. TrialsTyped' /\ ScopesApart' /\ MaskIsExact'
    BY <1>1, <1>6, <2>1, <2>2, StayingKeeps
  <2>4. VisitKeeps(id, f)
    BY <1>6, <2>1 DEF VisitKeeps
  <2> QED
    BY <1>6, <2>3, <2>4
<1>7. ASSUME "inconclusive" \in assess(e), Stays(id, e)
      PROVE  /\ TrialsTyped' /\ ScopesApart' /\ MaskIsExact'
             /\ \E f : Continued(experiments[id], f) /\ VisitKeeps(id, f)
  <2>1. is_measuring(e.phase) /\ ~ (e.stalled >= MaxStalled)
    BY <1>7, Verdicts
  <2>2. e \in ExperimentType
    <3>1. e.stalled \in 0 .. MaxStalled
      BY <1>2, <2>1, SamplesAssumption DEF Begun
    <3> QED
      BY <1>2, <3>1 DEF Begun, ExperimentType
  <2>3. Continued(old, e)
    BY <1>2, <2>2 DEF Continued
  <2>4. is_running(e.phase) /\ e.phase.name # "reverted" /\ e.phase.name = old.phase.name
    BY <1>2, <1>3 DEF is_running
  <2> QED
    BY <1>3, <1>6, <1>7, <2>2, <2>3, <2>4
<1>8. ASSUME "healthy" \in assess(e), Moves(id, e)
      PROVE  /\ TrialsTyped' /\ ScopesApart' /\ MaskIsExact'
             /\ \E f : Continued(experiments[id], f) /\ VisitKeeps(id, f)
  <2> PICK next : next = NextPhase(e.phase)
    OBVIOUS
  <2>1. /\ ~ old.divergences /\ ~ old.errors
        /\ is_measuring(old.phase) => Enough(old.samples, old.phase)
    <3>1. /\ ~ e.divergences /\ ~ e.errors
          /\ is_measuring(e.phase) => Enough(e.samples, e.phase)
      BY <1>8, Verdicts
    <3> QED
      BY <1>2, <3>1 DEF SameTrial
  <2>2. /\ next \in Phases /\ (next.name = "building" <=> old.phase.name = "proposed")
        /\ next.name # "promoted" => is_running(next)
        /\ next.name # "proposed"
    BY <1>2, <1>3, GoingOn
  <2> PICK on : on = enter(e, next)
    OBVIOUS
  <2>3. /\ on \in ExperimentType /\ SameTrial(e, on) /\ on.phase = next
        /\ is_measuring(next) => on.samples = NoSamples
    BY <1>2, <2>2, Entering
  <2>4. on.what = old.what /\ on.on = old.on /\ SameTrial(old, on)
    BY <1>2, <2>3 DEF SameTrial
  <2>5. Continued(old, on)
    BY <1>2, <2>1, <2>3, <2>4 DEF Continued
  <2>6. CASE next.name = "building"
    <3>1. old.phase.name = "proposed" /\ build_candidate(id, e)
      BY <1>8, <2>2, <2>6 DEF Moves
    <3>2. /\ TrialsTyped' /\ ScopesApart' /\ MaskIsExact'
          /\ \E phase \in {Phase("building"), Phase("reverted")} :
               experiments' = [experiments EXCEPT ![id] = enter(e, phase)]
          /\ due' \subseteq due \ {id}
      BY <1>1, <1>2, <3>1, BuildKeeps
    <3>3. next = Phase("building")
      BY <1>2, <3>1 DEF NextPhase
    <3>4. CASE experiments' = [experiments EXCEPT ![id] = on]
      <4>1. VisitKeeps(id, on)
        BY <2>3, <2>6, <3>2, <3>4 DEF VisitKeeps
      <4> QED
        BY <2>5, <3>2, <4>1
    <3>5. CASE experiments' = [experiments EXCEPT ![id] = back]
      <4>1. VisitKeeps(id, back)
        BY <3>1, <3>2, <3>5 DEF VisitKeeps
      <4>2. Continued(experiments[id], back)
        BY <1>4 DEF Continued
      <4> QED
        BY <3>2, <4>1, <4>2
    <3> QED
      BY <3>2, <3>3, <3>4, <3>5
  <2>7. CASE next.name = "promoted"
    <3>1. /\ experiments' = [experiments EXCEPT ![id] = on] /\ retire_promoted(id)
          /\ due' = due \ {id}
      BY <1>8, <2>7 DEF Moves
    <3>2. hidden' = forget(id, hidden) /\ UNCHANGED <<structures, plans>>
      BY <3>1 DEF retire_promoted
    <3>3. ~ is_running(on.phase)
      BY <2>3, <2>7 DEF is_running
    <3>4. structures' \subseteq Structures /\ plans' \in PlanType /\ due' \subseteq due /\ id \notin due'
      BY <3>1, <3>2, PlansKeepTheirType
    <3>5. TrialsTyped' /\ ScopesApart' /\ MaskIsExact'
      BY <1>1, <2>3, <2>4, <3>1, <3>2, <3>3, <3>4, ForgettingKeeps
    <3>6. VisitKeeps(id, on)
      BY <2>3, <2>7, <3>1 DEF VisitKeeps
    <3> QED
      BY <2>5, <3>5, <3>6
  <2>8. CASE next.name \notin {"building", "promoted"}
    <3>1. Stays(id, on)
      BY <1>8, <2>8 DEF Moves
    <3>2. is_running(on.phase) /\ on.phase.name # "reverted" /\ old.phase.name # "proposed"
      BY <2>2, <2>3, <2>8 DEF is_running
    <3> QED
      BY <1>6, <2>3, <2>4, <2>5, <3>1, <3>2
  <2> QED
    BY <2>6, <2>7, <2>8
<1>9. \E verdict \in assess(e) :
         \/ verdict = "abort" /\ Aborted(id, e)
         \/ verdict = "inconclusive" /\ Stays(id, e)
         \/ verdict = "healthy" /\ Moves(id, e)
  BY DEF advance
<1> QED
  BY <1>1, <1>5, <1>7, <1>8, <1>9

\* A phase does not go on to itself.
LEMMA NextIsNew ==
    ASSUME NEW phase \in Phases, is_running(phase)
    PROVE  NextPhase(phase) # phase
<1>1. CASE phase.name \in {"proposed", "building"}
  BY <1>1, PhaseCases DEF NextPhase, Phase
<1>2. CASE phase.name = "shadow"
  <2>1. NextPhase(phase) = Canary(FirstStep)
    BY <1>2, ShareSteps DEF NextPhase, Entered
  <2> QED
    BY <1>2, <2>1 DEF Canary
<1>3. CASE phase.name = "canary"
  <2> PICK q : q = NextStep(phase.share)
    OBVIOUS
  <2>1. phase.share \in CanarySteps /\ phase.share < Hundred
    BY <1>3, PhaseCases
  <2>2. phase.share \in Nat /\ q \in Nat /\ q > phase.share
    BY <2>1, ShareSteps
  <2>3. NextPhase(phase) = Entered(q)
    BY <1>3 DEF NextPhase
  <2>4. NextPhase(phase) = Phase("promoted") \/ NextPhase(phase) = Canary(q)
    BY <2>3 DEF Entered
  <2>5. Phase("promoted").name = "promoted" /\ Canary(q).share = q
    BY DEF Phase, Canary
  <2> QED
    BY <1>3, <2>2, <2>4, <2>5
<1> QED
  BY <1>1, <1>2, <1>3 DEF is_running

\* What a visit notes of the evidence of an experiment.
LEMMA VisitEvidence ==
    ASSUME TrialsTyped, EvidenceIsFresh, PhasesProved, NEW id \in Running, NEW f,
           Continued(experiments[id], f), experiments' = [experiments EXCEPT ![id] = f],
           earned' = [earned EXCEPT ![id] =
               IF experiments'[id].phase # experiments[id].phase THEN NoSamples ELSE @],
           proved' = [proved EXCEPT ![id] =
               IF /\ experiments'[id].phase # experiments[id].phase
                  /\ is_measuring(experiments[id].phase)
                  /\ Enough(earned[id], experiments[id].phase)
               THEN @ \cup {experiments[id].phase} ELSE @]
    PROVE  EvidenceIsFresh' /\ PhasesProved'
<1> PICK old : old = experiments[id]
  OBVIOUS
<1>1. id \in Ids /\ old \in ExperimentType /\ old.phase \in Phases /\ is_running(old.phase)
  BY TrialFacts DEF ExperimentType, Running
<1>2. experiments'[id] = f
  <2>1. experiments \in [Ids -> ExperimentType]
    BY DEF TrialsTyped, ExperimentsTypeOK, ExperimentType, Whats, Scopes, SampleCounts
  <2> QED
    BY <1>1, <2>1
<1> PICK got : got = IF f.phase # old.phase THEN NoSamples ELSE earned[id]
  OBVIOUS
<1> PICK past : past =
      IF f.phase # old.phase /\ is_measuring(old.phase) /\ Enough(earned[id], old.phase)
      THEN proved[id] \cup {old.phase} ELSE proved[id]
  OBVIOUS
<1>3. /\ earned'[id] = got /\ proved'[id] = past
      /\ \A i \in Ids : i # id => earned'[i] = earned[i] /\ proved'[i] = proved[i]
  <2>1. earned \in [Ids -> SampleCounts] /\ proved \in [Ids -> SUBSET Phases]
    BY DEF TrialsTyped
  <2>2. earned' = [earned EXCEPT ![id] = got] /\ proved' = [proved EXCEPT ![id] = past]
    BY <1>2
  <2> QED
    BY <1>1, <2>1, <2>2
<1>4. f \in ExperimentType /\ f.divergences = old.divergences
  BY DEF Continued, SameTrial
<1>5. /\ is_measuring(old.phase) /\ ~ old.errors => old.samples = earned[id]
      /\ Before(old.phase) \subseteq proved[id]
      /\ old.phase.name # "promoted"
  BY <1>1 DEF EvidenceIsFresh, PhasesProved, is_running
<1>6. CASE f.phase = old.phase
  <2>1. got = earned[id] /\ past = proved[id]
    BY <1>6
  <2>2. (f.samples = old.samples /\ f.errors = old.errors) \/ f.phase.name = "reverted"
          \/ f.phase = NextPhase(old.phase)
    BY DEF Continued
  <2>3. is_measuring(f.phase) /\ ~ f.errors => f.samples = got
    <3>1. is_running(f.phase)
      BY <1>1, <1>6
    <3>2. f.phase.name # "reverted"
      BY <3>1 DEF is_running
    <3>3. f.phase = NextPhase(old.phase) => ~ is_measuring(f.phase)
      BY <1>1, <1>6, NextIsNew
    <3> QED
      BY <1>5, <1>6, <2>1, <2>2, <3>2, <3>3
  <2> QED
    BY <1>1, <1>3, <1>4, <1>5, <1>6, <2>1, <2>3, OneEvidence
<1>7. CASE f.phase # old.phase /\ f.phase.name = "reverted"
  <2>1. ~ is_measuring(f.phase) /\ Before(f.phase) = {} /\ f.phase.name # "promoted"
    BY <1>7 DEF is_measuring, Before
  <2> QED
    BY <1>1, <1>3, <1>4, <2>1, OneEvidence
<1>8. CASE f.phase # old.phase /\ f.phase.name # "reverted"
  <2>1. /\ f.phase = NextPhase(old.phase) /\ ~ old.divergences /\ ~ old.errors
        /\ is_measuring(old.phase) => Enough(old.samples, old.phase)
        /\ is_measuring(f.phase) => f.samples = NoSamples
    BY <1>8 DEF Continued
  <2>2. got = NoSamples
    BY <1>8
  <2>3. Before(f.phase) \subseteq past
    <3>1. CASE is_measuring(old.phase)
      <4>1. Enough(earned[id], old.phase)
        BY <1>5, <2>1, <3>1
      <4>2. past = proved[id] \cup {old.phase}
        BY <1>8, <3>1, <4>1
      <4>3. Before(f.phase) \subseteq Before(old.phase) \cup {old.phase}
        BY <1>1, <2>1, <3>1, GoingOn
      <4> QED
        BY <1>5, <4>2, <4>3
    <3>2. CASE ~ is_measuring(old.phase)
      <4>1. Before(f.phase) = {}
        BY <1>1, <2>1, <3>2, GoingOn
      <4> QED
        BY <4>1
    <3> QED
      BY <3>1, <3>2
  <2> QED
    BY <1>1, <1>3, <1>4, <2>1, <2>2, <2>3, OneEvidence
<1> QED
  BY <1>6, <1>7, <1>8

\* A visit keeps the invariant.
LEMMA VisitKeepsIt ==
    ASSUME TrialIInv, NEW id \in Ids, advance(id)
    PROVE  TrialIInv' /\ RemovesReverted
<1>1. /\ earned' = [earned EXCEPT ![id] =
             IF experiments'[id].phase # experiments[id].phase THEN NoSamples ELSE @]
      /\ proved' = [proved EXCEPT ![id] =
             IF /\ experiments'[id].phase # experiments[id].phase
                /\ is_measuring(experiments[id].phase)
                /\ Enough(earned[id], experiments[id].phase)
             THEN @ \cup {experiments[id].phase} ELSE @]
  BY DEF advance
<1>2. experiments[id].phase \in Phases
  BY TrialFacts DEF TrialIInv, ExperimentType
<1>3. earned' \in [Ids -> SampleCounts]
  BY <1>1, SamplesCount DEF TrialIInv, TrialsTyped
<1>4. proved' \in [Ids -> SUBSET Phases]
  BY <1>1, <1>2 DEF TrialIInv, TrialsTyped
<1>5. /\ id \in Running
      /\ TrialsTyped' /\ ScopesApart' /\ MaskIsExact'
      /\ \E f : Continued(experiments[id], f) /\ VisitKeeps(id, f)
  BY <1>3, <1>4, VisitMoves DEF TrialIInv
<1> PICK f : Continued(experiments[id], f) /\ VisitKeeps(id, f)
  BY <1>5
<1>6. experiments' = [experiments EXCEPT ![id] = f]
  BY DEF VisitKeeps
<1>7. EvidenceIsFresh' /\ PhasesProved'
  BY <1>1, <1>5, <1>6, VisitEvidence DEF TrialIInv
<1>8. RemovesReverted
  <2>1. experiments \in [Ids -> ExperimentType]
    BY DEF TrialIInv, TrialsTyped, ExperimentsTypeOK, ExperimentType, Whats, Scopes, SampleCounts
  <2>2. ASSUME NEW i \in Ids, Reverts(i), Maskable(experiments[i]), experiments[i].phase.name # "proposed"
        PROVE  [what |-> experiments[i].what, on |-> experiments[i].on] \notin structures'
    <3>1. CASE i = id
      BY <1>6, <2>1, <2>2, <3>1 DEF Reverts, VisitKeeps, Own
    <3>2. CASE i # id
      <4>1. experiments'[i] = experiments[i]
        BY <1>6, <2>1, <3>2
      <4> QED
        BY <2>2, <4>1 DEF Reverts, Running, is_running
    <3> QED
      BY <3>1, <3>2
  <2> QED
    BY <2>2 DEF RemovesReverted
<1> QED
  BY <1>5, <1>7, <1>8 DEF TrialIInv

-----------------------------------------------------------------------------
(* The other actions                                                         *)

\* What one trial of a query may change: what is counted, and not the phase.
LEMMA QueryKeepsIt ==
    ASSUME TrialIInv, NEW id \in Running, NEW f \in ExperimentType,
           f.what = experiments[id].what, f.on = experiments[id].on, f.phase = experiments[id].phase,
           experiments' = [experiments EXCEPT ![id] = f],
           UNCHANGED <<begun, due, structures, hidden, plans, proved>>,
           earned' \in [Ids -> SampleCounts],
           \A i \in Ids : i # id => earned'[i] = earned[i],
           is_measuring(f.phase) /\ ~ f.errors => f.samples = earned'[id]
    PROVE  TrialIInv' /\ RemovesReverted
<1>1. id \in Ids /\ is_running(f.phase) /\ f.phase.name \notin {"promoted", "reverted"}
  BY DEF Running, is_running
<1>2. proved' \in [Ids -> SUBSET Phases] /\ plans' \in PlanType /\ due' \subseteq due
  BY PlansKeepTheirType DEF TrialIInv, TrialsTyped
<1>3. TrialsTyped' /\ ScopesApart' /\ MaskIsExact'
  BY <1>1, <1>2, StayingKeeps DEF TrialIInv
<1>4. Before(f.phase) \subseteq proved'[id]
  BY <1>1 DEF TrialIInv, PhasesProved
<1>5. EvidenceIsFresh' /\ PhasesProved'
  BY <1>1, <1>4, OneEvidence DEF TrialIInv
<1>6. RemovesReverted
  <2>1. experiments \in [Ids -> ExperimentType]
    BY DEF TrialIInv, TrialsTyped, ExperimentsTypeOK, ExperimentType, Whats, Scopes, SampleCounts
  <2>2. ASSUME NEW i \in Ids, Reverts(i) PROVE FALSE
    <3>1. CASE i = id
      BY <1>1, <2>1, <2>2, <3>1 DEF Reverts
    <3>2. CASE i # id
      BY <2>1, <2>2, <3>2 DEF Reverts, Running, is_running
    <3> QED
      BY <3>1, <3>2
  <2> QED
    BY <2>2 DEF RemovesReverted
<1> QED
  BY <1>3, <1>5, <1>6 DEF TrialIInv

\* A query run both ways in the shadow phase keeps the invariant.
LEMMA ShadowTrialKeepsIt ==
    ASSUME TrialIInv, NEW id \in Running, shadow_trial(id),
           UNCHANGED <<begun, due, structures, hidden, proved>>
    PROVE  TrialIInv' /\ RemovesReverted
<1> PICK old : old = experiments[id]
  OBVIOUS
<1>1. id \in Ids /\ old \in ExperimentType /\ old.phase = Phase("shadow") /\ Phase("shadow") \in Phases
  BY TrialFacts, PhaseCases DEF TrialIInv, shadow_trial
<1>2. PICK diverged \in BOOLEAN : experiments' = [experiments EXCEPT ![id] = Compared(old, diverged)]
  BY DEF shadow_trial
<1> PICK f : f = Compared(old, diverged)
  OBVIOUS
<1>3. experiments' = [experiments EXCEPT ![id] = f]
  BY <1>2
<1>4. SampledTwice(old.samples, old.phase) \in SampleCounts
  BY <1>1, SamplesCount DEF ExperimentType
<1>5. /\ f \in ExperimentType /\ f.what = old.what /\ f.on = old.on /\ f.phase = old.phase
      /\ f.samples = SampledTwice(old.samples, old.phase) /\ f.errors = old.errors
  BY <1>1, <1>4 DEF ExperimentType, Compared
<1>6. earned \in [Ids -> SampleCounts] /\ UNCHANGED plans
      /\ earned' = [earned EXCEPT ![id] = SampledTwice(@, Phase("shadow"))]
  BY DEF shadow_trial, TrialIInv, TrialsTyped
<1>7. /\ earned' \in [Ids -> SampleCounts] /\ earned'[id] = SampledTwice(earned[id], Phase("shadow"))
      /\ \A i \in Ids : i # id => earned'[i] = earned[i]
  <2>1. SampledTwice(earned[id], Phase("shadow")) \in SampleCounts
    BY <1>1, <1>6, SamplesCount
  <2> QED
    BY <1>1, <1>6, <2>1
<1>8. is_measuring(f.phase) /\ ~ f.errors => f.samples = earned'[id]
  BY <1>1, <1>5, <1>7 DEF TrialIInv, EvidenceIsFresh
<1> QED
  BY <1>3, <1>5, <1>6, <1>7, <1>8, QueryKeepsIt

\* A query that fails in the shadow phase counts the last trial again, and keeps it.
LEMMA ShadowFailsKeepsIt ==
    ASSUME TrialIInv, NEW id \in Running, shadow_fails(id),
           UNCHANGED <<begun, due, structures, hidden, proved>>
    PROVE  TrialIInv' /\ RemovesReverted
<1> PICK old : old = experiments[id]
  OBVIOUS
<1>1. id \in Ids /\ old \in ExperimentType /\ old.phase \in Phases
  BY TrialFacts DEF TrialIInv, ExperimentType
<1>2. earned \in [Ids -> SampleCounts] /\ UNCHANGED <<plans, earned>>
  BY DEF shadow_fails, TrialIInv, TrialsTyped
<1> PICK f : f = CountedAgain(old)
  OBVIOUS
<1>3. experiments' = [experiments EXCEPT ![id] = f]
  BY DEF shadow_fails
<1>4. SampledTwice(old.samples, old.phase) \in SampleCounts
  BY <1>1, SamplesCount DEF ExperimentType
<1>5. /\ f \in ExperimentType /\ f.what = old.what /\ f.on = old.on /\ f.phase = old.phase
      /\ f.errors = TRUE \/ f = old
  BY <1>1, <1>4 DEF ExperimentType, CountedAgain
<1>6. is_measuring(f.phase) /\ ~ f.errors => f.samples = earned'[id]
  BY <1>1, <1>2, <1>5 DEF TrialIInv, EvidenceIsFresh
<1> QED
  BY <1>2, <1>3, <1>5, <1>6, QueryKeepsIt

\* A query served by one side of a canary keeps it.
LEMMA CanaryQueryKeepsIt ==
    ASSUME TrialIInv, NEW id \in Running, canary_query(id),
           UNCHANGED <<begun, due, structures, hidden, proved>>
    PROVE  TrialIInv' /\ RemovesReverted
<1> PICK old : old = experiments[id]
  OBVIOUS
<1> PICK side : side = SideOf(old)
  OBVIOUS
<1>1. id \in Ids /\ old \in ExperimentType /\ old.phase \in Phases /\ side \in Sides
  BY TrialFacts DEF TrialIInv, ExperimentType, SideOf, Sides
<1>2. PICK ok \in BOOLEAN : experiments' = [experiments EXCEPT ![id] = Served(old, ok)]
  BY DEF canary_query
<1> PICK f : f = Served(old, ok)
  OBVIOUS
<1>3. experiments' = [experiments EXCEPT ![id] = f]
  BY <1>2
<1>4. Sampled(old.samples, side, old.phase) \in SampleCounts
  BY <1>1, SamplesCount DEF ExperimentType
<1>5. (old.routed + 1) % Hundred \in 0 .. Hundred - 1
  <2>1. old.routed \in Nat
    BY <1>1, ShareSteps DEF ExperimentType
  <2> QED
    BY <2>1, ShareSteps
<1>6. /\ f \in ExperimentType /\ f.what = old.what /\ f.on = old.on /\ f.phase = old.phase
      /\ f.samples = Sampled(old.samples, side, old.phase) /\ (old.errors => f.errors)
  BY <1>1, <1>4, <1>5 DEF ExperimentType, Served
<1>7. /\ earned \in [Ids -> SampleCounts] /\ UNCHANGED plans
      /\ earned' = [earned EXCEPT ![id] = Sampled(@, side, old.phase)]
  BY DEF canary_query, TrialIInv, TrialsTyped
<1>8. /\ earned' \in [Ids -> SampleCounts] /\ earned'[id] = Sampled(earned[id], side, old.phase)
      /\ \A i \in Ids : i # id => earned'[i] = earned[i]
  <2>1. Sampled(earned[id], side, old.phase) \in SampleCounts
    BY <1>1, <1>7, SamplesCount
  <2> QED
    BY <1>1, <1>7, <2>1
<1>9. is_measuring(f.phase) /\ ~ f.errors => f.samples = earned'[id]
  BY <1>1, <1>6, <1>8 DEF TrialIInv, EvidenceIsFresh
<1> QED
  BY <1>3, <1>6, <1>7, <1>8, <1>9, QueryKeepsIt

\* While no running experiment is taken back, nothing has to be removed.
LEMMA NoReverts ==
    ASSUME \A i \in Running : experiments'[i].phase.name # "reverted"
    PROVE  RemovesReverted
BY DEF RemovesReverted, Reverts

\* An experiment begins where no running one has a query in common with it.
LEMMA BeginKeepsIt ==
    ASSUME TrialIInv, NEW t \in Trials, begin_experiment(t)
    PROVE  TrialIInv' /\ RemovesReverted
<1> PICK n : n = begun + 1
  OBVIOUS
<1> PICK scope : scope = t.on
  OBVIOUS
<1> PICK f : f = [NotBegun EXCEPT !.what = t.what, !.on = scope, !.phase = Phase("proposed")]
  OBVIOUS
<1>1. /\ due = {} /\ begun < MaxExperiments /\ begun' = n
      /\ \A id \in Running : ~ scopes_overlap(experiments[id].on, scope)
      /\ experiments' = [experiments EXCEPT ![n] = f]
      /\ UNCHANGED <<due, structures, hidden, plans, earned, proved>>
  BY DEF begin_experiment
<1>2. TrialsTyped /\ experiments \in [Ids -> ExperimentType]
  BY DEF TrialIInv, TrialsTyped, ExperimentsTypeOK, ExperimentType, Whats, Scopes, SampleCounts
<1>3. /\ n \in Ids /\ begun \in Nat /\ n \in 0 .. MaxExperiments /\ n \notin Running
      /\ \A i \in Ids : i > n => i > begun
  <2>1. begun \in 0 .. MaxExperiments /\ MaxExperiments \in Nat /\ Ids = 1 .. MaxExperiments
    BY <1>2, StepsAssumption DEF TrialsTyped, ExperimentsTypeOK, Ids
  <2>2. n \in Ids /\ n > begun /\ n \in 0 .. MaxExperiments /\ begun \in Nat
    BY <1>1, <2>1
  <2> QED
    BY <1>2, <2>1, <2>2 DEF TrialsTyped
<1>4. /\ t.what \in Whats /\ scope \in Scopes
      /\ t.what \in Indexes => scope # Global
  <2>1. t.what \in Whats /\ t.on \in Scopes /\ (t.what \in Indexes => t.on \in Collections)
    BY TrialsAssumption DEF Whats, Scopes, Kinds, Indexes
  <2> QED
    BY <2>1, GlobalAssumption DEF Scopes
<1>5. /\ f \in ExperimentType /\ f.what = t.what /\ f.on = scope
      /\ f.phase = Phase("proposed") /\ f.phase.name = "proposed"
  <2>1. Phase("proposed") \in Phases /\ Phase("none") \in Phases /\ Phase("proposed").name = "proposed"
    BY PhaseCases
  <2>2. 0 \in 0 .. Hundred - 1 /\ 0 \in 0 .. MaxStalled
    BY ShareSteps, SamplesAssumption
  <2> QED
    BY <1>4, <2>1, <2>2, SamplesCount DEF ExperimentType, NotBegun
<1>6. /\ experiments' \in [Ids -> ExperimentType] /\ experiments'[n] = f
      /\ \A i \in Ids : i # n => experiments'[i] = experiments[i]
  BY <1>1, <1>2, <1>3, <1>5
<1>7. Running' = Running \cup {n}
  <2>1. ASSUME NEW i PROVE i \in Running' <=> i \in Running \cup {n}
    <3>1. CASE i = n
      BY <1>3, <1>5, <1>6, <3>1 DEF Running, is_running
    <3>2. CASE i # n
      BY <1>6, <3>2 DEF Running
    <3> QED
      BY <3>1, <3>2
  <2> QED
    BY <2>1
<1>8. TrialsTyped'
  <2>1. hidden' \subseteq [by : Running', what : Kinds, on : Collections]
    BY <1>1, <1>2, <1>7 DEF TrialsTyped, ExperimentsTypeOK
  <2>2. ExperimentsTypeOK'
    <3>1. due' \subseteq Running'
      BY <1>1
    <3>2. begun' \in 0 .. MaxExperiments
      BY <1>1, <1>3
    <3>3. structures' \subseteq Structures /\ plans' \in [Collections -> Kinds \cup {"none", "scan"}]
      BY <1>1, <1>2 DEF TrialsTyped, ExperimentsTypeOK
    <3> QED
      BY <1>6, <2>1, <3>1, <3>2, <3>3 DEF ExperimentsTypeOK, ExperimentType, Whats, Scopes, SampleCounts
  <2>3. earned' \in [Ids -> SampleCounts] /\ proved' \in [Ids -> SUBSET Phases]
    BY <1>1, <1>2 DEF TrialsTyped
  <2>4. \A i \in Ids : i > begun' => i \notin Running'
    <3>1. ASSUME NEW i \in Ids, i > n PROVE i # n /\ i \notin Running
      BY <1>2, <1>3, <3>1 DEF TrialsTyped, Ids
    <3> QED
      BY <1>1, <1>7, <3>1
  <2>5. \A i \in Running' : experiments'[i].what \in Indexes => experiments'[i].on # Global
    <3>1. ASSUME NEW i \in Running', experiments'[i].what \in Indexes PROVE experiments'[i].on # Global
      <4>1. CASE i = n
        BY <1>4, <1>5, <1>6, <3>1, <4>1
      <4>2. CASE i # n
        <5>1. i \in Running /\ experiments'[i] = experiments[i]
          BY <1>6, <1>7, <4>2 DEF Running
        <5> QED
          BY <1>2, <3>1, <5>1 DEF TrialsTyped
      <4> QED
        BY <4>1, <4>2
    <3> QED
      BY <3>1
  <2> QED
    BY <2>2, <2>3, <2>4, <2>5 DEF TrialsTyped
<1>9. ScopesApart'
  <2>1. ASSUME NEW i \in Running', NEW j \in Running', i # j
        PROVE  ~ scopes_overlap(experiments'[i].on, experiments'[j].on)
    <3>1. CASE i # n /\ j # n
      <4>1. i \in Running /\ j \in Running /\ experiments'[i] = experiments[i] /\ experiments'[j] = experiments[j]
        BY <1>6, <1>7, <3>1 DEF Running
      <4> QED
        BY <2>1, <4>1 DEF TrialIInv, ScopesApart
    <3>2. CASE i = n
      <4>1. j \in Running /\ experiments'[j] = experiments[j] /\ experiments'[i].on = scope
        BY <1>5, <1>6, <1>7, <2>1, <3>2 DEF Running
      <4> QED
        BY <1>1, <4>1 DEF scopes_overlap
    <3>3. CASE j = n
      <4>1. i \in Running /\ experiments'[i] = experiments[i] /\ experiments'[j].on = scope
        BY <1>5, <1>6, <1>7, <2>1, <3>3 DEF Running
      <4> QED
        BY <1>1, <4>1 DEF scopes_overlap
    <3> QED
      BY <3>1, <3>2, <3>3
  <2> QED
    BY <2>1 DEF ScopesApart
<1>10. MaskIsExact'
  <2>1. ASSUME NEW h \in hidden' PROVE h = Mark(h.by, experiments'[h.by])
    <3>1. h \in hidden /\ h.by \in Running /\ h.by \in Ids /\ h.by # n
      BY <1>1, <1>2, <1>3, TrialFacts
    <3>2. experiments'[h.by] = experiments[h.by]
      BY <1>6, <3>1
    <3> QED
      BY <3>1, <3>2 DEF TrialIInv, MaskIsExact
  <2>2. ASSUME NEW i \in Running', experiments'[i].phase.name # "proposed", Maskable(experiments'[i])
        PROVE  Mark(i, experiments'[i]) \in hidden'
    <3>1. i # n
      BY <1>5, <1>6, <2>2
    <3>2. i \in Running /\ experiments'[i] = experiments[i]
      BY <1>6, <1>7, <3>1 DEF Running
    <3>3. experiments[i].phase.name # "proposed" /\ Maskable(experiments[i])
      BY <2>2, <3>2
    <3>4. Mark(i, experiments[i]) \in hidden
      BY <3>2, <3>3 DEF TrialIInv, MaskIsExact
    <3> QED
      BY <1>1, <3>2, <3>4
  <2> QED
    BY <2>1, <2>2 DEF MaskIsExact
<1>11. EvidenceIsFresh' /\ PhasesProved'
  <2>1. ~ is_measuring(f.phase) /\ Before(f.phase) = {} /\ f.phase.name # "promoted"
    BY <1>5 DEF is_measuring, Before
  <2>2. /\ Before(f.phase) \subseteq proved'[n]
        /\ \A i \in Ids : i # n => earned'[i] = earned[i] /\ proved'[i] = proved[i]
    BY <1>1, <2>1
  <2> QED
    BY <1>1, <1>2, <1>3, <1>5, <2>1, <2>2, OneEvidence DEF TrialIInv
<1>12. RemovesReverted
  <2>1. \A i \in Running : experiments'[i] = experiments[i]
    BY <1>3, <1>6 DEF Running
  <2> QED
    BY <2>1, NoReverts DEF Running, is_running
<1> QED
  BY <1>8, <1>9, <1>10, <1>11, <1>12 DEF TrialIInv

\* Steps that leave the experiments and their mask alone.
LEMMA RestKeepsIt ==
    ASSUME TrialIInv, UNCHANGED <<experiments, begun, hidden, earned, proved>>,
           due' \subseteq Running, structures' \subseteq Structures, plans' \in PlanType
    PROVE  TrialIInv' /\ RemovesReverted
<1>1. Running' = Running
  BY DEF Running
<1>2. TrialsTyped'
  <2>1. ExperimentsTypeOK'
    BY <1>1 DEF TrialIInv, TrialsTyped, ExperimentsTypeOK, PlanType
  <2> QED
    BY <1>1, <2>1 DEF TrialIInv, TrialsTyped
<1>3. ScopesApart' /\ MaskIsExact' /\ EvidenceIsFresh' /\ PhasesProved'
  BY <1>1 DEF TrialIInv, ScopesApart, MaskIsExact, EvidenceIsFresh, PhasesProved
<1>4. RemovesReverted
  BY NoReverts DEF Running, is_running
<1> QED
  BY <1>2, <1>3, <1>4 DEF TrialIInv

\* Aborting an experiment by hand keeps it.
LEMMA AbortKeepsIt ==
    ASSUME TrialIInv, NEW id \in Ids, abort_experiment(id)
    PROVE  TrialIInv' /\ RemovesReverted
<1> PICK old : old = experiments[id]
  OBVIOUS
<1> PICK f : f = enter(old, Phase("reverted"))
  OBVIOUS
<1>1. /\ due = {} /\ id \in Running /\ experiments' = [experiments EXCEPT ![id] = f]
      /\ revert(id, old) /\ UNCHANGED <<begun, due, earned, proved>>
  BY DEF abort_experiment
<1>2. TrialsTyped /\ old \in ExperimentType /\ old \in Begun
  <2>1. TrialsTyped /\ old \in ExperimentType
    BY TrialFacts DEF TrialIInv
  <2> QED
    BY <2>1, SamplesAssumption DEF ExperimentType, Begun
<1>3. f \in ExperimentType /\ SameTrial(old, f) /\ f.phase.name = "reverted"
  <2>1. Phase("reverted") \in Phases /\ Phase("reverted").name = "reverted"
    BY PhaseCases
  <2>2. f \in ExperimentType /\ SameTrial(old, f) /\ f.phase = Phase("reverted")
    BY <1>2, <2>1, Entering
  <2> QED
    BY <2>1, <2>2
<1>4. ~ is_running(f.phase) /\ f.what = old.what /\ f.on = old.on
  BY <1>3 DEF is_running, SameTrial
<1>5. earned' \in [Ids -> SampleCounts] /\ proved' \in [Ids -> SUBSET Phases]
  BY <1>1, <1>2 DEF TrialsTyped
<1>6. TrialsTyped' /\ ScopesApart' /\ MaskIsExact'
  BY <1>1, <1>3, <1>4, <1>5, RevertKeeps DEF TrialIInv
<1>7. EvidenceIsFresh' /\ PhasesProved'
  <2>1. ~ is_measuring(f.phase) /\ Before(f.phase) = {} /\ f.phase.name # "promoted"
    BY <1>3 DEF is_measuring, Before
  <2> QED
    BY <1>1, <1>3, <2>1, OneEvidence DEF TrialIInv
<1>8. RemovesReverted
  <2>1. ASSUME NEW i \in Ids, Reverts(i), Maskable(experiments[i]), experiments[i].phase.name # "proposed"
        PROVE  [what |-> experiments[i].what, on |-> experiments[i].on] \notin structures'
    <3>1. CASE i = id
      <4>1. Own(experiments[id]) \notin structures'
        BY <1>1, <1>2, <2>1, <3>1, RevertRemoves DEF TrialIInv
      <4> QED
        BY <3>1, <4>1 DEF Own
    <3>2. CASE i # id
      <4>1. experiments \in [Ids -> ExperimentType]
        BY <1>2 DEF TrialsTyped, ExperimentsTypeOK, ExperimentType, Whats, Scopes, SampleCounts
      <4>2. experiments'[i] = experiments[i]
        BY <1>1, <3>2, <4>1
      <4> QED
        BY <2>1, <4>2 DEF Reverts, Running, is_running
    <3> QED
      BY <3>1, <3>2
  <2> QED
    BY <2>1 DEF RemovesReverted
<1> QED
  BY <1>6, <1>7, <1>8 DEF TrialIInv

\* A query keeps it, whichever experiment it meets, or none.
LEMMA AskKeepsIt ==
    ASSUME TrialIInv, NEW c \in Collections, query(c)
    PROVE  TrialIInv' /\ RemovesReverted
<1>1. UNCHANGED <<begun, due, structures, hidden, proved>> /\ due = {}
  BY DEF query
<1>2. TrialsTyped /\ structures \subseteq Structures /\ plans \in PlanType
  BY PlansKeepTheirType DEF TrialIInv
<1>3. CASE query_normal(c)
  <2>1. PlanFor(c, Nobody) \in Kinds \cup {"none", "scan"}
    BY DEF PlanFor, Kinds, Indexes
  <2>2. plans' \in PlanType /\ UNCHANGED <<experiments, earned>>
    <3>1. plans' = [plans EXCEPT ![c] = IF @ = "none" THEN PlanFor(c, Nobody) ELSE @]
      BY <1>3 DEF query_normal
    <3> QED
      BY <1>2, <1>3, <2>1, <3>1 DEF query_normal, PlanType
  <2> QED
    BY <1>1, <1>2, <2>2, RestKeepsIt
<1>4. ASSUME NEW id \in experiment_for(c), shadow_trial(id) \/ shadow_fails(id) \/ canary_query(id)
      PROVE  TrialIInv' /\ RemovesReverted
  <2>1. id \in Running
    BY DEF experiment_for
  <2> QED
    BY <1>1, <1>4, <2>1, ShadowTrialKeepsIt, ShadowFailsKeepsIt, CanaryQueryKeepsIt
<1> QED
  BY <1>3, <1>4 DEF query

\* Indexes made and dropped by hand keep it.
LEMMA IndexKeepsIt ==
    ASSUME TrialIInv, NEW c \in ByHand, create_index(c) \/ drop_index(c)
    PROVE  TrialIInv' /\ RemovesReverted
<1>1. /\ UNCHANGED <<experiments, begun, due, hidden, earned, proved>>
      /\ due = {} /\ plans' = NoPlans
      /\ structures' \subseteq structures \cup {[what |-> "index", on |-> c]}
  BY DEF create_index, drop_index
<1>2. [what |-> "index", on |-> c] \in Structures
  BY GlobalAssumption DEF Structures, Kinds, Indexes
<1>3. structures \subseteq Structures /\ NoPlans \in PlanType
  BY PlansKeepTheirType DEF TrialIInv
<1> QED
  BY <1>1, <1>2, <1>3, RestKeepsIt

\* Before the first experiment the invariant holds.
LEMMA NothingTried == ExperimentsInit => TrialIInv
<1> SUFFICES ASSUME ExperimentsInit PROVE TrialIInv
  OBVIOUS
<1>1. /\ experiments = [id \in Ids |-> NotBegun] /\ begun = 0 /\ due = {}
      /\ structures = {} /\ hidden = {} /\ plans = NoPlans
      /\ earned = [id \in Ids |-> NoSamples] /\ proved = [id \in Ids |-> {}]
  BY DEF ExperimentsInit
<1>2. /\ NotBegun \in ExperimentType /\ NotBegun.phase.name = "none"
      /\ NotBegun.what = "index"
  <2>1. Phase("none") \in Phases /\ Phase("none").name = "none"
    BY PhaseCases
  <2>2. 0 \in 0 .. Hundred - 1 /\ 0 \in 0 .. MaxStalled
    BY ShareSteps, SamplesAssumption
  <2> QED
    BY <2>1, <2>2, SamplesCount DEF NotBegun, ExperimentType, Whats, Kinds, Indexes, Scopes
<1>3. Running = {}
  BY <1>1, <1>2 DEF Running, is_running
<1>4. ExperimentsTypeOK
  <2>1. experiments \in [Ids -> ExperimentType]
    BY <1>1, <1>2
  <2>2. begun \in 0 .. MaxExperiments
    BY <1>1, StepsAssumption
  <2> QED
    BY <1>1, <1>3, <2>1, <2>2 DEF ExperimentsTypeOK, ExperimentType, Whats, Scopes, SampleCounts, NoPlans
<1>5. TrialsTyped
  BY <1>1, <1>2, <1>3, <1>4, SamplesCount DEF TrialsTyped
<1>6. ScopesApart /\ MaskIsExact
  BY <1>1, <1>3 DEF ScopesApart, MaskIsExact
<1>7. EvidenceIsFresh /\ PhasesProved
  BY <1>1, <1>2 DEF EvidenceIsFresh, PhasesProved, is_measuring, Before
<1> QED
  BY <1>5, <1>6, <1>7 DEF TrialIInv

\* Every step keeps the invariant, and removes what it takes back.
LEMMA TrialStep == TrialIInv /\ [ExperimentsNext]_xvars => TrialIInv' /\ RemovesReverted
<1> SUFFICES ASSUME TrialIInv, [ExperimentsNext]_xvars PROVE TrialIInv' /\ RemovesReverted
  OBVIOUS
<1>1. /\ due \subseteq Running /\ structures \subseteq Structures /\ plans \in PlanType
  BY PlansKeepTheirType DEF TrialIInv, TrialsTyped, ExperimentsTypeOK
<1>2. CASE UNCHANGED xvars
  BY <1>1, <1>2, RestKeepsIt DEF xvars
<1>3. CASE advance_experiments
  BY <1>1, <1>3, RestKeepsIt DEF advance_experiments
<1>4. CASE \E id \in Ids : advance(id)
  BY <1>4, VisitKeepsIt
<1>5. CASE \E t \in Trials : begin_experiment(t)
  BY <1>5, BeginKeepsIt
<1>6. CASE \E id \in Ids : abort_experiment(id)
  BY <1>6, AbortKeepsIt
<1>7. CASE \E c \in Collections : query(c)
  BY <1>7, AskKeepsIt
<1>8. CASE \E c \in ByHand : create_index(c) \/ drop_index(c)
  BY <1>8, IndexKeepsIt
<1> QED
  BY <1>2, <1>3, <1>4, <1>5, <1>6, <1>7, <1>8 DEF ExperimentsNext, Advances

\* In every state of any database that tries changes out the invariant holds.
THEOREM TrialsInductive == ExperimentsSpec => []TrialIInv
<1>1. ExperimentsInit => TrialIInv
  BY NothingTried
<1>2. TrialIInv /\ [ExperimentsNext]_xvars => TrialIInv'
  BY TrialStep
<1> QED
  BY <1>1, <1>2, PTL DEF ExperimentsSpec

\* Whatever is taken back takes along what it built for its collection (retire_experiment).
THEOREM RevertsRemove == ExperimentsSpec => [][RemovesReverted]_xvars
<1>1. TrialIInv /\ [ExperimentsNext]_xvars => [RemovesReverted]_xvars
  BY TrialStep
<1> QED
  BY <1>1, TrialsInductive, PTL DEF ExperimentsSpec

-----------------------------------------------------------------------------
(* The share of a canary                                                     *)

\* Multiplying keeps an order.
LEMMA TimesKeepsOrder ==
    ASSUME NEW h \in Nat, NEW x \in Int, NEW y \in Int, x <= y
    PROVE  h * x <= h * y
<1>1. y - x \in Nat
  OBVIOUS
<1>2. h * (y - x) \in Nat
  BY <1>1
<1> QED
  BY <1>2

\* A quotient is where its divisor puts it.
LEMMA DivBetween ==
    ASSUME NEW h \in Nat \ {0}, NEW a \in Int
    PROVE  /\ a \div h \in Int
           /\ h * (a \div h) <= a /\ a < h * (a \div h) + h
OBVIOUS

\* Adding no more than the divisor moves the quotient by no more than one.
LEMMA DivSteps ==
    ASSUME NEW h \in Nat \ {0}, NEW a \in Int, NEW p \in Nat, p <= h
    PROVE  (a + p) \div h = a \div h \/ (a + p) \div h = a \div h + 1
<1> PICK q : q = a \div h
  OBVIOUS
<1> PICK s : s = (a + p) \div h
  OBVIOUS
<1>1. q \in Int /\ s \in Int /\ a + p \in Int
  BY DivBetween
<1>2. /\ h * q <= a /\ a < h * q + h
      /\ h * s <= a + p /\ a + p < h * s + h
  BY <1>1, DivBetween
<1>3. ~ (s + 1 <= q)
  <2>1. SUFFICES ASSUME s + 1 <= q PROVE FALSE
    OBVIOUS
  <2>2. h * (s + 1) <= h * q
    BY <1>1, <2>1, TimesKeepsOrder
  <2>3. h * (s + 1) = h * s + h
    BY <1>1
  <2>4. h * s \in Int /\ h * q \in Int
    BY <1>1
  <2> QED
    BY <1>2, <2>2, <2>3, <2>4
<1>4. ~ (q + 2 <= s)
  <2>1. SUFFICES ASSUME q + 2 <= s PROVE FALSE
    OBVIOUS
  <2>2. h * (q + 2) <= h * s
    BY <1>1, <2>1, TimesKeepsOrder
  <2>3. h * (q + 2) = h * q + h + h
    BY <1>1
  <2>4. h * s \in Int /\ h * q \in Int
    BY <1>1
  <2> QED
    BY <1>2, <2>2, <2>3, <2>4
<1> QED
  BY <1>1, <1>3, <1>4

\* Adding a multiple of the divisor moves the quotient by as many.
LEMMA DivShifts ==
    ASSUME NEW h \in Nat \ {0}, NEW a \in Int, NEW p \in Nat
    PROVE  (a + h * p) \div h = a \div h + p
<1> PICK q : q = a \div h
  OBVIOUS
<1> PICK hp : hp = h * p
  OBVIOUS
<1> PICK s : s = (a + hp) \div h
  OBVIOUS
<1>1. q \in Int /\ s \in Int /\ hp \in Int /\ a + hp \in Int
  BY DivBetween
<1>2. /\ h * q <= a /\ a < h * q + h
      /\ h * s <= a + hp /\ a + hp < h * s + h
  BY <1>1, DivBetween
<1>3. ~ (s + 1 <= q + p)
  <2>1. SUFFICES ASSUME s + 1 <= q + p PROVE FALSE
    OBVIOUS
  <2>2. h * (s + 1) <= h * (q + p)
    BY <1>1, <2>1, TimesKeepsOrder
  <2>3. h * (s + 1) = h * s + h /\ h * (q + p) = h * q + hp
    BY <1>1
  <2>4. h * s \in Int /\ h * q \in Int
    BY <1>1
  <2> QED
    BY <1>1, <1>2, <2>2, <2>3, <2>4
<1>4. ~ (q + p + 1 <= s)
  <2>1. SUFFICES ASSUME q + p + 1 <= s PROVE FALSE
    OBVIOUS
  <2>2. h * (q + p + 1) <= h * s
    BY <1>1, <2>1, TimesKeepsOrder
  <2>3. h * (q + p + 1) = h * q + hp + h
    BY <1>1
  <2>4. h * s \in Int /\ h * q \in Int
    BY <1>1
  <2> QED
    BY <1>1, <1>2, <2>2, <2>3, <2>4
<1> QED
  BY <1>1, <1>3, <1>4

\* The queries a canary takes among the m from the r-th on are as many as the quotient moves.
Taken(r, m, p) == {n \in r .. r + m - 1 : Routes(n, p)}
Moved(n, p) == (n * p) \div Hundred

\* The next query adds to those taken what it adds to the quotient.
LEMMA TakenNext ==
    ASSUME NEW r \in Nat, NEW p \in 1 .. Hundred, NEW m \in Nat,
           IsFiniteSet(Taken(r, m, p)),
           Cardinality(Taken(r, m, p)) = Moved(r + m, p) - Moved(r, p)
    PROVE  /\ IsFiniteSet(Taken(r, m + 1, p))
           /\ Cardinality(Taken(r, m + 1, p)) = Moved(r + (m + 1), p) - Moved(r, p)
<1>1. Hundred \in Nat \ {0} /\ p \in Nat /\ p <= Hundred
  BY ShareSteps
<1> PICK n : n = r + m
  OBVIOUS
<1> PICK x : x = n * p
  OBVIOUS
<1>2. n \in Nat /\ n + 1 = r + (m + 1) /\ x \in Int /\ (n + 1) * p = x + p
  BY <1>1
<1>3. Moved(n, p) = x \div Hundred /\ Moved(n + 1, p) = (x + p) \div Hundred
  BY <1>2 DEF Moved
<1>4. /\ Moved(n, p) \in Int /\ Moved(r, p) \in Int /\ Moved(n + 1, p) \in Int
      /\ Moved(n + 1, p) = Moved(n, p) \/ Moved(n + 1, p) = Moved(n, p) + 1
  <2>1. r * p \in Int
    BY <1>1
  <2>2. Moved(r, p) \in Int
    BY <1>1, <2>1, DivBetween DEF Moved
  <2>3. x \div Hundred \in Int
    BY <1>1, <1>2, DivBetween
  <2>4. \/ (x + p) \div Hundred = x \div Hundred
        \/ (x + p) \div Hundred = x \div Hundred + 1
    BY <1>1, <1>2, DivSteps
  <2>5. Moved(n, p) \in Int
    BY <1>3, <2>3
  <2>6. Moved(n + 1, p) = Moved(n, p) \/ Moved(n + 1, p) = Moved(n, p) + 1
    <3> PICK q : q = x \div Hundred
      OBVIOUS
    <3> PICK s : s = (x + p) \div Hundred
      OBVIOUS
    <3> QED
      BY <1>3, <2>4
  <2> QED
    BY <2>2, <2>5, <2>6
<1>5. Routes(n, p) <=> Moved(n + 1, p) > Moved(n, p)
  BY DEF Routes, Moved
<1>6. /\ n \notin r .. r + m - 1
      /\ r .. r + (m + 1) - 1 = (r .. r + m - 1) \cup {n}
  <2>1. r + m - 1 = n - 1 /\ r + (m + 1) - 1 = n /\ r <= n
    BY <1>2
  <2>2. n \notin r .. n - 1 /\ r .. n = (r .. n - 1) \cup {n}
    BY <1>2, <2>1
  <2> QED
    BY <2>1, <2>2
<1>7. CASE Routes(n, p)
  <2>1. Taken(r, m + 1, p) = Taken(r, m, p) \cup {n} /\ n \notin Taken(r, m, p)
    <3> PICK before : before = r .. r + m - 1
      OBVIOUS
    <3>1. r .. r + (m + 1) - 1 = before \cup {n} /\ n \notin before
      BY <1>6
    <3>2. Taken(r, m, p) = {k \in before : Routes(k, p)}
      BY DEF Taken
    <3>3. Taken(r, m + 1, p) = {k \in before \cup {n} : Routes(k, p)}
      BY <3>1 DEF Taken
    <3> QED
      BY <1>7, <3>1, <3>2, <3>3
  <2>2. /\ IsFiniteSet(Taken(r, m, p) \cup {n})
        /\ Cardinality(Taken(r, m, p) \cup {n}) = Cardinality(Taken(r, m, p)) + 1
    BY <2>1, FS_AddElement
  <2>3. Moved(n + 1, p) = Moved(n, p) + 1
    BY <1>4, <1>5, <1>7
  <2> QED
    BY <1>2, <1>4, <2>1, <2>2, <2>3
<1>8. CASE ~ Routes(n, p)
  <2>1. Taken(r, m + 1, p) = Taken(r, m, p)
    <3> PICK before : before = r .. r + m - 1
      OBVIOUS
    <3>1. r .. r + (m + 1) - 1 = before \cup {n}
      BY <1>6
    <3>2. Taken(r, m, p) = {k \in before : Routes(k, p)}
      BY DEF Taken
    <3>3. Taken(r, m + 1, p) = {k \in before \cup {n} : Routes(k, p)}
      BY <3>1 DEF Taken
    <3> QED
      BY <1>8, <3>2, <3>3
  <2>2. Moved(n + 1, p) = Moved(n, p)
    BY <1>4, <1>5, <1>8
  <2> QED
    BY <1>2, <1>4, <2>1, <2>2
<1> QED
  BY <1>7, <1>8

\* Of any hundred queries in a row a canary takes its share.
LEMMA SharesAreExact ==
    ASSUME NEW r \in Nat, NEW p \in 1 .. Hundred
    PROVE  Cardinality(Taken(r, Hundred, p)) = p
<1>1. Hundred \in Nat \ {0} /\ p \in Nat
  BY ShareSteps
<1> DEFINE Counted(m) == IsFiniteSet(Taken(r, m, p))
                           /\ Cardinality(Taken(r, m, p)) = Moved(r + m, p) - Moved(r, p)
           Failing == {m \in Nat : ~ Counted(m)}
<1>2. Moved(r, p) \in Int
  <2>1. r * p \in Int
    BY <1>1
  <2> QED
    BY <1>1, <2>1, DivBetween DEF Moved
<1>3. Counted(0)
  <2>1. Taken(r, 0, p) = {}
    BY DEF Taken
  <2>2. IsFiniteSet({}) /\ Cardinality({}) = 0
    BY FS_EmptySet
  <2> QED
    BY <1>2, <2>1, <2>2
<1>4. Failing = {}
  <2>1. SUFFICES ASSUME Failing # {} PROVE FALSE
    OBVIOUS
  <2>2. PICK m \in Failing : \A k \in Failing : m <= k
    BY <2>1, LeastOf
  <2>3. m \in Nat /\ m # 0
    BY <1>3
  <2>4. m - 1 \in Nat /\ ~ (m <= m - 1)
    BY <2>3
  <2>5. Counted(m - 1)
    BY <2>2, <2>4
  <2> HIDE DEF Counted
  <2>6. Counted(m - 1 + 1)
    BY <2>4, <2>5, TakenNext DEF Counted
  <2> QED
    BY <2>2, <2>3, <2>6
<1>5. Counted(Hundred)
  BY <1>1, <1>4
<1>6. Moved(r + Hundred, p) = Moved(r, p) + p
  <2> PICK x : x = r * p
    OBVIOUS
  <2>1. x \in Int /\ (r + Hundred) * p = x + Hundred * p
    BY <1>1
  <2>2. (x + Hundred * p) \div Hundred = x \div Hundred + p
    BY <1>1, <2>1, DivShifts
  <2> QED
    BY <2>1, <2>2 DEF Moved
<1> QED
  BY <1>1, <1>2, <1>5, <1>6

-----------------------------------------------------------------------------
(* What trials promise                                                       *)

\* No query is under two experiments, as no two running ones overlap in scope.
LEMMA OneTrialPerQuery ==
    ASSUME TrialIInv PROVE OneExperimentPerQuery
<1>1. ASSUME NEW c \in Collections
      PROVE  Cardinality({id \in Running : experiments[id].on \in {Global, c}}) <= 1
  <2> DEFINE Asking == {id \in Running : experiments[id].on \in {Global, c}}
  <2>1. \A i, j \in Asking : i = j
    BY DEF TrialIInv, ScopesApart, scopes_overlap
  <2>2. CASE Asking = {}
    BY <2>2, FS_EmptySet
  <2>3. CASE Asking # {}
    <3>1. PICK i : Asking = {i}
      BY <2>1, <2>3
    <3>2. Cardinality({i}) = 1
      BY FS_Singleton
    <3> QED
      BY <3>1, <3>2
  <2> QED
    BY <2>2, <2>3
<1> QED
  BY <1>1 DEF OneExperimentPerQuery

\* What a running experiment built is in no plan made for others, if it is of a kind the mask
\* is asked about.
LEMMA MasksHide ==
    ASSUME TrialIInv PROVE CandidatesStayHidden
<1>1. ASSUME NEW id \in Running, experiments[id].phase.name # "proposed",
             experiments[id].what \in Asked, experiments[id].on # Global,
             NEW other \in (Running \cup {Nobody}) \ {id}
      PROVE  [what |-> experiments[id].what, on |-> experiments[id].on]
                 \notin Visible(experiments[id].on, other)
  <2> PICK h : h = Mark(id, experiments[id])
    OBVIOUS
  <2>1. h \in hidden
    BY <1>1 DEF TrialIInv, MaskIsExact, Maskable, Asked
  <2>2. h.what = experiments[id].what /\ h.on = experiments[id].on /\ h.by # other
    BY <1>1 DEF Mark
  <2> QED
    BY <1>1, <2>1, <2>2 DEF Visible, Hides
<1> QED
  BY <1>1 DEF CandidatesStayHidden

\* A canary takes its share of any hundred queries, wherever they begin.
LEMMA CanariesAreExact ==
    ASSUME TrialIInv PROVE CanaryShareIsExact
<1>1. ASSUME NEW id \in Ids, experiments[id].phase.name = "canary"
      PROVE  Cardinality({n \in experiments[id].routed .. (experiments[id].routed + Hundred - 1) :
                              Routes(n, experiments[id].phase.share)})
                 = experiments[id].phase.share
  <2> PICK r : r = experiments[id].routed
    OBVIOUS
  <2> PICK p : p = experiments[id].phase.share
    OBVIOUS
  <2>1. experiments[id] \in ExperimentType
    BY TrialFacts DEF TrialIInv
  <2>2. r \in Nat
    BY <2>1, ShareSteps DEF ExperimentType
  <2>3. experiments[id].phase \in Canaries
    BY <1>1, <2>1, PhaseCases DEF ExperimentType
  <2>4. p \in CanarySteps
    BY <2>3, PhaseCases
  <2>5. p \in 1 .. Hundred
    BY <2>4, ShareSteps
  <2>6. Cardinality(Taken(r, Hundred, p)) = p
    BY <2>2, <2>5, SharesAreExact
  <2> QED
    BY <2>6 DEF Taken
<1> QED
  BY <1>1 DEF CanaryShareIsExact

\* Whatever else is tried, taken back or asked meanwhile: no query is evidence for two
\* trials, no candidate the mask is asked about is seen outside its own, none is promoted without enough evidence
\* of each phase, and a canary takes its exact share (TrialInvariant).
THEOREM TrialsAreSound == ExperimentsSpec => []TrialInvariant
<1>1. TrialIInv => TrialInvariant
  <2> SUFFICES ASSUME TrialIInv PROVE TrialInvariant
    OBVIOUS
  <2>1. ExperimentsTypeOK
    BY DEF TrialIInv, TrialsTyped
  <2>2. PromotionIsEarned
    BY DEF TrialIInv, PhasesProved, Before, PromotionIsEarned
  <2> QED
    BY <2>1, <2>2, OneTrialPerQuery, MasksHide, CanariesAreExact DEF TrialInvariant
<1> QED
  BY <1>1, TrialsInductive, PTL

-----------------------------------------------------------------------------
(* Telemetry: the inductive invariant                                        *)

\* What a shard or a walk has counted; durations are not followed here.
Cells == {<<r, Slot[id][r]>> : id \in Gets, r \in Rows}
Touching(t) ==
    /\ t = [counts |-> t.counts, observations |-> t.observations, touched |-> t.touched]
    /\ t.counts \in [Cells -> Nat] /\ t.touched \in [Gets -> Nat]
Counting(s) ==
    /\ s = [count |-> s.count, latency |-> s.latency, temperature |-> s.temperature]
    /\ s.count \in [Keys -> Nat]
    /\ Touching(s.temperature)

\* A filter pinned to a literal is a filter; no cell of the sketch of a record counts less than
\* the record was touched.
Pins(count) == \A f \in Fields : count[<<"equality", f>>] <= count[<<"filters", f>>]
Covers(t) == \A id \in Gets, r \in Rows : t.touched[id] <= t.counts[<<r, Slot[id][r]>>]
Truthful(s) == Counting(s) /\ Pins(s.count) /\ Covers(s.temperature)

\* What a call still has to record.  Only an event of a filter counts filters.
Others == {k \in Keys : k[1] \notin {"filters", "equality"}}
Events ==
    [kind : {"op"}, nanos : Durations] \cup [kind : {"touch"}, id : Gets]
      \cup [kind : {"filtered"}, field : Fields, equality : BOOLEAN]
      \cup [kind : {"count"}, key : Others]

\* What the first n of some shards have counted.
SubtotalsOf(sh, k) ==
    LET upto[n \in 0 .. Cardinality(Shards)] ==
            IF n = 0 THEN 0 ELSE upto[n - 1] + sh[n].count[k]
    IN  upto

\* A snapshot that met no forgetting has of the shards behind it no more than they hold now,
\* and with what the others hold now no less than all held when it began.
Between(sh, w) ==
    w.doing = "snapshot" /\ w.fresh =>
        \A k \in Keys :
            /\ w.out.count[k] <= SubtotalsOf(sh, k)[w.at - 1]
            /\ w.low[k] <= w.out.count[k]
                 + (SubtotalsOf(sh, k)[Cardinality(Shards)] - SubtotalsOf(sh, k)[w.at - 1])

Walking(w) ==
    /\ w = [doing |-> w.doing, at |-> w.at, out |-> w.out, fresh |-> w.fresh, low |-> w.low]
    /\ w.doing \in {"rest", "snapshot", "decay", "reset"} /\ w.at \in 1 .. Beyond
    /\ w.fresh \in BOOLEAN /\ w.low \in [Keys -> Nat] /\ Truthful(w.out)

Metered(sh, ca, wa) ==
    /\ sh = [s \in Shards |-> sh[s]] /\ \A s \in Shards : Truthful(sh[s])
    /\ ca = [by |-> ca.by, todo |-> ca.todo] /\ ca.todo \in Seq(Events)
    /\ wa = [w \in Walkers |-> wa[w]]
    /\ \A w \in Walkers : Walking(wa[w]) /\ Between(sh, wa[w])

MeterIInv == Metered(shards, call, walks)

-----------------------------------------------------------------------------
(* Telemetry: subtotals                                                      *)

\* The invariant of the next state speaks of the next state's variables.
LEMMA MeteredNext ==
    MeterIInv' <=> Metered(shards', call', walks')
BY DEF MeterIInv, Metered, Walking, Between, SubtotalsOf, Truthful, Counting, Touching, Pins, Covers,
       Cells, Rows, Keys, Fields, Others, Events, Walkers, Beyond

\* Subtotals by name, of this state and of the next.
LEMMA SubtotalsIs ==
    ASSUME NEW k
    PROVE  Subtotals(k) = SubtotalsOf(shards, k) /\ Subtotals(k)' = SubtotalsOf(shards', k)
BY DEF Subtotals, SubtotalsOf

\* There are sums of any numbers.
LEMMA SumsExist ==
    ASSUME NEW N \in Nat, NEW w \in [1 .. N -> Nat]
    PROVE  \E f : f = [n \in 0 .. N |-> IF n = 0 THEN 0 ELSE f[n - 1] + w[n]]
<1> DEFINE Good(m) == \E f \in [0 .. m -> Nat] : f[0] = 0 /\ \A n \in 0 .. m : n # 0 => f[n] = f[n - 1] + w[n]
<1>1. Good(N)
  <2>1. SUFFICES ASSUME ~ Good(N) PROVE FALSE
    OBVIOUS
  <2>2. PICK Bad : Bad = {m \in 0 .. N : ~ Good(m)}
    OBVIOUS
  <2>3. Bad \in SUBSET Nat /\ Bad # {}
    <3>1. N \in 0 .. N /\ \A m \in 0 .. N : m \in Nat
      OBVIOUS
    <3> HIDE DEF Good
    <3> QED
      BY <2>1, <2>2, <3>1
  <2>4. PICK m \in Bad : \A x \in Bad : m <= x
    BY <2>3, LeastOf
  <2>5. m \in 0 .. N /\ ~ Good(m)
    BY <2>2, <2>4
  <2>6. CASE m = 0
    <3>1. PICK f : f = [n \in 0 .. m |-> 0]
      OBVIOUS
    <3>2. f \in [0 .. m -> Nat] /\ f[0] = 0 /\ \A n \in 0 .. m : n # 0 => f[n] = f[n - 1] + w[n]
      BY <2>6, <3>1
    <3> QED
      BY <2>5, <3>2
  <2>7. CASE m # 0
    <3>1. m - 1 \in 0 .. N /\ m \in Nat /\ m \in 1 .. N
      BY <2>5, <2>7
    <3>2. Good(m - 1)
      <4>1. m - 1 \notin Bad
        BY <2>4, <3>1
      <4> HIDE DEF Good
      <4> QED
        BY <2>2, <3>1, <4>1
    <3>3. PICK f \in [0 .. m - 1 -> Nat] : f[0] = 0 /\ \A n \in 0 .. m - 1 : n # 0 => f[n] = f[n - 1] + w[n]
      BY <3>2
    <3>4. PICK g : g = [n \in 0 .. m |-> IF n = m THEN f[m - 1] + w[m] ELSE f[n]]
      OBVIOUS
    <3>5. g \in [0 .. m -> Nat] /\ g[0] = 0
      BY <2>7, <3>1, <3>3, <3>4
    <3>6. ASSUME NEW n \in 0 .. m, n # 0 PROVE g[n] = g[n - 1] + w[n]
      <4>1. n - 1 \in 0 .. m - 1 /\ n - 1 \in 0 .. m /\ n - 1 # m /\ (n # m => n \in 0 .. m - 1)
        BY <3>1, <3>6
      <4>2. g[n - 1] = f[n - 1]
        BY <3>4, <4>1
      <4> QED
        BY <3>3, <3>4, <3>6, <4>1, <4>2
    <3> QED
      BY <2>5, <3>5, <3>6
  <2> QED
    BY <2>6, <2>7
<1>2. PICK f \in [0 .. N -> Nat] : f[0] = 0 /\ \A n \in 0 .. N : n # 0 => f[n] = f[n - 1] + w[n]
  BY <1>1
<1>3. f = [n \in 0 .. N |-> IF n = 0 THEN 0 ELSE f[n - 1] + w[n]]
  BY <1>2
<1> QED
  BY <1>3

\* The number of shards.
LEMMA ShardCount ==
    ASSUME TelemetryAssumption
    PROVE  Cardinality(Shards) \in Nat /\ Shards = 1 .. Cardinality(Shards)
BY FS_CardinalityType DEF TelemetryAssumption

\* A subtotal is what was counted so far and what the next shard has counted.
LEMMA SubtotalFacts ==
    ASSUME TelemetryAssumption, NEW k \in Keys, NEW sh, \A s \in Shards : sh[s].count \in [Keys -> Nat]
    PROVE  /\ SubtotalsOf(sh, k) \in [0 .. Cardinality(Shards) -> Nat]
           /\ SubtotalsOf(sh, k)[0] = 0
           /\ \A s \in Shards : SubtotalsOf(sh, k)[s] = SubtotalsOf(sh, k)[s - 1] + sh[s].count[k]
<1> DEFINE N == Cardinality(Shards)
<1>0. N \in Nat /\ Shards = 1 .. N
  BY ShardCount
<1> HIDE DEF N
<1>1. PICK w : w = [s \in 1 .. N |-> sh[s].count[k]]
  OBVIOUS
<1>2. w \in [1 .. N -> Nat]
  BY <1>0, <1>1
<1>3. PICK f : f = [n \in 0 .. N |-> IF n = 0 THEN 0 ELSE f[n - 1] + w[n]]
  BY <1>0, <1>2, SumsExist
<1>4. f = [n \in 0 .. N |-> IF n = 0 THEN 0 ELSE f[n - 1] + sh[n].count[k]]
  <2>1. \A n \in 0 .. N : n # 0 => w[n] = sh[n].count[k]
    BY <1>0, <1>1
  <2> QED
    BY <1>3, <2>1
<1>5. PICK g : g = SubtotalsOf(sh, k)
  OBVIOUS
<1>6. g = [n \in 0 .. N |-> IF n = 0 THEN 0 ELSE g[n - 1] + sh[n].count[k]]
  BY <1>4, <1>5 DEF SubtotalsOf, N
<1>7. g[0] = 0 /\ \A n \in 0 .. N : n # 0 => g[n] = g[n - 1] + sh[n].count[k]
  BY <1>0, <1>6
<1>8. \A n \in 0 .. N : g[n] \in Nat
  <2>1. PICK Bad : Bad = {n \in 0 .. N : g[n] \notin Nat}
    OBVIOUS
  <2>2. SUFFICES ASSUME Bad # {} PROVE FALSE
    BY <2>1
  <2>3. Bad \in SUBSET Nat
    BY <1>0, <2>1
  <2>4. PICK m \in Bad : \A x \in Bad : m <= x
    BY <2>2, <2>3, LeastOf
  <2>5. m \in 0 .. N /\ g[m] \notin Nat /\ m # 0
    BY <1>7, <2>1, <2>4
  <2>6. m - 1 \in 0 .. N /\ m \in Shards /\ ~ (m <= m - 1)
    BY <1>0, <2>5
  <2>7. g[m - 1] \in Nat /\ sh[m].count[k] \in Nat
    BY <2>1, <2>4, <2>6
  <2> QED
    BY <1>7, <2>5, <2>7
<1>9. \A s \in Shards : g[s] = g[s - 1] + sh[s].count[k]
  BY <1>0, <1>7
<1>10. g \in [0 .. N -> Nat]
  BY <1>6, <1>8
<1> QED
  BY <1>5, <1>7, <1>9, <1>10 DEF N

\* Where no shard counts less than it did, neither does any range of them.
LEMMA SubtotalsGrow ==
    ASSUME TelemetryAssumption, NEW k \in Keys, NEW sh, NEW tn,
           \A s \in Shards : sh[s].count \in [Keys -> Nat] /\ tn[s].count \in [Keys -> Nat],
           \A s \in Shards : sh[s].count[k] <= tn[s].count[k],
           NEW a \in 0 .. Cardinality(Shards), NEW b \in a .. Cardinality(Shards)
    PROVE  SubtotalsOf(sh, k)[b] - SubtotalsOf(sh, k)[a] <= SubtotalsOf(tn, k)[b] - SubtotalsOf(tn, k)[a]
<1> DEFINE N == Cardinality(Shards)
<1>0. N \in Nat /\ Shards = 1 .. N
  BY ShardCount
<1>1. PICK f : f = SubtotalsOf(sh, k)
  OBVIOUS
<1>2. PICK g : g = SubtotalsOf(tn, k)
  OBVIOUS
<1>3. /\ f \in [0 .. N -> Nat] /\ g \in [0 .. N -> Nat]
      /\ \A s \in Shards : f[s] = f[s - 1] + sh[s].count[k] /\ g[s] = g[s - 1] + tn[s].count[k]
  BY <1>1, <1>2, SubtotalFacts
<1> HIDE DEF N
<1>4. PICK Bad : Bad = {n \in a .. N : ~ (f[n] - f[a] <= g[n] - g[a])}
  OBVIOUS
<1>5. SUFFICES ASSUME Bad # {} PROVE FALSE
  BY <1>1, <1>2, <1>4 DEF N
<1>6. a \in 0 .. N
  BY DEF N
<1>7. Bad \in SUBSET Nat
  BY <1>0, <1>4, <1>6
<1>8. PICK m \in Bad : \A x \in Bad : m <= x
  BY <1>5, <1>7, LeastOf
<1>9. m \in a .. N /\ ~ (f[m] - f[a] <= g[m] - g[a])
  BY <1>4, <1>8
<1>10. f[a] \in Nat /\ g[a] \in Nat
  BY <1>3, <1>6
<1>11. m # a
  BY <1>9, <1>10
<1>12. m \in Shards /\ m - 1 \in a .. N /\ m - 1 \in 0 .. N /\ ~ (m <= m - 1)
  BY <1>0, <1>6, <1>9, <1>11
<1>13. f[m - 1] - f[a] <= g[m - 1] - g[a]
  BY <1>4, <1>8, <1>12
<1>14. /\ f[m - 1] \in Nat /\ g[m - 1] \in Nat /\ sh[m].count[k] \in Nat /\ tn[m].count[k] \in Nat
       /\ sh[m].count[k] <= tn[m].count[k]
  BY <1>3, <1>12
<1>15. f[m] = f[m - 1] + sh[m].count[k] /\ g[m] = g[m - 1] + tn[m].count[k]
  BY <1>3, <1>12
<1> QED
  BY <1>9, <1>10, <1>13, <1>14, <1>15

-----------------------------------------------------------------------------
(* Telemetry: what an event, a decay and a merge do to what was counted      *)

\* The keys of the counters of filters, and what decays of them.
LEMMA KeysOfFilters ==
    ASSUME NEW f \in Fields
    PROVE  /\ <<"equality", f>> \in Keys /\ <<"filters", f>> \in Keys
           /\ <<"equality", f>> \in Decaying /\ <<"filters", f>> \in Decaying
           /\ <<"equality", f>> \notin Others /\ <<"filters", f>> \notin Others
BY DEF Keys, Decaying, Others

\* A shard begins with nothing, and nothing is truthful.
LEMMA NothingCountedYet ==
    Truthful(Shard) /\ \A k \in Keys : Shard.count[k] = 0
<1>1. Sketch = [counts |-> [c \in Cells |-> 0], observations |-> 0, touched |-> [id \in Gets |-> 0]]
  BY DEF Sketch, Cells
<1>2. Touching(Sketch)
  BY <1>1 DEF Touching
<1>3. Covers(Sketch)
  <2>1. \A id \in Gets, r \in Rows : <<r, Slot[id][r]>> \in Cells
    BY DEF Cells
  <2> QED
    BY <1>1, <2>1 DEF Covers
<1>4. Shard.count = [k \in Keys |-> 0] /\ Shard.temperature = Sketch
      /\ Shard = [count |-> Shard.count, latency |-> Shard.latency, temperature |-> Shard.temperature]
  BY DEF Shard
<1>5. Counting(Shard)
  BY <1>2, <1>4 DEF Counting
<1>6. \A k \in Keys : Shard.count[k] = 0
  BY <1>4
<1>7. Pins(Shard.count)
  <2> SUFFICES ASSUME NEW f \in Fields PROVE Shard.count[<<"equality", f>>] <= Shard.count[<<"filters", f>>]
    BY DEF Pins
  <2>1. Shard.count[<<"equality", f>>] = 0 /\ Shard.count[<<"filters", f>>] = 0
    BY <1>6, KeysOfFilters
  <2> QED
    BY <2>1
<1> QED
  BY <1>3, <1>4, <1>5, <1>6, <1>7 DEF Truthful

\* Halving cells and touches leaves no cell below its touches.
LEMMA HalvedCovers ==
    ASSUME NEW t, Touching(t), Covers(t)
    PROVE  Touching(decay_sketch(t)) /\ Covers(decay_sketch(t))
<1> DEFINE u == decay_sketch(t)
<1>1. /\ u = [counts |-> u.counts, observations |-> u.observations, touched |-> u.touched]
      /\ u.counts = [c \in Cells |-> t.counts[c] \div 2]
      /\ u.touched = [id \in Gets |-> t.touched[id] \div 2]
  <2>1. /\ t = [counts |-> t.counts, observations |-> t.observations, touched |-> t.touched]
        /\ DOMAIN t.counts = Cells
    BY DEF Touching
  <2>2. u = [t EXCEPT !.counts = [c \in DOMAIN t.counts |-> t.counts[c] \div 2],
                      !.touched = [id \in Gets |-> t.touched[id] \div 2]]
    BY DEF decay_sketch
  <2> HIDE DEF u
  <2>3. u = [counts |-> [c \in Cells |-> t.counts[c] \div 2], observations |-> t.observations,
             touched |-> [id \in Gets |-> t.touched[id] \div 2]]
    BY <2>1, <2>2
  <2> QED
    BY <2>3
<1>2. \A c \in Cells : t.counts[c] \in Nat /\ t.counts[c] \div 2 \in Nat
  BY DEF Touching
<1>3. \A id \in Gets : t.touched[id] \in Nat /\ t.touched[id] \div 2 \in Nat
  BY DEF Touching
<1> HIDE DEF u
<1>4. Touching(u)
  BY <1>1, <1>2, <1>3 DEF Touching
<1>5. ASSUME NEW id \in Gets, NEW r \in Rows PROVE u.touched[id] <= u.counts[<<r, Slot[id][r]>>]
  <2>1. <<r, Slot[id][r]>> \in Cells
    BY DEF Cells
  <2>2. t.touched[id] <= t.counts[<<r, Slot[id][r]>>]
    BY DEF Covers
  <2>3. u.touched[id] = t.touched[id] \div 2 /\ u.counts[<<r, Slot[id][r]>>] = t.counts[<<r, Slot[id][r]>>] \div 2
    BY <1>1, <2>1
  <2> QED
    BY <1>2, <1>3, <2>1, <2>2, <2>3
<1> QED
  BY <1>4, <1>5 DEF Covers, u

\* A touch is counted in every row, in the cell of the record.
LEMMA ObservedCovers ==
    ASSUME NEW t, Touching(t), Covers(t), NEW id \in Gets
    PROVE  Touching(observe(t, id)) /\ Covers(observe(t, id))
<1> DEFINE u == [counts |-> [c \in DOMAIN t.counts |->
                               t.counts[c] + IF Slot[id][c[1]] = c[2] THEN 1 ELSE 0],
                 observations |-> t.observations + 1,
                 touched |-> [t.touched EXCEPT ![id] = @ + 1]]
<1>1. observe(t, id) = IF u.observations % Interval = 0 THEN decay_sketch(u) ELSE u
  BY DEF observe
<1>2. /\ u = [counts |-> u.counts, observations |-> u.observations, touched |-> u.touched]
      /\ u.counts = [c \in Cells |-> t.counts[c] + IF Slot[id][c[1]] = c[2] THEN 1 ELSE 0]
      /\ u.touched = [x \in Gets |-> IF x = id THEN t.touched[x] + 1 ELSE t.touched[x]]
  BY DEF Touching
<1>3. (\A c \in Cells : t.counts[c] \in Nat) /\ \A x \in Gets : t.touched[x] \in Nat
  BY DEF Touching
<1> HIDE DEF u
<1>4. Touching(u)
  BY <1>2, <1>3 DEF Touching
<1>5. ASSUME NEW x \in Gets, NEW r \in Rows PROVE u.touched[x] <= u.counts[<<r, Slot[x][r]>>]
  <2> DEFINE c == <<r, Slot[x][r]>>
  <2>1. c \in Cells /\ c[1] = r /\ c[2] = Slot[x][r]
    BY DEF Cells
  <2>2. t.touched[x] <= t.counts[c]
    BY DEF Covers
  <2> HIDE DEF c
  <2>3. u.counts[c] = t.counts[c] + IF Slot[id][r] = Slot[x][r] THEN 1 ELSE 0
    BY <1>2, <2>1
  <2>4. u.touched[x] = IF x = id THEN t.touched[x] + 1 ELSE t.touched[x]
    BY <1>2
  <2>5. u.touched[x] <= u.counts[c]
    BY <1>3, <2>1, <2>2, <2>3, <2>4
  <2> QED
    BY <2>5 DEF c
<1>6. Covers(u)
  BY <1>5 DEF Covers
<1> QED
  BY <1>1, <1>4, <1>6, HalvedCovers

\* Sketches are merged cell by cell.
LEMMA MergedCovers ==
    ASSUME NEW t, NEW u, Touching(t), Covers(t), Touching(u), Covers(u)
    PROVE  Touching(merge_sketches(t, u)) /\ Covers(merge_sketches(t, u))
<1> DEFINE v == merge_sketches(t, u)
<1>1. /\ v = [counts |-> v.counts, observations |-> v.observations, touched |-> v.touched]
      /\ v.counts = [c \in Cells |-> t.counts[c] + u.counts[c]]
      /\ v.touched = [id \in Gets |-> t.touched[id] + u.touched[id]]
  BY DEF Touching, merge_sketches, Sum
<1>2. \A c \in Cells : t.counts[c] \in Nat /\ u.counts[c] \in Nat
  BY DEF Touching
<1>3. \A id \in Gets : t.touched[id] \in Nat /\ u.touched[id] \in Nat
  BY DEF Touching
<1> HIDE DEF v
<1>4. Touching(v)
  BY <1>1, <1>2, <1>3 DEF Touching
<1>5. ASSUME NEW id \in Gets, NEW r \in Rows PROVE v.touched[id] <= v.counts[<<r, Slot[id][r]>>]
  <2> DEFINE c == <<r, Slot[id][r]>>
  <2>1. c \in Cells
    BY DEF Cells
  <2>2. t.touched[id] <= t.counts[c] /\ u.touched[id] <= u.counts[c]
    BY DEF Covers
  <2> HIDE DEF c
  <2>3. v.touched[id] <= v.counts[c]
    BY <1>1, <1>2, <1>3, <2>1, <2>2
  <2> QED
    BY <2>3 DEF c
<1> QED
  BY <1>4, <1>5 DEF Covers, v

\* An event adds to counters and takes nothing from any; a filter is counted with its literal.
LEMMA RecordedTruthfully ==
    ASSUME NEW s, Truthful(s), NEW ev \in Events
    PROVE  /\ Truthful(record(s, ev))
           /\ \A k \in Keys : s.count[k] <= record(s, ev).count[k]
<1> DEFINE t == record(s, ev)
<1>0. /\ s = [count |-> s.count, latency |-> s.latency, temperature |-> s.temperature]
      /\ s.count \in [Keys -> Nat] /\ Touching(s.temperature)
      /\ Pins(s.count) /\ Covers(s.temperature)
  BY DEF Truthful, Counting
<1>1. CASE ev.kind = "touch"
  <2>1. ev.id \in Gets
    BY <1>1 DEF Events
  <2>2. t = [s EXCEPT !.temperature = observe(@, ev.id)]
    BY <1>1 DEF record
  <2>3. /\ t = [count |-> t.count, latency |-> t.latency, temperature |-> t.temperature]
        /\ t.count = s.count /\ t.temperature = observe(s.temperature, ev.id)
    BY <1>0, <2>2
  <2> HIDE DEF t
  <2>4. Truthful(t)
    BY <1>0, <2>1, <2>3, ObservedCovers DEF Truthful, Counting
  <2> QED
    BY <1>0, <2>3, <2>4 DEF t
<1>2. ASSUME t = [count |-> t.count, latency |-> t.latency, temperature |-> t.temperature],
             t.temperature = s.temperature,
             NEW A \in SUBSET Keys,
             t.count = [k \in Keys |-> IF k \in A THEN s.count[k] + 1 ELSE s.count[k]],
             \A f \in Fields : <<"equality", f>> \in A => <<"filters", f>> \in A
      PROVE  Truthful(t) /\ \A k \in Keys : s.count[k] <= t.count[k]
  <2> HIDE DEF t
  <2>1. \A k \in Keys : s.count[k] \in Nat
    BY <1>0
  <2>2. t.count \in [Keys -> Nat] /\ \A k \in Keys : s.count[k] <= t.count[k]
    BY <1>2, <2>1
  <2>3. ASSUME NEW f \in Fields PROVE t.count[<<"equality", f>>] <= t.count[<<"filters", f>>]
    <3> DEFINE e == <<"equality", f>>
               g == <<"filters", f>>
    <3>1. e \in Keys /\ g \in Keys /\ s.count[e] <= s.count[g] /\ (e \in A => g \in A)
      BY <1>0, <1>2, KeysOfFilters DEF Pins
    <3> HIDE DEF e, g
    <3>2. t.count[e] <= t.count[g]
      BY <1>2, <2>1, <3>1
    <3> QED
      BY <3>2 DEF e, g
  <2> QED
    BY <1>0, <1>2, <2>2, <2>3 DEF Truthful, Counting, Pins
<1>3. CASE ev.kind = "op"
  <2>1. t = [s EXCEPT !.count[<<"calls", "scan">>] = @ + 1, !.latency = observe_duration(@, ev.nanos)]
    BY <1>3 DEF record
  <2>2. PICK key : key = <<"calls", "scan">>
    OBVIOUS
  <2>3. key \in Keys /\ key[1] = "calls"
    BY <2>2 DEF Keys
  <2>4. /\ t = [count |-> t.count, latency |-> t.latency, temperature |-> t.temperature]
        /\ t.temperature = s.temperature
        /\ t.count = [s.count EXCEPT ![key] = @ + 1]
    BY <1>0, <2>1, <2>2
  <2> HIDE DEF t
  <2>5. t.count = [k \in Keys |-> IF k \in {key} THEN s.count[k] + 1 ELSE s.count[k]]
    BY <1>0, <2>3, <2>4
  <2>6. \A f \in Fields : <<"equality", f>> \notin {key}
    BY <2>3
  <2>7. {key} \in SUBSET Keys
    BY <2>3
  <2> QED
    BY <1>2, <2>4, <2>5, <2>6, <2>7 DEF t
<1>4. CASE ev.kind = "count"
  <2>1. t = [s EXCEPT !.count[ev.key] = @ + 1]
    BY <1>4 DEF record
  <2>2. ev.key \in Keys /\ ev.key[1] \notin {"filters", "equality"}
    BY <1>4 DEF Events, Others
  <2>3. PICK key : key = ev.key
    OBVIOUS
  <2>4. /\ t = [count |-> t.count, latency |-> t.latency, temperature |-> t.temperature]
        /\ t.temperature = s.temperature
        /\ t.count = [s.count EXCEPT ![key] = @ + 1]
    BY <1>0, <2>1, <2>3
  <2> HIDE DEF t
  <2>5. t.count = [k \in Keys |-> IF k \in {key} THEN s.count[k] + 1 ELSE s.count[k]]
    BY <1>0, <2>2, <2>3, <2>4
  <2>6. \A f \in Fields : <<"equality", f>> \notin {key}
    BY <2>2, <2>3
  <2>7. {key} \in SUBSET Keys
    BY <2>2, <2>3
  <2> QED
    BY <1>2, <2>4, <2>5, <2>6, <2>7 DEF t
<1>5. CASE ev.kind = "filtered"
  <2>1. PICK A : A = {k \in Keys : k = <<"filters", ev.field>> \/ (ev.equality /\ k = <<"equality", ev.field>>)}
    OBVIOUS
  <2>2. t = [s EXCEPT !.count =
               [k \in Keys |-> @[k] + IF k = <<"filters", ev.field>> \/ (ev.equality /\ k = <<"equality", ev.field>>)
                                      THEN 1 ELSE 0]]
    BY <1>5 DEF record
  <2>3. /\ t = [count |-> t.count, latency |-> t.latency, temperature |-> t.temperature]
        /\ t.temperature = s.temperature
        /\ t.count = [k \in Keys |-> s.count[k] +
               IF k = <<"filters", ev.field>> \/ (ev.equality /\ k = <<"equality", ev.field>>) THEN 1 ELSE 0]
    BY <1>0, <2>2
  <2> HIDE DEF t
  <2>4. t.count = [k \in Keys |-> IF k \in A THEN s.count[k] + 1 ELSE s.count[k]]
    <3>1. \A k \in Keys : s.count[k] \in Nat
      BY <1>0
    <3> QED
      BY <2>1, <2>3, <3>1
  <2>5. A \in SUBSET Keys
    BY <2>1
  <2>6. \A f \in Fields : <<"equality", f>> \in A => <<"filters", f>> \in A
    BY <2>1, KeysOfFilters
  <2> QED
    BY <1>2, <2>3, <2>4, <2>5, <2>6 DEF t
<1> QED
  BY <1>1, <1>3, <1>4, <1>5 DEF Events

\* Decay is the same for a filter and for its literal, and keeps their order.
LEMMA ScaleKeepsOrder ==
    ASSUME TelemetryAssumption, NEW m \in Nat, NEW n \in Nat, m <= n
    PROVE  scale(m) \in Nat /\ scale(m) <= scale(n)
<1>0. PICK a \in Nat, b \in Nat : a = Decay[1] /\ b = Decay[2] /\ b # 0
  BY DEF TelemetryAssumption
<1>1. PICK q : q = scale(m)
  OBVIOUS
<1>2. PICK r : r = scale(n)
  OBVIOUS
<1>3. m * a \in Int /\ n * a \in Int /\ m * a <= n * a /\ 0 <= m * a
  <2>1. a * m <= a * n /\ a * 0 <= a * m
    BY TimesKeepsOrder
  <2> QED
    BY <2>1
<1>4. /\ q \in Int /\ b * q <= m * a /\ m * a < b * q + b
      /\ r \in Int /\ b * r <= n * a /\ n * a < b * r + b
  <2>1. q = (m * a) \div b /\ r = (n * a) \div b
    BY <1>0, <1>1, <1>2 DEF scale
  <2> QED
    BY <1>0, <1>3, <2>1, DivBetween
<1>5. ~ (r + 1 <= q)
  <2>1. SUFFICES ASSUME r + 1 <= q PROVE FALSE
    OBVIOUS
  <2>2. b * (r + 1) <= b * q
    BY <1>4, <2>1, TimesKeepsOrder
  <2>3. b * (r + 1) = b * r + b /\ b * r \in Int /\ b * q \in Int
    BY <1>4
  <2> QED
    BY <1>3, <1>4, <2>2, <2>3
<1>6. ~ (q + 1 <= 0)
  <2>1. SUFFICES ASSUME q + 1 <= 0 PROVE FALSE
    OBVIOUS
  <2>2. b * (q + 1) <= b * 0
    BY <1>4, <2>1, TimesKeepsOrder
  <2>3. b * (q + 1) = b * q + b /\ b * q \in Int /\ b * 0 = 0
    BY <1>4
  <2> QED
    BY <1>3, <1>4, <2>2, <2>3
<1> QED
  BY <1>1, <1>2, <1>4, <1>5, <1>6

\* What is forgotten of a shard leaves it truthful.
LEMMA ForgottenTruthfully ==
    ASSUME TelemetryAssumption, NEW s, Truthful(s)
    PROVE  Truthful(Forgotten(s))
<1> DEFINE t == Forgotten(s)
<1>0. /\ s = [count |-> s.count, latency |-> s.latency, temperature |-> s.temperature]
      /\ s.count \in [Keys -> Nat] /\ Touching(s.temperature)
      /\ Pins(s.count) /\ Covers(s.temperature)
  BY DEF Truthful, Counting
<1>1. /\ t = [count |-> t.count, latency |-> t.latency, temperature |-> t.temperature]
      /\ t.temperature = s.temperature
      /\ t.count = [k \in Keys |-> IF k \in Decaying THEN scale(s.count[k]) ELSE s.count[k]]
  BY <1>0 DEF Forgotten
<1> HIDE DEF t
<1>2. \A k \in Keys : s.count[k] \in Nat /\ scale(s.count[k]) \in Nat
  BY <1>0, ScaleKeepsOrder
<1>3. t.count \in [Keys -> Nat]
  BY <1>1, <1>2
<1>4. ASSUME NEW f \in Fields PROVE t.count[<<"equality", f>>] <= t.count[<<"filters", f>>]
  <2> DEFINE e == <<"equality", f>>
             g == <<"filters", f>>
  <2>1. e \in Keys /\ g \in Keys /\ e \in Decaying /\ g \in Decaying /\ s.count[e] <= s.count[g]
    BY <1>0, KeysOfFilters DEF Pins
  <2> HIDE DEF e, g
  <2>2. t.count[e] <= t.count[g]
    BY <1>1, <1>2, <2>1, ScaleKeepsOrder
  <2> QED
    BY <2>2 DEF e, g
<1> QED
  BY <1>0, <1>1, <1>3, <1>4 DEF Truthful, Counting, Pins, t

\* A walk adds a shard to what it has.
LEMMA GatheredTruthfully ==
    ASSUME NEW o, NEW s, Truthful(o), Truthful(s)
    PROVE  /\ Truthful(gather(o, s))
           /\ \A k \in Keys : gather(o, s).count[k] = o.count[k] + s.count[k]
<1> DEFINE t == gather(o, s)
<1>0. /\ o.count \in [Keys -> Nat] /\ s.count \in [Keys -> Nat]
      /\ Touching(o.temperature) /\ Covers(o.temperature)
      /\ Touching(s.temperature) /\ Covers(s.temperature)
      /\ Pins(o.count) /\ Pins(s.count)
  BY DEF Truthful, Counting
<1>1. /\ t = [count |-> t.count, latency |-> t.latency, temperature |-> t.temperature]
      /\ t.temperature = merge_sketches(o.temperature, s.temperature)
      /\ t.count = [k \in Keys |-> o.count[k] + s.count[k]]
  BY <1>0 DEF gather, Sum
<1> HIDE DEF t
<1>2. \A k \in Keys : o.count[k] \in Nat /\ s.count[k] \in Nat
  BY <1>0
<1>3. t.count \in [Keys -> Nat] /\ \A k \in Keys : t.count[k] = o.count[k] + s.count[k]
  BY <1>1, <1>2
<1>4. ASSUME NEW f \in Fields PROVE t.count[<<"equality", f>>] <= t.count[<<"filters", f>>]
  <2> DEFINE e == <<"equality", f>>
             g == <<"filters", f>>
  <2>1. e \in Keys /\ g \in Keys /\ o.count[e] <= o.count[g] /\ s.count[e] <= s.count[g]
    BY <1>0, KeysOfFilters DEF Pins
  <2> HIDE DEF e, g
  <2>2. t.count[e] <= t.count[g]
    BY <1>2, <1>3, <2>1
  <2> QED
    BY <2>2 DEF e, g
<1>5. Touching(t.temperature) /\ Covers(t.temperature)
  BY <1>0, <1>1, MergedCovers
<1> QED
  BY <1>1, <1>3, <1>4, <1>5 DEF Truthful, Counting, Pins, t

-----------------------------------------------------------------------------
(* Telemetry: the events of a call                                           *)

\* A finite set, in some order.
LEMMA InSomeOrder ==
    ASSUME NEW S, IsFiniteSet(S)
    PROVE  Cardinality(S) \in Nat /\ SetToSeq(S) \in [1 .. Cardinality(S) -> S]
<1>1. Cardinality(S) \in Nat /\ ExistsBijection(1 .. Cardinality(S), S)
  BY FS_CardinalityType
<1>2. \E f \in [1 .. Cardinality(S) -> S] : IsInjective(f)
  BY <1>1 DEF ExistsBijection, Bijection, Injection
<1> QED
  BY <1>1, <1>2 DEF SetToSeq

\* Counters that are no filter's are events.
LEMMA CountsAreEvents ==
    ASSUME NEW K \in SUBSET Others, IsFiniteSet(K)
    PROVE  Count(K) \in Seq(Events)
<1>1. Cardinality(K) \in Nat /\ SetToSeq(K) \in [1 .. Cardinality(K) -> K]
  BY InSomeOrder
<1>2. \A i \in 1 .. Cardinality(K) : [kind |-> "count", key |-> SetToSeq(K)[i]] \in Events
  BY <1>1 DEF Events
<1>3. Count(K) \in [1 .. Cardinality(K) -> Events]
  BY <1>2 DEF Count
<1> QED
  BY <1>1, <1>3

\* What a query records.
LEMMA QueryEvents ==
    ASSUME TelemetryAssumption, NEW q \in Queries, NEW nanos \in Durations
    PROVE  events(q, nanos) \in Seq(Events)
<1> DEFINE F == q.equal \cup q.other
           P == q.projected
           C == IF P = {} THEN {} ELSE {g \in q.equal \cup q.ranged : P \ {g} # {}}
           T == {<<"covers", f, P \ {f}, f \in q.equal>> : f \in C}
           U == {"used"} \X q.indexed
           L == IF Cardinality(q.equal) > 1 THEN {<<"pinned", q.equal>>} ELSE {}
<1>0. /\ IsFiniteSet(q.equal) /\ IsFiniteSet(q.other) /\ q.ranged \subseteq F /\ q.indexed \subseteq F
      /\ F \subseteq Fields /\ q.equal \subseteq F
  BY DEF TelemetryAssumption, Fields
<1>1. IsFiniteSet(F)
  BY <1>0, FS_Union
<1>2. Filtered(q) \in Seq(Events)
  <2>1. Cardinality(F) \in Nat /\ SetToSeq(F) \in [1 .. Cardinality(F) -> F]
    BY <1>1, InSomeOrder
  <2>2. \A i \in 1 .. Cardinality(F) :
          [kind |-> "filtered", field |-> SetToSeq(F)[i], equality |-> SetToSeq(F)[i] \in q.equal] \in Events
    <3> SUFFICES ASSUME NEW i \in 1 .. Cardinality(F)
                 PROVE  [kind |-> "filtered", field |-> SetToSeq(F)[i], equality |-> SetToSeq(F)[i] \in q.equal] \in Events
      OBVIOUS
    <3>1. PICK f \in Fields : f = SetToSeq(F)[i]
      BY <1>0, <2>1
    <3>2. (f \in q.equal) \in BOOLEAN
      OBVIOUS
    <3>3. \A b \in BOOLEAN : [kind |-> "filtered", field |-> f, equality |-> b] \in Events
      BY DEF Events
    <3>4. [kind |-> "filtered", field |-> f, equality |-> f \in q.equal] \in Events
      BY <3>2, <3>3, Zenon
    <3> QED
      BY <3>1, <3>4, Zenon
  <2>3. Filtered(q) =
          [i \in 1 .. Cardinality(F) |->
             [kind |-> "filtered", field |-> SetToSeq(F)[i], equality |-> SetToSeq(F)[i] \in q.equal]]
    BY DEF Filtered
  <2>4. Filtered(q) \in [1 .. Cardinality(F) -> Events]
    BY <2>2, <2>3, Zenon
  <2>5. PICK n \in Nat : n = Cardinality(F)
    BY <2>1
  <2>6. Filtered(q) \in [1 .. n -> Events]
    BY <2>4, <2>5, Zenon
  <2> HIDE DEF F
  <2> QED
    BY <2>6
<1>3. C \subseteq F /\ IsFiniteSet(C)
  <2>1. C \subseteq F
    BY <1>0
  <2> QED
    BY <1>1, <2>1, FS_Subset
<1>4. IsFiniteSet(T) /\ T \subseteq Others
  <2>1. T \subseteq Others
    <3> SUFFICES ASSUME NEW f \in C PROVE <<"covers", f, P \ {f}, f \in q.equal>> \in Others
      OBVIOUS
    <3>1. f \in Fields
      BY <1>0, <1>3
    <3>2. PICK S : S = P \ {f}
      OBVIOUS
    <3>3. (f \in q.equal) \in BOOLEAN
      OBVIOUS
    <3>4. S \in {x.projected \ {g} : x \in Queries, g \in Fields}
      BY <3>1, <3>2
    <3>5. ASSUME NEW b \in BOOLEAN PROVE <<"covers", f, S, b>> \in Others
      <4>1. <<"covers", f, S, b>> \in {"covers"} \X Fields \X {x.projected \ {g} : x \in Queries, g \in Fields} \X BOOLEAN
        BY <3>1, <3>4
      <4>2. PICK e : e = <<"covers", f, S, b>>
        OBVIOUS
      <4>3. e \in Keys /\ e[1] = "covers"
        BY <4>1, <4>2 DEF Keys
      <4>4. e \in Others
        BY <4>3 DEF Others
      <4> QED
        BY <4>2, <4>4
    <3>6. <<"covers", f, S, f \in q.equal>> \in Others
      BY <3>3, <3>5, Zenon
    <3> QED
      BY <3>2, <3>6, Zenon
  <2>2. PICK h : h = [f \in C |-> <<"covers", f, P \ {f}, f \in q.equal>>]
    OBVIOUS
  <2>3. h \in Surjection(C, T)
    BY <2>2 DEF Surjection
  <2> QED
    BY <1>3, <2>1, <2>3, FS_Surjection
<1>5. IsFiniteSet(U) /\ U \subseteq Others
  <2>1. IsFiniteSet({"used"}) /\ IsFiniteSet(q.indexed)
    BY <1>0, <1>1, FS_Singleton, FS_Subset
  <2>2. IsFiniteSet(U)
    BY <2>1, FS_Product
  <2>3. \A u \in U : u \in Keys /\ u[1] = "used"
    BY <1>0 DEF Keys
  <2> QED
    BY <2>2, <2>3 DEF Others
<1>6. IsFiniteSet(L) /\ L \subseteq Others
  <2>1. PICK e : e = <<"pinned", q.equal>>
    OBVIOUS
  <2>2. e \in Keys /\ e[1] = "pinned"
    BY <2>1 DEF Keys
  <2>3. e \in Others
    BY <2>2 DEF Others
  <2>4. IsFiniteSet({e}) /\ IsFiniteSet({})
    BY FS_Singleton, FS_EmptySet
  <2> QED
    BY <2>1, <2>3, <2>4
<1>7. Together(q) = L \cup T
  BY DEF Together
<1> HIDE DEF L, T, U
<1>8. IsFiniteSet(Together(q) \cup U) /\ Together(q) \cup U \in SUBSET Others
  <2>1. IsFiniteSet(L \cup T)
    BY <1>4, <1>6, FS_Union
  <2>2. IsFiniteSet((L \cup T) \cup U)
    BY <1>5, <2>1, FS_Union
  <2> QED
    BY <1>4, <1>5, <1>6, <1>7, <2>2
<1>9. Count(Together(q) \cup U) \in Seq(Events)
  BY <1>8, CountsAreEvents
<1>10. <<[kind |-> "op", nanos |-> nanos]>> \in Seq(Events)
  <2>1. [kind |-> "op", nanos |-> nanos] \in Events
    BY DEF Events
  <2> QED
    BY <2>1
<1>11. events(q, nanos) = (Filtered(q) \o Count(Together(q) \cup U)) \o <<[kind |-> "op", nanos |-> nanos]>>
  BY DEF events, U
<1> QED
  BY <1>2, <1>9, <1>10, <1>11, ConcatProperties

\* A counter that is no filter's is one event.
LEMMA OneCount ==
    ASSUME NEW k \in Others
    PROVE  Count({k}) \in Seq(Events)
<1>1. IsFiniteSet({k}) /\ {k} \in SUBSET Others
  BY FS_Singleton
<1> QED
  BY <1>1, CountsAreEvents

-----------------------------------------------------------------------------
(* Telemetry: walks                                                          *)

\* A walk that begins has counted nothing, and a snapshot knows what there was.
LEMMA WalksBegin ==
    ASSUME TelemetryAssumption, MeterIInv, NEW what \in {"rest", "snapshot", "decay", "reset"}
    PROVE  /\ Walking(Begin(what)) /\ Between(shards, Begin(what))
           /\ Walking(Rest) /\ Between(shards, Rest)
<1> DEFINE N == Cardinality(Shards)
           low == [k \in Keys |-> IF what = "snapshot" THEN Total(k) ELSE 0]
<1>0. N \in Nat /\ Beyond = N + 1 /\ Shards = 1 .. N
  BY ShardCount DEF Beyond
<1>1. Begin(what) = [doing |-> what, at |-> 1, out |-> Shard, fresh |-> TRUE, low |-> low]
  <2>1. PICK r : r = Rest
    OBVIOUS
  <2>2. r = [doing |-> "rest", at |-> 1, out |-> Shard, fresh |-> TRUE, low |-> [k \in Keys |-> 0]]
    BY <2>1 DEF Rest
  <2>3. Begin(what) = [r EXCEPT !.doing = what, !.low = low]
    BY <2>1 DEF Begin
  <2> HIDE DEF low
  <2> QED
    BY <2>2, <2>3
<1>2. \A k \in Keys : /\ Total(k) = SubtotalsOf(shards, k)[N] /\ Total(k) \in Nat
                      /\ SubtotalsOf(shards, k)[0] = 0
  <2> SUFFICES ASSUME NEW k \in Keys
               PROVE  /\ Total(k) = SubtotalsOf(shards, k)[N] /\ Total(k) \in Nat
                      /\ SubtotalsOf(shards, k)[0] = 0
    OBVIOUS
  <2>1. \A s \in Shards : shards[s].count \in [Keys -> Nat]
    BY DEF MeterIInv, Metered, Truthful, Counting
  <2>2. SubtotalsOf(shards, k) \in [0 .. N -> Nat] /\ SubtotalsOf(shards, k)[0] = 0
    BY <2>1, SubtotalFacts
  <2>3. Total(k) = SubtotalsOf(shards, k)[N]
    BY SubtotalsIs DEF Total
  <2>4. N \in 0 .. N
    BY <1>0
  <2> QED
    BY <2>2, <2>3, <2>4
<1>3. low \in [Keys -> Nat]
  BY <1>2
<1>4. 1 \in 1 .. Beyond /\ 1 - 1 = 0
  BY <1>0
<1>5. Truthful(Shard) /\ \A k \in Keys : Shard.count[k] = 0
  BY NothingCountedYet
<1>6. Walking(Begin(what))
  <2> HIDE DEF low
  <2> QED
    BY <1>1, <1>3, <1>4, <1>5 DEF Walking
<1>7. Between(shards, Begin(what))
  <2> SUFFICES ASSUME what = "snapshot", NEW k \in Keys
               PROVE  /\ Shard.count[k] <= SubtotalsOf(shards, k)[0]
                      /\ low[k] <= Shard.count[k] + (SubtotalsOf(shards, k)[N] - SubtotalsOf(shards, k)[0])
    <3> HIDE DEF low
    <3> QED
      BY <1>1, <1>4 DEF Between, N
  <2>1. low[k] = Total(k)
    OBVIOUS
  <2> QED
    BY <1>2, <1>5, <2>1
<1>8. Rest = [doing |-> "rest", at |-> 1, out |-> Shard, fresh |-> TRUE, low |-> [k \in Keys |-> 0]]
  BY DEF Rest
<1>9. Walking(Rest) /\ Between(shards, Rest)
  <2>1. [k \in Keys |-> 0] \in [Keys -> Nat]
    OBVIOUS
  <2> QED
    BY <1>4, <1>5, <1>8, <2>1 DEF Walking, Between
<1> QED
  BY <1>6, <1>7, <1>9

\* A snapshot under way stays between its bounds while shards count on.
LEMMA WalksGoOn ==
    ASSUME TelemetryAssumption, NEW sh, NEW tn, NEW w, Walking(w), Between(sh, w),
           \A s \in Shards : sh[s].count \in [Keys -> Nat] /\ tn[s].count \in [Keys -> Nat],
           \A k \in Keys, s \in Shards : sh[s].count[k] <= tn[s].count[k]
    PROVE  Between(tn, w)
<1> DEFINE N == Cardinality(Shards)
<1>0. N \in Nat /\ w.at \in 1 .. N + 1 /\ w.low \in [Keys -> Nat] /\ w.out.count \in [Keys -> Nat]
  BY ShardCount DEF Walking, Beyond, Truthful, Counting
<1> SUFFICES ASSUME w.doing = "snapshot", w.fresh, NEW k \in Keys
             PROVE  /\ w.out.count[k] <= SubtotalsOf(tn, k)[w.at - 1]
                    /\ w.low[k] <= w.out.count[k] + (SubtotalsOf(tn, k)[N] - SubtotalsOf(tn, k)[w.at - 1])
  BY DEF Between
<1>1. PICK f : f = SubtotalsOf(sh, k)
  OBVIOUS
<1>2. PICK g : g = SubtotalsOf(tn, k)
  OBVIOUS
<1>3. f \in [0 .. N -> Nat] /\ f[0] = 0 /\ g \in [0 .. N -> Nat] /\ g[0] = 0
  BY <1>1, <1>2, SubtotalFacts
<1>4. /\ w.out.count[k] <= f[w.at - 1]
      /\ w.low[k] <= w.out.count[k] + (f[N] - f[w.at - 1])
  BY <1>1 DEF Between
<1> PICK a \in 0 .. N : a = w.at - 1
  BY <1>0
<1>5. 0 \in 0 .. N /\ a \in 0 .. N /\ N \in a .. N
  BY <1>0
<1>6. f[N] - f[a] <= g[N] - g[a]
  BY <1>1, <1>2, <1>5, SubtotalsGrow
<1>7. f[a] - f[0] <= g[a] - g[0]
  BY <1>1, <1>2, <1>5, SubtotalsGrow
<1>8. f[a] \in Nat /\ g[a] \in Nat /\ f[N] \in Nat /\ g[N] \in Nat
  BY <1>3, <1>5
<1>9. w.low[k] \in Nat /\ w.out.count[k] \in Nat
  BY <1>0
<1> HIDE DEF N
<1>10. w.out.count[k] <= g[a] /\ w.low[k] <= w.out.count[k] + (g[N] - g[a])
  BY <1>3, <1>4, <1>6, <1>7, <1>8, <1>9
<1> QED
  BY <1>2, <1>10

\* A shard more in a snapshot is a shard fewer before it.
LEMMA WalksGather ==
    ASSUME TelemetryAssumption, MeterIInv, NEW w, Walking(w), Between(shards, w),
           w.doing = "snapshot", w.at # Beyond,
           NEW v, v = [w EXCEPT !.at = @ + 1, !.out = gather(@, shards[w.at])]
    PROVE  Walking(v) /\ Between(shards, v)
<1> DEFINE N == Cardinality(Shards)
<1>0. /\ N \in Nat /\ Beyond = N + 1 /\ Shards = 1 .. N /\ w.at \in Shards
      /\ w = [doing |-> w.doing, at |-> w.at, out |-> w.out, fresh |-> w.fresh, low |-> w.low]
  BY ShardCount DEF Walking, Beyond
<1>1. v = [doing |-> w.doing, at |-> w.at + 1, out |-> gather(w.out, shards[w.at]), fresh |-> w.fresh, low |-> w.low]
  BY <1>0
<1>2. /\ Truthful(gather(w.out, shards[w.at]))
      /\ \A k \in Keys : gather(w.out, shards[w.at]).count[k] = w.out.count[k] + shards[w.at].count[k]
  BY <1>0, GatheredTruthfully DEF MeterIInv, Metered, Walking
<1>3. w.at \in Nat /\ w.at + 1 \in 1 .. Beyond /\ (w.at + 1) - 1 = w.at
  BY <1>0
<1>4. Walking(v)
  BY <1>1, <1>2, <1>3 DEF Walking
<1>5. ASSUME w.fresh, NEW k \in Keys
      PROVE  /\ v.out.count[k] <= SubtotalsOf(shards, k)[v.at - 1]
             /\ v.low[k] <= v.out.count[k] + (SubtotalsOf(shards, k)[N] - SubtotalsOf(shards, k)[v.at - 1])
  <2>1. PICK f : f = SubtotalsOf(shards, k)
    OBVIOUS
  <2>2. \A s \in Shards : shards[s].count \in [Keys -> Nat]
    BY DEF MeterIInv, Metered, Truthful, Counting
  <2>3. f \in [0 .. N -> Nat] /\ f[w.at] = f[w.at - 1] + shards[w.at].count[k]
    BY <1>0, <2>1, <2>2, SubtotalFacts
  <2>4. /\ w.out.count[k] <= f[w.at - 1]
        /\ w.low[k] <= w.out.count[k] + (f[N] - f[w.at - 1])
    BY <1>5, <2>1 DEF Between
  <2>5. w.out.count[k] \in Nat /\ w.low[k] \in Nat /\ shards[w.at].count[k] \in Nat
    BY <1>0, <2>2 DEF Walking, Truthful, Counting
  <2>6. w.at - 1 \in 0 .. N /\ N \in 0 .. N /\ w.at \in 0 .. N
    BY <1>0
  <2>7. f[w.at - 1] \in Nat /\ f[N] \in Nat /\ f[w.at] \in Nat
    BY <2>3, <2>6
  <2>8. v.out.count[k] = w.out.count[k] + shards[w.at].count[k] /\ v.low[k] = w.low[k] /\ v.at - 1 = w.at
    BY <1>1, <1>2, <1>3
  <2>9. v.out.count[k] <= f[w.at] /\ v.low[k] <= v.out.count[k] + (f[N] - f[w.at])
    <3> HIDE DEF N
    <3> QED
      BY <2>3, <2>4, <2>5, <2>7, <2>8
  <2> QED
    BY <2>1, <2>8, <2>9
<1>6. v.fresh = w.fresh
  BY <1>1
<1> QED
  BY <1>4, <1>5, <1>6 DEF Between

\* One walk moves; the shards and the call do not.
LEMMA WalkMoves ==
    ASSUME MeterIInv, NEW w \in Walkers, NEW v, walks' = [walks EXCEPT ![w] = v],
           Walking(v), Between(shards, v), UNCHANGED <<shards, call>>
    PROVE  MeterIInv'
<1>1. walks' = [x \in Walkers |-> IF x = w THEN v ELSE walks[x]]
  BY DEF MeterIInv, Metered
<1>2. walks' = [x \in Walkers |-> walks'[x]] /\ \A x \in Walkers : walks'[x] = IF x = w THEN v ELSE walks[x]
  BY <1>1
<1>3. ASSUME NEW x \in Walkers PROVE Walking(walks'[x]) /\ Between(shards', walks'[x])
  BY <1>2 DEF MeterIInv, Metered
<1>4. \A s \in Shards : Truthful(shards'[s])
  BY DEF MeterIInv, Metered
<1>5. shards' = [s \in Shards |-> shards'[s]]
  BY DEF MeterIInv, Metered
<1>6. call' = [by |-> call'.by, todo |-> call'.todo] /\ call'.todo \in Seq(Events)
  BY DEF MeterIInv, Metered
<1>7. Metered(shards', call', walks')
  BY <1>2, <1>3, <1>4, <1>5, <1>6 DEF Metered
<1> QED
  BY <1>7, MeteredNext

-----------------------------------------------------------------------------
(* Telemetry: the steps                                                      *)

\* Before any call.
LEMMA NothingMetered ==
    ASSUME TelemetryAssumption, TelemetryInit
    PROVE  MeterIInv
<1>1. Beyond \in Nat /\ 1 \in 1 .. Beyond
  BY ShardCount DEF Beyond
<1>2. /\ shards = [s \in Shards |-> Shard] /\ walks = [w \in Walkers |-> Rest]
      /\ call = [by |-> 1, todo |-> <<>>]
  BY DEF TelemetryInit
<1>3. Rest = [doing |-> "rest", at |-> 1, out |-> Shard, fresh |-> TRUE, low |-> [k \in Keys |-> 0]]
  BY DEF Rest
<1>4. Walking(Rest) /\ Between(shards, Rest)
  <2>1. [k \in Keys |-> 0] \in [Keys -> Nat]
    OBVIOUS
  <2> QED
    BY <1>1, <1>3, <2>1, NothingCountedYet DEF Walking, Between
<1>5. call = [by |-> call.by, todo |-> call.todo] /\ call.todo \in Seq(Events)
  BY <1>2
<1>6. /\ shards = [s \in Shards |-> shards[s]] /\ \A s \in Shards : Truthful(shards[s])
  BY <1>2, NothingCountedYet
<1>7. walks = [w \in Walkers |-> walks[w]] /\ \A w \in Walkers : Walking(walks[w]) /\ Between(shards, walks[w])
  BY <1>2, <1>4
<1> QED
  BY <1>5, <1>6, <1>7 DEF MeterIInv, Metered

\* A call begins: its events are all there is to it yet.
LEMMA CallStep ==
    ASSUME TelemetryAssumption, MeterIInv, NEW s \in Shards, run_query(s) \/ get(s) \/ maintain(s)
    PROVE  MeterIInv'
<1>1. PICK todo \in Seq(Events) : call' = [by |-> s, todo |-> todo]
  <2>1. CASE run_query(s)
    <3>1. PICK q \in Queries, nanos \in Durations : call' = [by |-> s, todo |-> events(q, nanos)]
      BY <2>1 DEF run_query
    <3> QED
      BY <3>1, QueryEvents
  <2>2. CASE get(s)
    <3>1. PICK touched \in {<<[kind |-> "touch", id |-> id]>> : id \in Gets} \cup {<<>>} :
            call' = [by |-> s, todo |-> touched \o Count({<<"calls", "get">>})]
      BY <2>2 DEF get
    <3>2. touched \in Seq(Events)
      <4>1. \A id \in Gets : [kind |-> "touch", id |-> id] \in Events
        BY DEF Events
      <4>2. CASE touched = <<>>
        BY <4>2
      <4>3. CASE \E id \in Gets : touched = <<[kind |-> "touch", id |-> id]>>
        <5>1. PICK e \in Events : touched = <<e>>
          BY <4>1, <4>3
        <5> QED
          BY <5>1
      <4> QED
        BY <3>1, <4>2, <4>3
    <3>3. PICK k : k = <<"calls", "get">>
      OBVIOUS
    <3>4. k \in Keys /\ k[1] = "calls"
      BY <3>3 DEF Keys
    <3>5. Count({k}) \in Seq(Events)
      BY <3>4, OneCount DEF Others
    <3> QED
      BY <3>1, <3>2, <3>3, <3>5, ConcatProperties
  <2>3. CASE maintain(s)
    <3>1. PICK f \in Fields : call' = [by |-> s, todo |-> Count({<<"maintained", f>>})]
      BY <2>3 DEF maintain
    <3>2. PICK k : k = <<"maintained", f>>
      OBVIOUS
    <3>3. k \in Keys /\ k[1] = "maintained"
      BY <3>2 DEF Keys
    <3>4. Count({k}) \in Seq(Events)
      BY <3>3, OneCount DEF Others
    <3> QED
      BY <3>1, <3>2, <3>4
  <2> QED
    BY <2>1, <2>2, <2>3
<1>2. shards' = shards /\ walks' = walks
  BY DEF run_query, get, maintain
<1>3. call' = [by |-> call'.by, todo |-> call'.todo] /\ call'.todo \in Seq(Events)
  BY <1>1
<1>4. Metered(shards', call', walks')
  BY <1>2, <1>3 DEF MeterIInv, Metered
<1> QED
  BY <1>4, MeteredNext

\* An event is recorded under the lock of one shard, whatever walks are under way.
LEMMA EmitStep ==
    ASSUME TelemetryAssumption, MeterIInv, emit
    PROVE  MeterIInv'
<1>0. /\ shards = [s \in Shards |-> shards[s]] /\ \A s \in Shards : Truthful(shards[s])
      /\ call = [by |-> call.by, todo |-> call.todo] /\ call.todo \in Seq(Events)
      /\ walks = [w \in Walkers |-> walks[w]]
      /\ \A w \in Walkers : Walking(walks[w]) /\ Between(shards, walks[w])
  BY DEF MeterIInv, Metered
<1>1. call.todo # <<>> /\ Head(call.todo) \in Events /\ Tail(call.todo) \in Seq(Events)
  BY <1>0, HeadTailProperties DEF emit, Exclusive
<1>2. PICK e \in Events : e = Head(call.todo)
  BY <1>1
<1>3. /\ shards' = [shards EXCEPT ![call.by] = record(@, e)]
      /\ call' = [call EXCEPT !.todo = Tail(@)] /\ walks' = walks
  BY <1>2 DEF emit
<1>4. shards' = [s \in Shards |-> IF s = call.by THEN record(shards[s], e) ELSE shards[s]]
  BY <1>0, <1>3
<1>5. /\ shards' = [s \in Shards |-> shards'[s]]
      /\ \A s \in Shards : shards'[s] = record(shards[s], e) \/ shards'[s] = shards[s]
  BY <1>4
<1>6. \A s \in Shards : Truthful(shards'[s])
  BY <1>0, <1>5, RecordedTruthfully
<1>7. \A s \in Shards : shards[s].count \in [Keys -> Nat] /\ shards'[s].count \in [Keys -> Nat]
  BY <1>0, <1>6 DEF Truthful, Counting
<1>8. \A k \in Keys, s \in Shards : shards[s].count[k] <= shards'[s].count[k]
  <2> SUFFICES ASSUME NEW k \in Keys, NEW s \in Shards PROVE shards[s].count[k] <= shards'[s].count[k]
    OBVIOUS
  <2>1. CASE shards'[s] = record(shards[s], e)
    BY <1>0, <2>1, RecordedTruthfully
  <2>2. CASE shards'[s] = shards[s]
    <3>1. shards[s].count[k] \in Nat
      BY <1>7
    <3> QED
      BY <2>2, <3>1
  <2> QED
    BY <1>5, <2>1, <2>2
<1>9. \A w \in Walkers : Walking(walks[w]) /\ Between(shards', walks[w])
  BY <1>0, <1>7, <1>8, WalksGoOn
<1>10. call' = [by |-> call'.by, todo |-> call'.todo] /\ call'.todo \in Seq(Events)
  BY <1>0, <1>1, <1>3
<1>11. Metered(shards', call', walks')
  BY <1>0, <1>3, <1>5, <1>6, <1>9, <1>10 DEF Metered
<1> QED
  BY <1>11, MeteredNext

\* A walk begins or ends.
LEMMA BeginStep ==
    ASSUME TelemetryAssumption, MeterIInv,
           optimize \/ forget_a_little \/ monitor("snapshot") \/ monitor("reset")
             \/ finish("optimizer") \/ finish("monitor")
    PROVE  MeterIInv'
<1>1. PICK w, v : /\ w \in Walkers /\ walks' = [walks EXCEPT ![w] = v]
                  /\ v = Rest \/ \E what \in {"snapshot", "decay", "reset"} : v = Begin(what)
  BY DEF optimize, forget_a_little, monitor, finish, Walkers
<1>2. UNCHANGED <<shards, call>>
  BY DEF optimize, forget_a_little, monitor, finish
<1>3. Walking(v) /\ Between(shards, v)
  BY <1>1, WalksBegin
<1> QED
  BY <1>1, <1>2, <1>3, WalkMoves

\* A snapshot adds up one shard more.
LEMMA SnapshotStep ==
    ASSUME TelemetryAssumption, MeterIInv, NEW w \in Walkers, snapshot(w)
    PROVE  MeterIInv'
<1>1. /\ walks[w].doing = "snapshot" /\ walks[w].at # Beyond
      /\ walks' = [walks EXCEPT ![w].at = @ + 1, ![w].out = gather(@, shards[walks[w].at])]
      /\ UNCHANGED <<shards, call>>
  BY DEF snapshot
<1>2. /\ walks = [x \in Walkers |-> walks[x]] /\ Walking(walks[w]) /\ Between(shards, walks[w])
  BY DEF MeterIInv, Metered
<1>3. PICK u : u = walks[w]
  OBVIOUS
<1>4. PICK v : v = [u EXCEPT !.at = @ + 1, !.out = gather(@, shards[u.at])]
  OBVIOUS
<1>5. Walking(v) /\ Between(shards, v)
  BY <1>1, <1>2, <1>3, <1>4, WalksGather
<1>6. u = [doing |-> u.doing, at |-> u.at, out |-> u.out, fresh |-> u.fresh, low |-> u.low]
  BY <1>2, <1>3 DEF Walking
<1>7. walks' = [walks EXCEPT ![w] = v]
  <2>1. walks' = [[walks EXCEPT ![w].at = u.at + 1] EXCEPT ![w].out = gather(u.out, shards[u.at])]
    BY <1>1, <1>2, <1>3, <1>6
  <2>2. v = [doing |-> u.doing, at |-> u.at + 1, out |-> gather(u.out, shards[u.at]), fresh |-> u.fresh, low |-> u.low]
    BY <1>4, <1>6
  <2>3. PICK y : y = [walks EXCEPT ![w].at = u.at + 1]
    OBVIOUS
  <2>4. PICK z : z = [u EXCEPT !.at = u.at + 1]
    OBVIOUS
  <2>5. y = [x \in Walkers |-> IF x = w THEN z ELSE walks[x]]
    BY <1>2, <1>3, <2>3, <2>4
  <2>6. z = [doing |-> u.doing, at |-> u.at + 1, out |-> u.out, fresh |-> u.fresh, low |-> u.low]
    BY <1>6, <2>4
  <2>7. walks' = [y EXCEPT ![w].out = gather(u.out, shards[u.at])]
    BY <2>1, <2>3
  <2>8. v = [z EXCEPT !.out = gather(u.out, shards[u.at])]
    BY <2>2, <2>6
  <2>9. walks' = [x \in Walkers |-> IF x = w THEN v ELSE walks[x]]
    BY <2>5, <2>7, <2>8
  <2> QED
    BY <1>2, <2>9
<1> QED
  BY <1>1, <1>5, <1>7, WalkMoves

\* A shard is cut down or cleared; a snapshot of another walk promises nothing any more.
LEMMA CutStep ==
    ASSUME TelemetryAssumption, MeterIInv, NEW w \in Walkers, decay(w) \/ reset(w)
    PROVE  MeterIInv'
<1>0. /\ shards = [s \in Shards |-> shards[s]] /\ \A s \in Shards : Truthful(shards[s])
      /\ call = [by |-> call.by, todo |-> call.todo] /\ call.todo \in Seq(Events)
      /\ \A v \in Walkers : Walking(walks[v])
  BY DEF MeterIInv, Metered
<1>1. /\ walks[w].doing # "snapshot" /\ walks[w].at # Beyond
      /\ \/ shards' = [shards EXCEPT ![walks[w].at] = Forgotten(@)]
         \/ shards' = [shards EXCEPT ![walks[w].at] = Cleared(@)]
      /\ walks' = [v \in Walkers |-> IF v = w THEN [walks[w] EXCEPT !.at = @ + 1] ELSE Stale(v)]
      /\ call' = call
  BY DEF decay, reset, Cut
<1>2. shards' = [s \in Shards |-> shards'[s]] /\ \A s \in Shards : Truthful(shards'[s])
  <2>1. PICK a : a = walks[w].at
    OBVIOUS
  <2>2. \A s \in Shards : Truthful(Forgotten(shards[s])) /\ Truthful(Cleared(shards[s]))
    BY <1>0, ForgottenTruthfully, NothingCountedYet DEF Cleared
  <2>3. CASE shards' = [shards EXCEPT ![a] = Forgotten(@)]
    <3>1. shards' = [s \in Shards |-> IF s = a THEN Forgotten(shards[s]) ELSE shards[s]]
      BY <1>0, <2>3
    <3> QED
      BY <1>0, <2>2, <3>1
  <2>4. CASE shards' = [shards EXCEPT ![a] = Cleared(@)]
    <3>1. shards' = [s \in Shards |-> IF s = a THEN Cleared(shards[s]) ELSE shards[s]]
      BY <1>0, <2>4
    <3> QED
      BY <1>0, <2>2, <3>1
  <2> QED
    BY <1>1, <2>1, <2>3, <2>4
<1>3. walks' = [v \in Walkers |-> walks'[v]]
  BY <1>1
<1>4. ASSUME NEW v \in Walkers PROVE Walking(walks'[v]) /\ Between(shards', walks'[v])
  <2>1. PICK u : u = walks[v]
    OBVIOUS
  <2>2. /\ u = [doing |-> u.doing, at |-> u.at, out |-> u.out, fresh |-> u.fresh, low |-> u.low]
        /\ u.doing \in {"rest", "snapshot", "decay", "reset"} /\ u.at \in 1 .. Beyond
        /\ u.fresh \in BOOLEAN /\ u.low \in [Keys -> Nat] /\ Truthful(u.out)
    BY <1>0, <2>1 DEF Walking
  <2>3. CASE v = w
    <3>1. walks'[v] = [u EXCEPT !.at = @ + 1]
      BY <1>1, <2>1, <2>3
    <3>2. walks'[v] = [doing |-> u.doing, at |-> u.at + 1, out |-> u.out, fresh |-> u.fresh, low |-> u.low]
      BY <2>2, <3>1
    <3>3. u.at + 1 \in 1 .. Beyond /\ u.doing # "snapshot"
      <4>1. Beyond \in Nat
        BY ShardCount DEF Beyond
      <4> QED
        BY <1>1, <2>1, <2>2, <2>3, <4>1
    <3> QED
      BY <2>2, <3>2, <3>3 DEF Walking, Between
  <2>4. CASE v # w
    <3>1. Rest.low = [k \in Keys |-> 0]
      BY DEF Rest
    <3>2. walks'[v] = [u EXCEPT !.fresh = FALSE, !.low = Rest.low]
      BY <1>1, <2>1, <2>4 DEF Stale
    <3>3. walks'[v] = [doing |-> u.doing, at |-> u.at, out |-> u.out, fresh |-> FALSE, low |-> [k \in Keys |-> 0]]
      BY <2>2, <3>1, <3>2
    <3>4. [k \in Keys |-> 0] \in [Keys -> Nat]
      OBVIOUS
    <3> QED
      BY <2>2, <3>3, <3>4 DEF Walking, Between
  <2> QED
    BY <2>3, <2>4
<1>5. Metered(shards', call', walks')
  BY <1>0, <1>1, <1>2, <1>3, <1>4 DEF Metered
<1> QED
  BY <1>5, MeteredNext

\* Every step of calls and walks keeps the invariant.
LEMMA MeterStep ==
    ASSUME TelemetryAssumption, MeterIInv, [TelemetryNext]_tvars
    PROVE  MeterIInv'
<1>1. CASE UNCHANGED tvars
  <2>1. Metered(shards', call', walks')
    BY <1>1 DEF tvars, MeterIInv
  <2> QED
    BY <2>1, MeteredNext
<1>2. CASE \E s \in Shards : run_query(s) \/ get(s) \/ maintain(s)
  BY <1>2, CallStep
<1>3. CASE emit
  BY <1>3, EmitStep
<1>4. CASE optimize \/ forget_a_little \/ monitor("snapshot") \/ monitor("reset")
             \/ finish("optimizer") \/ finish("monitor")
  BY <1>4, BeginStep
<1>5. CASE snapshot("optimizer") \/ snapshot("monitor")
  BY <1>5, SnapshotStep DEF Walkers
<1>6. CASE decay("optimizer") \/ reset("monitor")
  BY <1>6, CutStep DEF Walkers
<1> QED
  BY <1>1, <1>2, <1>3, <1>4, <1>5, <1>6 DEF TelemetryNext, Cycle

\* The inductive invariant of calls and walks holds of every state: what a shard or a walk has
\* counted is truthful, and a snapshot that met no forgetting is between its bounds.
THEOREM MeterInductive == TelemetryAssumption => (TelemetrySpec => []MeterIInv)
<1> SUFFICES ASSUME TelemetryAssumption PROVE TelemetrySpec => []MeterIInv
  OBVIOUS
<1>1. TelemetryInit => MeterIInv
  BY NothingMetered
<1>2. MeterIInv /\ [TelemetryNext]_tvars => MeterIInv'
  BY MeterStep
<1> QED
  BY <1>1, <1>2, PTL DEF TelemetrySpec

\* Estimates are least cells, and no cell of a record counts less than its touches.
LEMMA EstimatesCover ==
    ASSUME TelemetryAssumption, NEW t, Touching(t), Covers(t), NEW id \in Gets
    PROVE  estimate(t, id) >= t.touched[id]
<1> DEFINE S == {t.counts[<<r, Slot[id][r]>>] : r \in Rows}
<1>1. \A r \in Rows : <<r, Slot[id][r]>> \in Cells /\ t.counts[<<r, Slot[id][r]>>] \in Nat
  <2>1. \A r \in Rows : <<r, Slot[id][r]>> \in Cells
    BY DEF Cells
  <2> QED
    BY <2>1 DEF Touching
<1>2. Rows # {}
  <2>1. (CHOOSE x \in Gets : TRUE) \in Gets
    OBVIOUS
  <2> QED
    BY <2>1 DEF TelemetryAssumption, Rows
<1>3. S \in SUBSET Nat /\ S # {}
  BY <1>1, <1>2
<1>4. \A n \in S : t.touched[id] <= n
  BY DEF Covers
<1>5. estimate(t, id) = CHOOSE x \in S : \A y \in S : x <= y
  BY DEF estimate, Min
<1> HIDE DEF S
<1>6. \E x \in S : \A y \in S : x <= y
  BY <1>3, LeastOf
<1>7. estimate(t, id) \in S
  BY <1>5, <1>6
<1>8. t.touched[id] \in Nat
  BY DEF Touching
<1> QED
  BY <1>3, <1>4, <1>7, <1>8

\* Whatever walks meet whatever calls, of any number of threads, queries and keys: a field is
\* never pinned more often than it is filtered on, a snapshot that met no forgetting lies
\* between what was counted when it began and when it ended, and the sketch never
\* underestimates the touches of a record.
THEOREM MeasurementsAreTrue == TelemetryAssumption => (TelemetrySpec => []CountsAreTrue)
<1> SUFFICES ASSUME TelemetryAssumption PROVE TelemetrySpec => []CountsAreTrue
  OBVIOUS
<1>1. MeterIInv => CountsAreTrue
  <2> SUFFICES ASSUME MeterIInv PROVE CountsAreTrue
    OBVIOUS
  <2>1. /\ shards = [s \in Shards |-> shards[s]] /\ \A s \in Shards : Truthful(shards[s])
        /\ \A w \in Walkers : Walking(walks[w]) /\ Between(shards, walks[w])
    BY DEF MeterIInv, Metered
  <2>2. \A s \in Sums : Truthful(s)
    BY <2>1 DEF Sums, Range, Walking
  <2>3. EqualityWithinTotal
    BY <2>2 DEF EqualityWithinTotal, Truthful, Pins
  <2>4. TouchesAreNotLost
    BY <2>2, EstimatesCover DEF TouchesAreNotLost, Truthful, Counting
  <2>5. SnapshotsLieBetween
    <3> DEFINE N == Cardinality(Shards)
    <3>0. N \in Nat
      BY ShardCount
    <3> SUFFICES ASSUME NEW w \in Walkers, walks[w].doing = "snapshot", walks[w].at = Beyond, walks[w].fresh,
                        NEW k \in Keys
                 PROVE  walks[w].low[k] <= walks[w].out.count[k] /\ walks[w].out.count[k] <= Total(k)
      BY DEF SnapshotsLieBetween
    <3>1. PICK f : f = SubtotalsOf(shards, k)
      OBVIOUS
    <3>2. \A s \in Shards : shards[s].count \in [Keys -> Nat]
      BY <2>1 DEF Truthful, Counting
    <3>3. f \in [0 .. N -> Nat]
      BY <3>1, <3>2, SubtotalFacts
    <3>4. walks[w].at - 1 = N /\ N \in 0 .. N
      BY <3>0 DEF Beyond
    <3>5. /\ walks[w].out.count[k] <= f[N]
          /\ walks[w].low[k] <= walks[w].out.count[k] + (f[N] - f[N])
      BY <2>1, <3>1, <3>4 DEF Between
    <3>6. Total(k) = f[N]
      BY <3>1, SubtotalsIs DEF Total
    <3>7. f[N] \in Nat /\ walks[w].out.count[k] \in Nat /\ walks[w].low[k] \in Nat
      BY <2>1, <3>3, <3>4 DEF Walking, Truthful, Counting
    <3> QED
      BY <3>5, <3>6, <3>7
  <2> QED
    BY <2>3, <2>4, <2>5 DEF CountsAreTrue
<1> QED
  BY <1>1, MeterInductive, PTL
=============================================================================
