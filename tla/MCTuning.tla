------------------------------ MODULE MCTuning ------------------------------
(***************************************************************************)
(* What the database learns from its calls, for TLC: trying a change out   *)
(* and measuring the workload.  Each behaviour follows one of the two; the *)
(* other rests in its initial state.                                       *)
(***************************************************************************)
EXTENDS Experiments, Telemetry, MCTelemetry

CONSTANTS Users, Orders

VARIABLE part

\* Trials of either kind of index that meet no query of the other collection's, and one
\* that meets every query; a record cannot be written in a configuration.
MCTrials == {[what |-> "index", on |-> Users], [what |-> "composite", on |-> Users],
             [what |-> "column_store", on |-> Orders], [what |-> "switch", on |-> Global]}

ASSUME TelemetryAssumption

TuningInit ==
    /\ part \in {"experiments", "telemetry"}
    /\ ExperimentsInit /\ TelemetryInit
    /\ part # "telemetry" => workload = "query"

\* A workload that has been forgotten rests.
TuningNext ==
    \/ part = "experiments" /\ ExperimentsNext /\ UNCHANGED <<part, tvars>>
    \/ part = "telemetry" /\ TelemetryNext /\ UNCHANGED <<part, xvars>>
    \/ part = "telemetry" /\ UNCHANGED <<part, xvars, tvars>>

\* The fairness of each part, for the behaviours of that part.
TuningFairness ==
    /\ WF_xvars(part = "experiments" /\ Advances)
    /\ []<>(part = "telemetry" => Completed)
    /\ []<>(part = "telemetry" => ~Completed)

TuningSpec == TuningInit /\ [][TuningNext]_<<part, xvars, tvars>> /\ TuningFairness
=============================================================================
