---------------------------- MODULE MCStructures ----------------------------
(***************************************************************************)
(* What the database keeps about its collections, for TLC: their catalog   *)
(* and its recovery, the structures derived from their rows, and the       *)
(* configuration the optimizer chooses.  Each behaviour follows one of the *)
(* three; the others rest in an initial state.                             *)
(***************************************************************************)
EXTENDS CatalogRecovery, Integers

CONSTANTS
    Users, Email, Age, Cooldown, RetractionCooldown, MaxChanges, MaxCalls, MaxApplied,
    Text, NoSuchCollection, MaxRecord, ExactLimit, HotThreshold, DeltaMinRows, Capacity,
    MaxWrites, MaxSwitches

VARIABLES
    part,
    policy, workload, config, applied, engine, cooling, barred, trial, constrained, byhand,
    refuted, waited, calls,
    table, schema, life, declared, hashIndex, directOn, direct, deltaOn, columnStore,
    viewsOn, view, epoch, capacity, results, hot, up, budget

ovars == <<policy, workload, config, applied, engine, cooling, barred, trial, constrained, byhand,
           refuted, waited, calls>>
engineVars == <<table, schema, life, declared, hashIndex, directOn, direct, deltaOn, columnStore,
                viewsOn, view, epoch, capacity, results, hot, up, budget>>

DriverCases == INSTANCE MCOptimizer
Policies == DriverCases!MCPolicies
Workloads == DriverCases!MCWorkloads
Driver == INSTANCE Optimizer WITH
    Collections <- {Users}, Fields <- {Email, Age}, Registered <- DriverCases!MCRegistered

\* Numbers 3 and 6, of which two no longer add up exactly, and a text.
DerivedRecords == {[g |-> 1, v |-> 3], [g |-> 1, v |-> 6], [g |-> 2, v |-> 6], [g |-> 1], [v |-> 3],
                   [g |-> 1, v |-> Text]}
DerivedSchemas == {[mode |-> "dynamic", fields |-> {"g", "v"}], [mode |-> "fixed", fields |-> {"g", "v"}],
                   [mode |-> "fixed", fields |-> {"v"}]}
Derived == INSTANCE DerivedStructures WITH Records <- DerivedRecords, Schemas <- DerivedSchemas

ASSUME Driver!RegistryAssumption /\ Driver!CyclesAssumption

StructuresInit ==
    /\ part \in {"catalog", "optimizer", "derived"}
    /\ CInit /\ Driver!OptimizerInit /\ Derived!DerivedInit
    /\ part # "optimizer" => /\ policy = CHOOSE p \in Policies : TRUE
                             /\ workload = CHOOSE w \in Workloads : TRUE
    /\ part # "derived" => schema = CHOOSE s \in DerivedSchemas : TRUE

\* The catalog's bounds run out; the other two never stop.
StructuresNext ==
    \/ part = "catalog" /\ CNext /\ UNCHANGED <<part, ovars, engineVars>>
    \/ part = "optimizer" /\ Driver!OptimizerNext /\ UNCHANGED <<part, cvars, engineVars>>
    \/ part = "derived" /\ Derived!DerivedNext /\ UNCHANGED <<part, cvars, ovars>>

StructuresSpec == StructuresInit /\ [][StructuresNext]_<<part, cvars, ovars, engineVars>>

\* The properties of Optimizer and DerivedStructures, stated and explained there, each for the
\* behaviours of its part.
OptimizerInvariant == part = "optimizer" => Driver!OptimizerInvariant
CyclesAreCautious ==
    [][part = "optimizer" => Driver!SparesLoadBearing /\ Driver!HeedsEvidence]_ovars
DerivedInvariant == part = "derived" => Derived!DerivedInvariant
=============================================================================
