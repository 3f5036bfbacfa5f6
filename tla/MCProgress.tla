------------------------------ MODULE MCProgress ------------------------------
(***************************************************************************)
(* What has to come to an end, for TLC: the calls of clients and the       *)
(* shutdown of the server, a commit across shards and its recovery, and    *)
(* the vacuum of a heap.  Each behaviour follows one of the three; the     *)
(* others rest in their initial state.                                     *)
(***************************************************************************)
EXTENDS Service, Coordinator, HeapVacuum

VARIABLE part

ProgressInit ==
    part \in {"service", "coordinator", "vacuum"} /\ ServiceInit /\ CoordinatorInit /\ VInit

ProgressNext ==
    \/ part = "service" /\ ServiceNext /\ UNCHANGED <<part, coordinatorvars, allVars>>
    \/ part = "coordinator" /\ CoordinatorNext /\ UNCHANGED <<part, servervars, allVars>>
    \/ part = "vacuum" /\ VNext /\ UNCHANGED <<part, servervars, coordinatorvars>>

\* At rest no action that a fairness speaks of is enabled.
ProgressSpec ==
    /\ ProgressInit /\ [][ProgressNext]_<<part, servervars, coordinatorvars, allVars>>
    /\ ServiceFairness /\ Fairness /\ WF_allVars(phase # "idle" /\ Vacuum)
=============================================================================
