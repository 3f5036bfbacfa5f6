---------------------------- MODULE MCDurability ----------------------------
(***************************************************************************)
(* What outlives the process, for TLC: the heap's recovery, the segments   *)
(* of the write-ahead log, and the directories that are opened, copied and *)
(* restored.  Each behaviour follows one of the three; the others rest in  *)
(* an initial state.                                                       *)
(***************************************************************************)
EXTENDS CrashRecovery, LogSegments, Restore, TLC

VARIABLE part

\* A heap's values are only compared for equality.
ValueSymmetry == Permutations(Values)

ASSUME LogAssumption

DurabilityInit ==
    /\ part \in {"recovery", "log", "directories"}
    /\ RInit /\ LogInit /\ RestoreInit
    /\ part # "recovery" => durability = CHOOSE p \in Policies : TRUE
    /\ part # "log" => log_durability = CHOOSE p \in Durabilities : TRUE

DurabilityNext ==
    \/ part = "recovery" /\ RNext /\ UNCHANGED <<part, walVars, restorevars>>
    \/ part = "log" /\ LogNext /\ UNCHANGED <<part, rvars, restorevars>>
    \/ part = "directories" /\ RestoreNext /\ UNCHANGED <<part, rvars, walVars>>

DurabilitySpec == DurabilityInit /\ [][DurabilityNext]_<<part, rvars, walVars, restorevars>>

\* Segments implement one log: entries are read back in the order they were appended,
\* under increasing lsns, a crash cuts a suffix and a discard a covered prefix.
ImplementsLog == Acknowledged!LInit /\ [][part = "log" => LogStep]_walVars
=============================================================================
