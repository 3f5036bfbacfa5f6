--------------------------- MODULE MCVersionedHeap ---------------------------
(***************************************************************************)
(* The heap and what it stands on, for TLC: the versioned heap, the buffer *)
(* pool and the slotted page.  Each behaviour follows one of the three;    *)
(* the other two rest in an initial state.                                 *)
(***************************************************************************)
EXTENDS VersionedHeap, BufferPool, SlottedPage, TLC

VARIABLE part

\* Values are never compared with one another and readers are interchangeable.
Symmetry == Permutations(Values) \cup Permutations(Readers)

StorageInit ==
    /\ part \in {"heap", "pool", "page"}
    /\ Init /\ PoolInit /\ PageInit
    /\ part # "pool" => capacity = CHOOSE c \in Capacities : TRUE

StorageNext ==
    \/ part = "heap" /\ Next /\ UNCHANGED <<part, poolvars, pagevars>>
    \/ part = "pool" /\ PoolNext /\ UNCHANGED <<part, vars, pagevars>>
    \/ part = "page" /\ PageNext /\ UNCHANGED <<part, vars, poolvars>>

StorageSpec == StorageInit /\ [][StorageNext]_<<part, vars, poolvars, pagevars>>
=============================================================================
