----------------------------- MODULE HeapVacuum -----------------------------
(***************************************************************************)
(* HeapStore::vacuum (crates/adabt-storage/src/heap.rs) over VersionedHeap: *)
(* records are moved off the last page of the heap file into holes earlier  *)
(* in it, and the tail is truncated.                                        *)
(*                                                                          *)
(* The call has the store to itself, but snapshots live outside the store:  *)
(* they are dropped, and other shards write and take snapshots, between any *)
(* two steps of its loop.                                                   *)
(***************************************************************************)
EXTENDS VersionedHeap

VARIABLES
    phase,   \* "idle", "loop": top of the loop, "move": relocating occupants
    todo,    \* occupants of the last page still to be relocated
    moved,   \* moved_any
    cut      \* history: a truncation has taken a page that a chain still named

vacuumVars == <<phase, todo, moved, cut>>
allVars == <<vars, vacuumVars>>

\* The page past the end of the file.
LastPage_past == pageCount

LastPage == pageCount - 1

\* An occupancy test that looks one page too low.
live_records_below(p) ==
    {id \in Records : ~ is_absent(directory[id]) /\ newest(directory[id]).page = p - 1}

\* live_records_on: only the newest version of a record counts.
live_records_on(p) ==
    {id \in Records : ~ is_absent(directory[id]) /\ newest(directory[id]).page = p}

-----------------------------------------------------------------------------
\* reclaim meets a version on a page the file no longer has; the vacuum returns.
reclaim_fails ==
    \E l \in FreedLocations(directory, reclaim_horizon(next)) : l.page >= pageCount

Start ==
    /\ phase = "idle" /\ reclaim
    /\ phase' = IF reclaim_fails THEN "idle" ELSE "loop"
    /\ UNCHANGED <<todo, moved, cut>>

\* Some version, the newest of its record or not, is on the page.
NamedOn(p) ==
    \E id \in Records : \E i \in 1 .. Len(directory[id]) :
        directory[id][i].loc # None /\ directory[id][i].loc.page = p

\* The page is dropped without a look at the versions that are not the newest.
Truncate ==
    /\ phase = "loop" /\ pageCount > 0 /\ live_records_on(LastPage) = {}
    /\ pageCount' = LastPage
    /\ slots' = [l \in Locations |-> IF l.page = LastPage THEN Dead ELSE slots[l]]
    /\ offered' = offered \ {LastPage}
    /\ cut' = (cut \/ NamedOn(LastPage))
    /\ UNCHANGED <<next, opening, open, directory, retained, lastWrite, phase, todo, moved>>

\* The last page leaves the free-space map before anything is placed.
Evacuate ==
    /\ phase = "loop" /\ pageCount > 0 /\ live_records_on(LastPage) # {}
    /\ offered' = offered \ {LastPage}
    /\ phase' = "move" /\ todo' = live_records_on(LastPage) /\ moved' = FALSE
    /\ UNCHANGED <<next, opening, open, directory, slots, pageCount, retained, lastWrite, cut>>

\* relocate, in record id order: a new version at a hole in an earlier page.
\* The move is not logged, and the reclamation limit is not looked at.
relocate(id) ==
    /\ phase = "move" /\ id \in todo /\ \A j \in todo : id <= j
    /\ todo' = todo \ {id}
    /\ IF WithRoom = {}
       THEN UNCHANGED <<vars, moved>>
       ELSE /\ \E p \in WithRoom :
                 LET from == newest(directory[id])
                     loc == [page |-> p, slot |-> FirstDead(p)]
                 IN  /\ slots' = [slots EXCEPT ![loc] = slots[from]]
                     /\ directory' = [directory EXCEPT
                          ![id] = Append(@, [txn |-> next, loc |-> loc])]
            /\ next' = next + 1
            /\ retained' = retained + 1
            /\ lastWrite' = [lastWrite EXCEPT ![id] = next]
            /\ moved' = TRUE
            /\ UNCHANGED <<opening, open, pageCount, offered>>
    /\ UNCHANGED <<phase, cut>>

Moved ==
    /\ phase = "move" /\ todo = {}
    /\ IF moved
       THEN reclaim /\ phase' = IF reclaim_fails THEN "idle" ELSE "loop"
       ELSE UNCHANGED vars /\ phase' = "idle"
    /\ UNCHANGED <<todo, moved, cut>>

Finish ==
    /\ phase = "loop" /\ pageCount = 0
    /\ phase' = "idle"
    /\ UNCHANGED <<vars, todo, moved, cut>>

Vacuum ==
    Start \/ Truncate \/ Evacuate \/ Moved \/ Finish \/ (\E id \in Records : relocate(id))

VInit == Init /\ phase = "idle" /\ todo = {} /\ moved = FALSE /\ cut = FALSE

\* Calls on the store wait for the vacuum; the tracker does not.
StoreCalls ==
    /\ phase = "idle"
    /\ Write \/ reclaim \/ \E r \in Readers : ReadClock(r) \/ Register(r)
    /\ UNCHANGED vacuumVars

TrackerCalls ==
    /\ \/ \E h \in Holders : close_snapshot(h)
       \/ \E h \in Foreign : ReadClock(h) \/ Register(h)
       \/ ForeignWrite
    /\ UNCHANGED vacuumVars

VNext == Vacuum \/ StoreCalls \/ TrackerCalls

\* A call that has begun runs on: nothing in vacuum waits for another thread.
VSpec == VInit /\ [][VNext]_allVars /\ WF_allVars(phase # "idle" /\ Vacuum)

-----------------------------------------------------------------------------
\* Type invariant of the heap and of the vacuum's loop; and as long as no truncation
\* has taken a page that a chain still named, slots and chains agree exactly, however
\* records are moved and whatever snapshots are held meanwhile.
VTypeOK ==
    /\ TypeOK
    /\ phase \in {"idle", "loop", "move"}
    /\ todo \subseteq Records
    /\ {moved, cut} \subseteq BOOLEAN
    /\ ~ cut => SlotsOwned

\* A record that exists can be read: the slot its newest version names is inside
\* the file and holds that record, during the vacuum and after it ("readable in
\* one place or the other, never neither", heap.rs vacuum).
LiveRecordsReadable ==
    \A id \in Records : ~ is_absent(directory[id]) =>
        LET l == newest(directory[id]) IN
        l.page < pageCount /\ slots[l] # Dead /\ slots[l].id = id

\* Vacuuming moves records and changes none: get answers the same before and
\* after every step of it, also the step that cuts.
ChangesNoRecord ==
    Vacuum /\ ~ cut => \A id \in Records :
        get_at(directory', slots', id, next') = get_at(directory, slots, id, next)

\* The loop ends: each round empties the last page, or cannot and stops.
VacuumTerminates == phase # "idle" ~> phase = "idle"

\* A snapshot open while the vacuum runs reads what it read before ("Versions it
\* might need are retained until it is dropped", heap.rs snapshot), as long as no
\* page is cut under it.
KeepsSnapshots ==
    \A r \in Readers : ~ cut' /\ open[r] # None /\ open'[r] = open[r] =>
        \A id \in Records :
            get_at(directory', slots', id, open[r]) = get_at(directory, slots, id, open[r])

\* Neither the records nor an open snapshot notice a vacuum.
VacuumIsInvisible == [][ChangesNoRecord /\ KeepsSnapshots /\ VTypeOK']_allVars
=============================================================================
