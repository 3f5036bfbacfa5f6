---------------------------- MODULE SlottedPage ----------------------------
(***************************************************************************)
(* One slotted page (adabt-storage/src/page.rs), byte by byte: the slot    *)
(* array grows up from the header, payloads grow down from the end.        *)
(*                                                                         *)
(* A byte of a payload is the payload's mark; a byte of the slot array is  *)
(* SlotByte.  Offsets count from 0 and sizes are scaled down.              *)
(***************************************************************************)
EXTENDS Integers, FiniteSets, FiniteSetsExt

CONSTANTS
    PageSize, HeaderSize, SlotSize,
    Marks,          \* what the payloads are made of
    Lengths,        \* the lengths payloads have; 0 is among them when tried
    SlotByte, Zero,
    MaxSlots        \* bound on the slots ever made

ASSUME PageAssumption ==
    /\ HeaderSize \in Nat \ {0} /\ SlotSize \in Nat \ {0}
    /\ PageSize \in Nat /\ PageSize > HeaderSize + SlotSize
    /\ Lengths \subseteq Nat /\ MaxSlots \in Nat
    /\ SlotByte \notin Marks /\ Zero \notin Marks /\ SlotByte # Zero

VARIABLES
    bytes,      \* the page past its header
    slot_count,
    free_end,
    page_slots, \* slot -> [off, len]; a dead one has offset 0
    content,    \* ghost: slot -> [mark, len] its holder last stored, or Nothing
    outcome     \* "ok", "error", "compacted", "corrupt": how the last call ended

pagevars == <<bytes, slot_count, free_end, page_slots, content, outcome>>

Nothing == [mark |-> Zero, len |-> 0]
Vacant == [off |-> 0, len |-> 0]
PagePayloads == [mark : Marks, len : Lengths]
MAX_PAYLOAD == PageSize - HeaderSize - SlotSize

-----------------------------------------------------------------------------
\* Space

is_live(i) == page_slots[i].off # 0
Slots == 0..slot_count - 1
Live == {i \in Slots : is_live(i)}
free_start == HeaderSize + slot_count * SlotSize
free_space == IF free_end > free_start THEN free_end - free_start ELSE 0

cost_of(len) == len + SlotSize
can_fit(len) == free_space >= cost_of(len)

\* Bytes at..at+n-1 become b.
Fill(bs, at, n, b) == [k \in DOMAIN bs |-> IF at <= k /\ k < at + n THEN b ELSE bs[k]]
Stored(bs, off, p) == Fill(bs, off, p.len, p.mark)
Point(bs, i) == Fill(bs, HeaderSize + i * SlotSize, SlotSize, SlotByte)

-----------------------------------------------------------------------------
\* Operations

Fail == outcome' = "error" /\ UNCHANGED <<bytes, slot_count, free_end, page_slots, content>>

\* A dead slot is used again before the slot array grows.
Reusable == Slots \ Live
SlotFor == IF Reusable # {} THEN Min(Reusable) ELSE slot_count
Need(len) == len + (IF Reusable # {} THEN 0 ELSE SlotSize)

\* Placing p under slot i, at the low end of the payload region.
PlaceAt(i, p) ==
    LET off == free_end - p.len IN
    /\ bytes' = Point(Stored(bytes, off, p), i)
    /\ free_end' = off
    /\ page_slots' = [page_slots EXCEPT ![i] = [off |-> off, len |-> p.len]]
    /\ content' = [content EXCEPT ![i] = p]

page_insert(p) ==
    \/ /\ p.len = 0 \/ p.len > MAX_PAYLOAD \/ free_space < Need(p.len)
       /\ Fail
    \/ /\ p.len # 0 /\ p.len <= MAX_PAYLOAD /\ free_space >= Need(p.len)
       /\ SlotFor < MaxSlots
       /\ PlaceAt(SlotFor, p)
       /\ slot_count' = IF Reusable # {} THEN slot_count ELSE slot_count + 1
       /\ outcome' = "ok"

page_delete(i) ==
    \/ i \notin Live /\ Fail
    \/ /\ i \in Live
       /\ page_slots' = [page_slots EXCEPT ![i] = Vacant]
       /\ content' = [content EXCEPT ![i] = Nothing]
       /\ outcome' = "ok"
       /\ UNCHANGED <<bytes, slot_count, free_end>>

\* In place whatever the slot held: the room is not looked at.
fits_in_place_always(i, p) == TRUE
fits_in_place(i, p) == p.len <= page_slots[i].len

\* Smaller: in place.  Larger: at the end of the free space, if it fits there.
page_update(i, p) ==
    \/ i \notin Live /\ Fail
    \/ /\ i \in Live
       /\ \/ /\ fits_in_place(i, p)
             /\ bytes' = Stored(bytes, page_slots[i].off, p)
             /\ page_slots' = [page_slots EXCEPT ![i].len = p.len]
             /\ content' = [content EXCEPT ![i] = p]
             /\ outcome' = "ok"
             /\ UNCHANGED <<slot_count, free_end>>
          \/ /\ ~fits_in_place(i, p) /\ free_space >= p.len
             /\ PlaceAt(i, p)
             /\ outcome' = "ok"
             /\ UNCHANGED slot_count
          \/ /\ ~fits_in_place(i, p) /\ free_space < p.len
             /\ outcome' = "error"
             /\ UNCHANGED <<bytes, slot_count, free_end, page_slots, content>>

\* The slot array is cut after the last live slot: the ones below keep their number.
HighestLive == IF Live = {} THEN 0 ELSE Max(Live) + 1

\* Where the payloads of the live slots below n end when they are packed in slot order,
\* each below the ones before it, from the end of the page.
Width(i) == IF is_live(i) THEN page_slots[i].len ELSE 0
Packed ==
    LET low[n \in 0..MaxSlots] == IF n = 0 THEN PageSize ELSE low[n - 1] - Width(n - 1)
    IN low

Repacked(i) == Packed[i + 1]
Covered(i, k) == Repacked(i) <= k /\ k < Repacked(i) + page_slots[i].len

\* The bytes the live payloads hold.
HeldBytes == PageSize - Packed[MaxSlots]

compact ==
    /\ slot_count' = HighestLive
    /\ page_slots' = [i \in DOMAIN page_slots |->
           IF i \in Live THEN [off |-> Repacked(i), len |-> page_slots[i].len] ELSE Vacant]
    /\ free_end' = Packed[MaxSlots]
    /\ bytes' = [k \in DOMAIN bytes |->
           IF \E i \in Live : Covered(i, k)
             THEN LET i == CHOOSE i \in Live : Covered(i, k) IN bytes[page_slots[i].off + (k - Repacked(i))]
           ELSE IF HeaderSize <= k /\ k < HeaderSize + HighestLive * SlotSize THEN SlotByte ELSE Zero]
    /\ outcome' = "compacted"
    /\ UNCHANGED content

fragmentation == (PageSize - free_end) - HeldBytes

\* Written, sealed and read again: the header must agree with itself.
from_bytes ==
    /\ outcome' = IF free_end > PageSize \/ free_start > free_end THEN "corrupt" ELSE "ok"
    /\ UNCHANGED <<bytes, slot_count, free_end, page_slots, content>>

PageInit ==
    /\ bytes = [k \in HeaderSize..PageSize - 1 |-> Zero]
    /\ slot_count = 0 /\ free_end = PageSize
    /\ page_slots = [i \in 0..MaxSlots - 1 |-> Vacant]
    /\ content = [i \in 0..MaxSlots - 1 |-> Nothing]
    /\ outcome = "ok"

PageNext ==
    \/ \E p \in PagePayloads : page_insert(p)
    \/ \E i \in 0..MaxSlots - 1 : page_delete(i)
    \/ \E i \in 0..MaxSlots - 1, p \in PagePayloads : page_update(i, p)
    \/ compact \/ from_bytes

PageSpec == PageInit /\ [][PageNext]_pagevars

-----------------------------------------------------------------------------
\* Properties

\* Slots past the count are dead, live ones lie within the page.
PageTypeOK ==
    /\ slot_count \in 0..MaxSlots /\ free_end \in HeaderSize..PageSize
    /\ \A i \in DOMAIN page_slots :
         /\ i >= slot_count => page_slots[i] = Vacant
         /\ is_live(i) => page_slots[i].off >= free_end /\ page_slots[i].off + page_slots[i].len <= PageSize

\* A slot handed out keeps its payload until its holder changes it: no insert, update or
\* compaction of another slot moves a byte of it or renumbers it (RecordLocation).
PayloadsReadBack ==
    \A i \in DOMAIN page_slots :
        /\ is_live(i) <=> content[i] # Nothing
        /\ is_live(i) => /\ page_slots[i].len = content[i].len
                         /\ page_slots[i].off + content[i].len <= PageSize
                         /\ \A k \in 0..content[i].len - 1 : bytes[page_slots[i].off + k] = content[i].mark

\* Payloads never grow into the slot array, so the page that was written is always accepted
\* when it is read again.
PageReadsAgain ==
    /\ outcome # "corrupt"
    /\ \A k \in HeaderSize..free_start - 1 : bytes[k] = SlotByte

\* A compaction leaves only live payloads and the slots up to the last live one taking
\* room, so an emptied page is as good as a new one; no page has more room than that.
CompactionReclaims ==
    /\ free_space <= PageSize - HeaderSize - (slot_count * SlotSize) - HeldBytes
    /\ outcome = "compacted" =>
          /\ fragmentation = 0
          /\ free_space = PageSize - HeaderSize - (slot_count * SlotSize) - HeldBytes
          /\ Live = {} => free_space = PageSize - HeaderSize

\* What a page promises the heap, in one invariant.
PageInvariant == PageTypeOK /\ PayloadsReadBack /\ PageReadsAgain /\ CompactionReclaims
=============================================================================
