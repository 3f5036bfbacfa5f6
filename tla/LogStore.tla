------------------------------ MODULE LogStore ------------------------------
(* What a write-ahead log promises: entries are kept in the order they were *)
(* appended, a crash loses a suffix that was not yet made durable, and what  *)
(* is given up at the other end is a prefix that a checkpoint covers.        *)
EXTENDS Naturals, SequencesExt

VARIABLES
    entries,   \* what a reader of the log finds now, oldest first
    durable,   \* how many of them survive a crash
    covered    \* the lsn up to which a checkpoint has made them redundant

logVars == <<entries, durable, covered>>

LInit == entries = <<>> /\ durable = 0 /\ covered = 0

\* A new entry follows every older one.
Append1 ==
    /\ \E e \in {entries'[i] : i \in DOMAIN entries'} :
         /\ entries' = Append(entries, e)
         /\ \A i \in DOMAIN entries : entries[i].lsn < e.lsn
    /\ durable' \in durable .. Len(entries')
    /\ UNCHANGED covered

Harden ==
    /\ durable' \in durable .. Len(entries)
    /\ UNCHANGED <<entries, covered>>

Cover ==
    /\ covered' >= covered
    /\ \A i \in durable + 1 .. Len(entries) : entries[i].lsn > covered'
    /\ UNCHANGED <<entries, durable>>

\* A covered prefix is given up.
Discard ==
    /\ \E k \in 1 .. Len(entries) :
         /\ entries[k].lsn <= covered
         /\ entries' = SubSeq(entries, k + 1, Len(entries))
         /\ durable' = durable - k
    /\ UNCHANGED covered

Crash ==
    /\ \E k \in durable .. Len(entries) :
         /\ entries' = SubSeq(entries, 1, k)
         /\ durable' = k
    /\ UNCHANGED covered

LNext == Append1 \/ Harden \/ Cover \/ Discard \/ Crash

LSpec == LInit /\ [][LNext]_logVars
=============================================================================
