-------------------------- MODULE CoordinatorProofs --------------------------
(***************************************************************************)
(* Coordinated commits are atomic and their replays converge, for every    *)
(* number of transactions, records, single writes and crashes: the         *)
(* inductive invariant behind CoordinatorInvariant and its proof.          *)
(***************************************************************************)
EXTENDS Coordinator, SequenceTheorems, TLAPS

AllWrites == [txn : Txns, id : Ids, record : Rows \cup Refused \cup {Gone}]
Applied == [txn : Txns, id : Ids, record : Rows \cup {Gone}]
States == {"new", "running", "ok", "err", "crashed"}
Phases == {"idle", "writing", "applying", "recovering", "down"}

\* What a journal file can hold.
Entries == journal.entries

Types ==
    /\ data \in [Ids -> Rows \cup {Gone}] /\ latest \in [Ids -> Rows \cup {Gone}]
    /\ journal \in [file : {"absent", "bad", "good"}, entries : Seq(AllWrites)]
    /\ doing \in Phases
    /\ queue \in Seq(AllWrites)
    /\ state \in [Txns -> States]
    /\ wants \in [Txns -> SUBSET AllWrites]
    /\ landed \subseteq Applied
    /\ torn \in BOOLEAN

\* A transaction wants nothing before it is committed, and writes nothing else.
Wanted ==
    /\ \A t \in Txns : state[t] = "new" => wants[t] = {}
    /\ \A t \in Txns : \A w \in wants[t] : w.txn = t
    /\ \A w \in landed : w \in wants[w.txn]

\* A transaction is journaled with at most one write of a record.
OncePerRecord(s) ==
    \A i, j \in DOMAIN s : i # j /\ s[i].txn = s[j].txn => s[i].id # s[j].id

\* A later transaction is journaled behind an earlier one only where that is stuck.
StuckBetween(s) ==
    \A i, j \in DOMAIN s :
        i < j /\ s[i].txn # s[j].txn => \E m \in DOMAIN s : m < j /\ s[m].record \in Refused

\* Nothing behind a refused write has been applied.
NothingPastRefused(s) ==
    \A i, m \in DOMAIN s : s[i] \in landed /\ m < i => s[m].record \notin Refused

\* A write that has been applied is still the latest of its record, if nobody raced it.
AppliedIsLatest(s) ==
    \A i \in DOMAIN s : s[i] \in landed /\ s[i].id \notin raced => latest[s[i].id] = s[i].record

OnlyWanted(s) == \A i \in DOMAIN s : s[i] \in wants[s[i].txn]

WellFormed(s) ==
    /\ OncePerRecord(s) /\ StuckBetween(s) /\ NothingPastRefused(s)
    /\ AppliedIsLatest(s) /\ OnlyWanted(s)

\* A transaction with one write in the sequence has all of them there.
Closed(s) == \A i \in DOMAIN s : wants[s[i].txn] \subseteq ToSet(s)

Journaled ==
    /\ WellFormed(Entries)
    /\ ~ torn => Closed(Entries)
    /\ doing = "idle" /\ Entries # <<>> => \E i \in DOMAIN Entries : Entries[i].record \in Refused

\* What is being journaled keeps what was pending and adds only new writes.
BeingWritten ==
    doing = "writing" =>
        /\ WellFormed(queue)
        /\ ~ torn => Closed(queue)
        /\ ToSet(Entries) \subseteq ToSet(queue)
        /\ ToSet(queue) \cap landed \subseteq ToSet(Entries)

\* An apply goes through the journal from the front, without a gap.
BeingApplied ==
    doing \in {"applying", "recovering"} =>
        /\ Len(queue) <= Len(Entries)
        /\ \A i \in 1..Len(queue) : queue[i] = Entries[(Len(Entries) - Len(queue)) + i]
        /\ \A i \in 1..(Len(Entries) - Len(queue)) : Entries[i] \in landed

Promises ==
    \A t \in Txns :
        /\ state[t] = "running" =>
              \/ doing = "writing" /\ wants[t] \subseteq ToSet(queue)
              \/ doing = "applying" /\ wants[t] \subseteq ToSet(Entries)
        /\ state[t] = "ok" => wants[t] \subseteq landed
        /\ ~ torn => \/ wants[t] \subseteq landed
                     \/ wants[t] \cap landed = {}
                     \/ wants[t] \subseteq ToSet(Entries)

Converged == \A id \in Ids \ raced : data[id] = latest[id]

IInv ==
    /\ Types /\ Wanted /\ Journaled /\ BeingWritten /\ BeingApplied /\ Promises /\ Converged

-----------------------------------------------------------------------------
(* Lemmas about sequences *)

\* A sequence with its first element taken off, by its indices.
LEMMA TailIndices ==
    ASSUME NEW S, NEW s \in Seq(S), s # <<>>
    PROVE  /\ Head(s) = s[1] /\ Head(s) \in S
           /\ Tail(s) \in Seq(S) /\ Len(Tail(s)) = Len(s) - 1 /\ Len(s) > 0 /\ Len(s) \in Nat
           /\ \A i \in 1..Len(Tail(s)) : Tail(s)[i] = s[i + 1]
  BY HeadTailProperties

\* What two sequences hold one behind the other.
LEMMA ConcatRange ==
    ASSUME NEW S, NEW s \in Seq(S), NEW t \in Seq(S)
    PROVE  /\ s \o t \in Seq(S) /\ Len(s \o t) = Len(s) + Len(t)
           /\ \A i \in 1..Len(s) : (s \o t)[i] = s[i]
           /\ \A i \in 1..Len(t) : (s \o t)[Len(s) + i] = t[i]
           /\ ToSet(s \o t) = ToSet(s) \cup ToSet(t)
<1>1. /\ s \o t \in Seq(S) /\ Len(s \o t) = Len(s) + Len(t) /\ Len(s) \in Nat /\ Len(t) \in Nat
      /\ \A i \in 1..(Len(s) + Len(t)) : (s \o t)[i] = IF i <= Len(s) THEN s[i] ELSE t[i - Len(s)]
  BY ConcatProperties
<1>2. \A i \in 1..Len(s) : (s \o t)[i] = s[i]
  BY <1>1
<1>3. \A i \in 1..Len(t) : (s \o t)[Len(s) + i] = t[i]
  <2> TAKE i \in 1..Len(t)
  <2>1. Len(s) + i \in 1..(Len(s) + Len(t)) /\ ~ (Len(s) + i <= Len(s)) /\ (Len(s) + i) - Len(s) = i
    BY <1>1
  <2> QED  BY <1>1, <2>1
<1>4. DOMAIN s = 1..Len(s) /\ DOMAIN t = 1..Len(t) /\ DOMAIN (s \o t) = 1..(Len(s) + Len(t))
  BY <1>1
<1>5. ToSet(s \o t) \subseteq ToSet(s) \cup ToSet(t)
  <2> SUFFICES ASSUME NEW i \in 1..(Len(s) + Len(t))
               PROVE  (s \o t)[i] \in ToSet(s) \cup ToSet(t)
    BY <1>4 DEF ToSet
  <2>1. CASE i <= Len(s)
    <3>1. i \in DOMAIN s /\ (s \o t)[i] = s[i]
      BY <1>1, <1>4, <2>1
    <3> QED  BY <3>1 DEF ToSet
  <2>2. CASE ~ (i <= Len(s))
    <3>1. i - Len(s) \in DOMAIN t /\ (s \o t)[i] = t[i - Len(s)]
      BY <1>1, <1>4, <2>2
    <3> QED  BY <3>1 DEF ToSet
  <2> QED  BY <2>1, <2>2
<1>6. ToSet(s) \subseteq ToSet(s \o t)
  <2> SUFFICES ASSUME NEW i \in 1..Len(s)
               PROVE  s[i] \in ToSet(s \o t)
    BY <1>4 DEF ToSet
  <2>1. i \in DOMAIN (s \o t) /\ (s \o t)[i] = s[i]
    BY <1>1, <1>2, <1>4
  <2> QED  BY <2>1 DEF ToSet
<1>7. ToSet(t) \subseteq ToSet(s \o t)
  <2> SUFFICES ASSUME NEW i \in 1..Len(t)
               PROVE  t[i] \in ToSet(s \o t)
    BY <1>4 DEF ToSet
  <2>1. Len(s) + i \in DOMAIN (s \o t) /\ (s \o t)[Len(s) + i] = t[i]
    BY <1>1, <1>3, <1>4
  <2> QED  BY <2>1 DEF ToSet
<1> QED  BY <1>1, <1>2, <1>3, <1>5, <1>6, <1>7

\* A suffix, by its indices.
LEMMA SuffixByIndices ==
    ASSUME NEW S, NEW s \in Seq(S), NEW t \in Seq(S), Len(s) <= Len(t),
           \A i \in 1..Len(s) : s[i] = t[(Len(t) - Len(s)) + i]
    PROVE  IsSuffix(s, t)
<1> DEFINE rs == Reverse(s)
           rt == Reverse(t)
<1>1. Len(s) \in Nat /\ Len(t) \in Nat
  OBVIOUS
<1>2. rs \in Seq(S) /\ Len(rs) = Len(s) /\ \A i \in 1..Len(s) : rs[i] = s[(Len(s) - i) + 1]
  BY <1>1 DEF Reverse
<1>3. rt \in Seq(S) /\ Len(rt) = Len(t) /\ \A i \in 1..Len(t) : rt[i] = t[(Len(t) - i) + 1]
  BY <1>1 DEF Reverse
<1>4. \A i \in 1..Len(s) : rs[i] = rt[i]
  <2> TAKE i \in 1..Len(s)
  <2>1. (Len(s) - i) + 1 \in 1..Len(s) /\ i \in 1..Len(t)
        /\ (Len(t) - Len(s)) + ((Len(s) - i) + 1) = (Len(t) - i) + 1
    BY <1>1
  <2> QED  BY <1>2, <1>3, <2>1
<1> HIDE DEF rs, rt
<1>5. SubSeq(rs, 1, Len(rs)) = SubSeq(rt, 1, Len(rs))
  BY <1>1, <1>2, <1>3, <1>4
<1>6. Len(rs) <= Len(rt)
  BY <1>2, <1>3
<1> QED  BY <1>5, <1>6 DEF IsSuffix, IsPrefix, rs, rt

-----------------------------------------------------------------------------
(* Lemmas about journals *)

\* A transaction's writes: at most one of a record, all of them its own.
LEMMA OwnWrites ==
    ASSUME NEW t \in Txns, NEW writes \in WriteSets(t)
    PROVE  /\ writes \in Seq(AllWrites) /\ writes # <<>>
           /\ \A i \in DOMAIN writes : writes[i].txn = t
           /\ OncePerRecord(writes)
<1>1. Writes(t) \subseteq AllWrites /\ \A w \in Writes(t) : w.txn = t /\ w.id \in Ids
  BY DEF Writes, AllWrites
<1>2. CASE writes \in {<<w>> : w \in Writes(t)}
  <2>1. PICK w \in Writes(t) : writes = <<w>>
    BY <1>2
  <2>2. DOMAIN writes = {1} /\ writes[1] = w
    BY <2>1
  <2> QED  BY <1>1, <2>1, <2>2 DEF OncePerRecord
<1>3. CASE writes \in {ws \in Writes(t) \X Writes(t) : ws[1].id < ws[2].id}
  <2>1. /\ writes = <<writes[1], writes[2]>> /\ writes[1] \in Writes(t) /\ writes[2] \in Writes(t)
        /\ writes[1].id < writes[2].id
    BY <1>3
  <2>2. DOMAIN writes = {1, 2} /\ writes \in Seq(AllWrites) /\ writes # <<>>
    <3>1. \A a, b \in AllWrites : <<a, b>> \in Seq(AllWrites) /\ <<a, b>> # <<>>
                                  /\ DOMAIN <<a, b>> = {1, 2}
      OBVIOUS
    <3>2. writes[1] \in AllWrites /\ writes[2] \in AllWrites
      BY <1>1, <2>1
    <3> DEFINE a == writes[1]
               b == writes[2]
    <3>3. a \in AllWrites /\ b \in AllWrites /\ writes = <<a, b>>
      BY <2>1, <3>2
    <3> HIDE DEF a, b
    <3> QED  BY <3>1, <3>3
  <2>3. writes[1].id \in Nat /\ writes[2].id \in Nat
    BY <1>1, <2>1, CoordinatorAssumption
  <2>4. writes[1].id # writes[2].id
    BY <2>1, <2>3
  <2>5. writes[1].txn = t /\ writes[2].txn = t
    BY <1>1, <2>1
  <2> QED  BY <2>2, <2>4, <2>5 DEF OncePerRecord
<1> QED  BY <1>2, <1>3 DEF WriteSets

\* The start of a well-formed journal, which is what a crash may leave of it.
LEMMA PrefixWellFormed ==
    ASSUME NEW s \in Seq(AllWrites), WellFormed(s), NEW n \in 0..Len(s)
    PROVE  SubSeq(s, 1, n) \in Seq(AllWrites) /\ WellFormed(SubSeq(s, 1, n))
<1> DEFINE p == SubSeq(s, 1, n)
<1>1. p \in Seq(AllWrites) /\ Len(p) = n /\ \A i \in 1..n : p[i] = s[i]
  BY SubSeqProperties
<1>2. DOMAIN p = 1..n /\ DOMAIN s = 1..Len(s) /\ Len(s) \in Nat /\ n \in Nat /\ 1..n \subseteq 1..Len(s)
  BY <1>1
<1> HIDE DEF p
<1>3. \A i \in DOMAIN p : i \in DOMAIN s /\ p[i] = s[i] /\ i \in Nat
  BY <1>1, <1>2
<1>4. \A i, m \in DOMAIN s : m < i /\ i \in DOMAIN p => m \in DOMAIN p
  BY <1>2
<1>5. OncePerRecord(p) /\ NothingPastRefused(p) /\ AppliedIsLatest(p) /\ OnlyWanted(p)
  BY <1>3 DEF WellFormed, OncePerRecord, NothingPastRefused, AppliedIsLatest, OnlyWanted
<1>6. StuckBetween(p)
  <2> SUFFICES ASSUME NEW i \in DOMAIN p, NEW j \in DOMAIN p, i < j, p[i].txn # p[j].txn
               PROVE  \E m \in DOMAIN p : m < j /\ p[m].record \in Refused
    BY DEF StuckBetween
  <2>1. PICK m \in DOMAIN s : m < j /\ s[m].record \in Refused
    BY <1>3 DEF WellFormed, StuckBetween
  <2>2. m \in DOMAIN p /\ p[m] = s[m]
    BY <1>3, <1>4, <2>1
  <2> QED  BY <2>1, <2>2
<1> QED  BY <1>1, <1>5, <1>6 DEF WellFormed, p

\* A journal with nothing in it.
LEMMA EmptyWellFormed == WellFormed(<<>>) /\ Closed(<<>>) /\ ToSet(<<>>) = {}
<1>1. DOMAIN <<>> = {}
  OBVIOUS
<1> QED
  BY <1>1 DEF WellFormed, OncePerRecord, StuckBetween, NothingPastRefused, AppliedIsLatest,
              OnlyWanted, Closed, ToSet

-----------------------------------------------------------------------------
(* The invariant is inductive *)

\* The invariant holds of a database just opened.
LEMMA InitIInv == CoordinatorInit => IInv
<1> SUFFICES ASSUME CoordinatorInit
             PROVE  IInv
  OBVIOUS
<1>1. Entries = <<>> /\ DOMAIN Entries = {} /\ doing = "idle" /\ queue = <<>>
  BY DEF CoordinatorInit, Absent, Entries
<1>2. Types
  <2>1. journal \in [file : {"absent", "bad", "good"}, entries : Seq(AllWrites)]
    BY DEF CoordinatorInit, Absent
  <2>2. data \in [Ids -> Rows \cup {Gone}] /\ latest \in [Ids -> Rows \cup {Gone}]
    BY DEF CoordinatorInit
  <2>3. state \in [Txns -> States] /\ wants \in [Txns -> SUBSET AllWrites]
    BY DEF CoordinatorInit, States
  <2>4. landed \subseteq Applied /\ torn \in BOOLEAN /\ queue \in Seq(AllWrites) /\ doing \in Phases
    <3>1. queue \in Seq(AllWrites) /\ doing \in Phases
      BY <1>1 DEF Phases
    <3>2. landed = {} /\ torn = FALSE
      BY DEF CoordinatorInit
    <3> QED  BY <3>1, <3>2
  <2> QED  BY <2>1, <2>2, <2>3, <2>4 DEF Types
<1>3. Wanted
  BY DEF CoordinatorInit, Wanted
<1>4. Journaled
  BY <1>1, EmptyWellFormed DEF Journaled
<1>5. BeingWritten /\ BeingApplied
  BY <1>1 DEF BeingWritten, BeingApplied
<1>6. Promises
  BY DEF CoordinatorInit, Promises
<1>7. Converged
  BY DEF CoordinatorInit, Converged
<1> QED  BY <1>2, <1>3, <1>4, <1>5, <1>6, <1>7 DEF IInv

\* A commit journals its own writes behind what is pending.
LEMMA CommitStep ==
    ASSUME IInv, NEW t \in Txns, NEW writes \in WriteSets(t), commit_coordinated(t, writes)
    PROVE  IInv'
<1> PICK e : e = Entries
  OBVIOUS
<1> PICK q : q = e \o writes
  OBVIOUS
<1>1. /\ journal' = journal /\ data' = data /\ landed' = landed /\ latest' = latest
      /\ raced' = raced /\ torn' = torn
      /\ queue' = q /\ doing = "idle" /\ doing' = "writing" /\ state[t] = "new"
      /\ state' = [state EXCEPT ![t] = "running"]
      /\ wants' = [wants EXCEPT ![t] = ToSet(writes)] /\ Entries' = e
  BY DEF commit_coordinated, load_journal, Entries
<1>2. e \in Seq(AllWrites) /\ DOMAIN e = 1..Len(e) /\ Len(e) \in Nat
  BY DEF IInv, Types, Entries
<1>3. /\ writes \in Seq(AllWrites) /\ DOMAIN writes = 1..Len(writes) /\ Len(writes) \in Nat
      /\ \A i \in DOMAIN writes : writes[i].txn = t
      /\ OncePerRecord(writes)
  BY OwnWrites
<1>4. /\ q \in Seq(AllWrites) /\ Len(q) = Len(e) + Len(writes)
      /\ \A i \in 1..Len(e) : q[i] = e[i]
      /\ \A i \in 1..Len(writes) : q[Len(e) + i] = writes[i]
      /\ ToSet(q) = ToSet(e) \cup ToSet(writes)
  BY <1>2, <1>3, ConcatRange
<1>5. wants \in [Txns -> SUBSET AllWrites] /\ state \in [Txns -> States]
  BY DEF IInv, Types
<1>6. /\ wants[t] = {} /\ wants'[t] = ToSet(writes)
      /\ \A u \in Txns \ {t} : wants'[u] = wants[u]
      /\ \A u \in Txns : wants[u] \subseteq wants'[u]
  BY <1>1, <1>5 DEF IInv, Wanted
<1>7. ToSet(writes) \subseteq AllWrites /\ \A i \in DOMAIN writes : writes[i] \in ToSet(writes)
  BY <1>3 DEF ToSet
<1>8. /\ WellFormed(e) /\ (~ torn => Closed(e))
      /\ e # <<>> => \E i \in DOMAIN e : e[i].record \in Refused
  BY <1>1 DEF IInv, Journaled
<1>9. \A i \in DOMAIN e : e[i] \in AllWrites /\ e[i].txn \in Txns \ {t}
  <2> TAKE i \in DOMAIN e
  <2>1. e[i] \in AllWrites
    BY <1>2
  <2>2. e[i].txn \in Txns
    BY <2>1 DEF AllWrites
  <2>3. e[i] \in wants[e[i].txn]
    BY <1>8 DEF WellFormed, OnlyWanted
  <2> QED  BY <1>6, <2>1, <2>2, <2>3
<1>10. \A w \in landed : w.txn \in Txns \ {t} /\ w \in wants[w.txn]
  BY <1>6 DEF IInv, Types, Wanted, Applied
<1>11. \A i \in DOMAIN writes : writes[i] \notin landed
  BY <1>3, <1>10
<1>12. \A i \in DOMAIN q :
          \/ i \in DOMAIN e /\ q[i] = e[i]
          \/ /\ i \notin DOMAIN e /\ i - Len(e) \in DOMAIN writes
             /\ q[i] = writes[i - Len(e)]
  <2> TAKE i \in DOMAIN q
  <2>1. i \in 1..(Len(e) + Len(writes))
    BY <1>4
  <2>2. CASE i <= Len(e)
    BY <1>2, <1>4, <2>1, <2>2
  <2>3. CASE ~ (i <= Len(e))
    <3>1. i - Len(e) \in 1..Len(writes) /\ i = Len(e) + (i - Len(e)) /\ i \notin 1..Len(e)
      BY <1>2, <1>3, <2>1, <2>3
    <3> QED  BY <1>2, <1>3, <1>4, <3>1
  <2> QED  BY <2>2, <2>3
<1>13. \A i \in DOMAIN q : i \in Nat /\ (i \in DOMAIN e \/ \A j \in DOMAIN e : j < i)
  <2>1. \A i \in 1..Len(q) : i \in Nat /\ (i \in 1..Len(e) \/ \A j \in 1..Len(e) : j < i)
    BY <1>2, <1>3, <1>4
  <2> QED  BY <1>2, <1>4, <2>1
<1>14. \A i \in DOMAIN q : \A j \in DOMAIN e : i < j => i \in DOMAIN e
  <2>1. \A i \in 1..Len(q) : \A j \in 1..Len(e) : i < j => i \in 1..Len(e)
    BY <1>2, <1>3, <1>4
  <2> QED  BY <1>2, <1>4, <2>1
<1>15. DOMAIN e \subseteq DOMAIN q
  BY <1>2, <1>3, <1>4
<1>20. Types'
  <2>1. wants' \in [Txns -> SUBSET AllWrites]
    BY <1>1, <1>5, <1>7
  <2>2. state' \in [Txns -> States]
    BY <1>1, <1>5 DEF States
  <2>3. doing' \in Phases
    BY <1>1 DEF Phases
  <2> QED  BY <1>1, <1>4, <2>1, <2>2, <2>3 DEF IInv, Types
<1>21. Wanted'
  <2>1. \A u \in Txns : state'[u] = "new" => wants'[u] = {}
    <3> SUFFICES ASSUME NEW u \in Txns, state'[u] = "new"
                 PROVE  wants'[u] = {}
      OBVIOUS
    <3>1. u # t
      BY <1>1, <1>5
    <3>2. state[u] = "new" /\ wants'[u] = wants[u]
      BY <1>1, <1>5, <1>6, <3>1
    <3> QED  BY <3>2 DEF IInv, Wanted
  <2>2. \A w \in landed' : w \in wants'[w.txn]
    BY <1>1, <1>6, <1>10
  <2>3. \A u \in Txns : \A w \in wants'[u] : w.txn = u
    <3>1. \A w \in ToSet(writes) : w.txn = t
      BY <1>3 DEF ToSet
    <3> QED  BY <1>6, <3>1 DEF IInv, Wanted
  <2> QED  BY <2>1, <2>2, <2>3 DEF Wanted
<1>22. WellFormed(e)' /\ ((~ torn) => Closed(e))'
  <2>1. OnlyWanted(e)'
    BY <1>6, <1>8, <1>9 DEF WellFormed, OnlyWanted
  <2>2. (~ torn) => Closed(e)'
    BY <1>6, <1>8, <1>9 DEF Closed
  <2> QED
    BY <1>1, <1>8, <2>1, <2>2
    DEF WellFormed, OncePerRecord, StuckBetween, NothingPastRefused, AppliedIsLatest
<1>23. Journaled'
  BY <1>1, <1>22 DEF Journaled
<1>24. OncePerRecord(q)
  <2> SUFFICES ASSUME NEW i \in DOMAIN q, NEW j \in DOMAIN q, i # j, q[i].txn = q[j].txn
               PROVE  q[i].id # q[j].id
    BY DEF OncePerRecord
  <2>1. CASE i \in DOMAIN e /\ j \in DOMAIN e
    BY <1>8, <1>12, <2>1 DEF WellFormed, OncePerRecord
  <2>2. CASE i \notin DOMAIN e /\ j \notin DOMAIN e
    <3>1. i - Len(e) # j - Len(e)
      BY <1>2, <1>13
    <3> QED  BY <1>3, <1>12, <2>2, <3>1 DEF OncePerRecord
  <2>3. CASE (i \in DOMAIN e) # (j \in DOMAIN e)
    BY <1>3, <1>9, <1>12, <2>3
  <2> QED  BY <2>1, <2>2, <2>3
<1>25. StuckBetween(q)
  <2> SUFFICES ASSUME NEW i \in DOMAIN q, NEW j \in DOMAIN q, i < j, q[i].txn # q[j].txn
               PROVE  \E m \in DOMAIN q : m < j /\ q[m].record \in Refused
    BY DEF StuckBetween
  <2>1. CASE j \in DOMAIN e
    <3>1. i \in DOMAIN e /\ q[i] = e[i] /\ q[j] = e[j]
      BY <1>12, <1>14, <2>1
    <3>2. PICK m \in DOMAIN e : m < j /\ e[m].record \in Refused
      BY <1>8, <2>1, <3>1 DEF WellFormed, StuckBetween
    <3>3. m \in DOMAIN q /\ q[m] = e[m]
      BY <1>12, <1>15, <3>2
    <3> QED  BY <3>2, <3>3
  <2>2. CASE j \notin DOMAIN e
    <3>1. i \in DOMAIN e
      BY <1>3, <1>12, <2>2
    <3>2. e # <<>>
      BY <3>1
    <3>3. PICK m \in DOMAIN e : e[m].record \in Refused
      BY <1>8, <3>2
    <3>4. m \in DOMAIN q /\ q[m] = e[m] /\ m < j
      BY <1>12, <1>13, <1>15, <2>2, <3>3
    <3> QED  BY <3>3, <3>4
  <2> QED  BY <2>1, <2>2
<1>26. \A i \in DOMAIN q : q[i] \in landed => i \in DOMAIN e /\ q[i] = e[i]
  BY <1>11, <1>12
<1>27. NothingPastRefused(q)'
  <2> SUFFICES ASSUME NEW i \in DOMAIN q, NEW m \in DOMAIN q, q[i] \in landed, m < i
               PROVE  q[m].record \notin Refused
    BY <1>1 DEF NothingPastRefused
  <2>1. i \in DOMAIN e /\ q[i] = e[i]
    BY <1>26
  <2>2. m \in DOMAIN e /\ q[m] = e[m]
    BY <1>12, <1>14, <2>1
  <2> QED  BY <1>8, <2>1, <2>2 DEF WellFormed, NothingPastRefused
<1>28. AppliedIsLatest(q)'
  <2> SUFFICES ASSUME NEW i \in DOMAIN q, q[i] \in landed, q[i].id \notin raced
               PROVE  latest[q[i].id] = q[i].record
    BY <1>1 DEF AppliedIsLatest
  <2> QED  BY <1>8, <1>26 DEF WellFormed, AppliedIsLatest
<1>29. OnlyWanted(q)'
  <2> SUFFICES ASSUME NEW i \in DOMAIN q
               PROVE  q[i] \in wants'[q[i].txn]
    BY DEF OnlyWanted
  <2>1. CASE i \in DOMAIN e
    BY <1>6, <1>8, <1>9, <1>12, <2>1 DEF WellFormed, OnlyWanted
  <2>2. CASE i \notin DOMAIN e
    BY <1>3, <1>6, <1>7, <1>12, <2>2
  <2> QED  BY <2>1, <2>2
<1>30. ~ torn => Closed(q)'
  <2> SUFFICES ASSUME ~ torn, NEW i \in DOMAIN q
               PROVE  wants'[q[i].txn] \subseteq ToSet(q)
    BY DEF Closed
  <2>1. CASE i \in DOMAIN e
    BY <1>4, <1>6, <1>8, <1>9, <1>12, <2>1 DEF Closed
  <2>2. CASE i \notin DOMAIN e
    BY <1>3, <1>4, <1>6, <1>12, <2>2
  <2> QED  BY <2>1, <2>2
<1>31. BeingWritten'
  <2>1. WellFormed(q)'
    BY <1>24, <1>25, <1>27, <1>28, <1>29 DEF WellFormed, OncePerRecord, StuckBetween
  <2>2. ToSet(q) \cap landed \subseteq ToSet(e)
    <3> SUFFICES ASSUME NEW i \in DOMAIN q, q[i] \in landed
                 PROVE  q[i] \in ToSet(e)
      BY DEF ToSet
    <3> QED  BY <1>26 DEF ToSet
  <2>3. (torn' = torn) /\ queue' = q /\ Entries' = e /\ landed' = landed
    BY <1>1
  <2>4. ToSet(Entries)' \subseteq ToSet(queue)' /\ ToSet(queue)' \cap landed' \subseteq ToSet(Entries)'
    BY <1>4, <2>2, <2>3
  <2>5. WellFormed(queue)' /\ (~ torn' => Closed(queue)')
    BY <1>30, <2>1, <2>3
  <2> QED  BY <2>4, <2>5 DEF BeingWritten
<1>32. BeingApplied'
  BY <1>1 DEF BeingApplied
<1>33. Promises'
  <2> SUFFICES ASSUME NEW u \in Txns
               PROVE  /\ state'[u] = "running" => wants'[u] \subseteq ToSet(q)
                      /\ state'[u] = "ok" => wants'[u] \subseteq landed
                      /\ ~ torn => \/ wants'[u] \subseteq landed
                                   \/ wants'[u] \cap landed = {}
                                   \/ wants'[u] \subseteq ToSet(e)
    BY <1>1 DEF Promises
  <2>1. CASE u = t
    <3>1. wants'[u] \cap landed = {}
      BY <1>6, <1>11, <2>1 DEF ToSet
    <3>2. state'[u] = "running" /\ wants'[u] \subseteq ToSet(q)
      BY <1>1, <1>4, <1>5, <1>6, <2>1
    <3> QED  BY <3>1, <3>2
  <2>2. CASE u # t
    <3>1. state'[u] = state[u] /\ wants'[u] = wants[u]
      BY <1>1, <1>5, <1>6, <2>2
    <3> QED  BY <1>1, <3>1 DEF IInv, Promises
  <2> QED  BY <2>1, <2>2
<1>34. Converged'
  BY <1>1 DEF IInv, Converged
<1> QED  BY <1>20, <1>21, <1>23, <1>31, <1>32, <1>33, <1>34 DEF IInv

\* The journal that has been written is the one the apply goes through.
LEMMA WriteJournalStep ==
    ASSUME IInv, write_journal
    PROVE  IInv'
<1> PICK q : q = queue
  OBVIOUS
<1>1. /\ data' = data /\ landed' = landed /\ latest' = latest /\ raced' = raced
      /\ torn' = torn /\ wants' = wants /\ state' = state
      /\ queue' = q /\ queue = q /\ doing = "writing" /\ doing' = "applying"
      /\ journal' = [file |-> "good", entries |-> q] /\ Entries' = q
  BY DEF write_journal, Holding, Entries, history
<1>2. q \in Seq(AllWrites) /\ Len(q) \in Nat
  BY <1>1 DEF IInv, Types
<1>3. Types'
  BY <1>1, <1>2 DEF IInv, Types, Phases
<1>4. Wanted' /\ BeingWritten' /\ Converged'
  BY <1>1 DEF IInv, Wanted, BeingWritten, Converged
<1>5. WellFormed(q) /\ (~ torn => Closed(q)) /\ ToSet(Entries) \subseteq ToSet(q)
  BY <1>1 DEF IInv, BeingWritten
<1>6. Journaled'
  <2>1. WellFormed(q)' /\ (~ torn' => Closed(q)')
    BY <1>1, <1>5
    DEF WellFormed, OncePerRecord, StuckBetween, NothingPastRefused, AppliedIsLatest, OnlyWanted, Closed
  <2> QED  BY <1>1, <2>1 DEF Journaled
<1>7. BeingApplied'
  BY <1>1, <1>2 DEF BeingApplied
<1>8. Promises'
  <2> SUFFICES ASSUME NEW u \in Txns
               PROVE  /\ state[u] = "running" => wants[u] \subseteq ToSet(q)
                      /\ state[u] = "ok" => wants[u] \subseteq landed
                      /\ ~ torn => \/ wants[u] \subseteq landed
                                   \/ wants[u] \cap landed = {}
                                   \/ wants[u] \subseteq ToSet(q)
    BY <1>1 DEF Promises
  <2> QED  BY <1>1, <1>5 DEF IInv, Promises
<1> QED  BY <1>3, <1>4, <1>6, <1>7, <1>8 DEF IInv

\* What the apply takes next: the first entry behind the ones that have been applied.
LEMMA NextEntry ==
    ASSUME IInv, doing \in {"applying", "recovering"}, queue # <<>>
    PROVE  LET k == (Len(Entries) - Len(queue)) + 1
           IN  /\ k \in DOMAIN Entries /\ k \in Nat
               /\ Head(queue) = Entries[k]
               /\ Head(queue) \in AllWrites
               /\ Tail(queue) \in Seq(AllWrites)
               /\ Len(Tail(queue)) <= Len(Entries)
               /\ (Len(Entries) - Len(Tail(queue))) = k
               /\ \A i \in 1..Len(Tail(queue)) : Tail(queue)[i] = Entries[k + i]
               /\ \A i \in DOMAIN Entries : i < k => Entries[i] \in landed
<1> PICK k : k = (Len(Entries) - Len(queue)) + 1
  OBVIOUS
<1>1. /\ Head(queue) = queue[1] /\ Head(queue) \in AllWrites
      /\ Tail(queue) \in Seq(AllWrites) /\ Len(Tail(queue)) = Len(queue) - 1
      /\ Len(queue) > 0 /\ Len(queue) \in Nat
      /\ \A i \in 1..Len(Tail(queue)) : Tail(queue)[i] = queue[i + 1]
  BY TailIndices DEF IInv, Types
<1>2. /\ Len(queue) <= Len(Entries)
      /\ \A i \in 1..Len(queue) : queue[i] = Entries[(Len(Entries) - Len(queue)) + i]
      /\ \A i \in 1..(Len(Entries) - Len(queue)) : Entries[i] \in landed
  BY DEF IInv, BeingApplied
<1>3. Entries \in Seq(AllWrites) /\ Len(Entries) \in Nat /\ DOMAIN Entries = 1..Len(Entries)
  BY DEF IInv, Types, Entries
<1>4. k \in DOMAIN Entries /\ k \in Nat
  BY <1>1, <1>2, <1>3
<1>5. Head(queue) = Entries[k]
  <2>1. 1 \in 1..Len(queue)
    BY <1>1
  <2> QED  BY <1>1, <1>2, <2>1
<1>6. \A i \in 1..Len(Tail(queue)) : Tail(queue)[i] = Entries[k + i]
  <2> TAKE i \in 1..Len(Tail(queue))
  <2>1. i + 1 \in 1..Len(queue) /\ k + i = (Len(Entries) - Len(queue)) + (i + 1)
    BY <1>1, <1>3
  <2> QED  BY <1>1, <1>2, <2>1
<1>7. \A i \in DOMAIN Entries : i < k => Entries[i] \in landed
  <2> SUFFICES ASSUME NEW i \in 1..Len(Entries), i < k
               PROVE  i \in 1..(Len(Entries) - Len(queue))
    BY <1>2, <1>3
  <2> QED  BY <1>1, <1>3
<1>8. Len(Tail(queue)) <= Len(Entries) /\ (Len(Entries) - Len(Tail(queue))) = k
  BY <1>1, <1>2, <1>3
<1> QED  BY <1>1, <1>4, <1>5, <1>6, <1>7, <1>8

\* A refused write ends the call with the journal in place.
LEMMA ApplyRefused ==
    ASSUME IInv, apply, Head(queue).record \in Refused
    PROVE  IInv'
<1>1. /\ data' = data /\ landed' = landed /\ latest' = latest /\ raced' = raced
      /\ torn' = torn /\ wants' = wants /\ journal' = journal /\ Entries' = Entries
      /\ doing \in {"applying", "recovering"} /\ queue # <<>> /\ queue' = <<>>
      /\ doing' \in {"idle", "down"}
      /\ state' = [t \in Txns |-> IF state[t] = "running" THEN "err" ELSE state[t]]
  BY DEF apply, Conclude, Entries
<1>2. Types'
  <2>1. state' \in [Txns -> States]
    BY <1>1 DEF IInv, Types, States
  <2>2. queue' \in Seq(AllWrites) /\ doing' \in Phases
    BY <1>1 DEF Phases
  <2> QED  BY <1>1, <2>1, <2>2 DEF IInv, Types
<1>3. \A t \in Txns : state'[t] \notin {"new", "ok", "running"} \/ state'[t] = state[t]
  BY <1>1
<1>4. \A t \in Txns : state'[t] # "running"
  BY <1>1
<1>5. Wanted'
  BY <1>1, <1>3 DEF IInv, Wanted
<1>6. Journaled'
  <2>1. \E i \in DOMAIN Entries : Entries[i].record \in Refused
    BY <1>1, NextEntry
  <2>2. WellFormed(Entries)' /\ (~ torn' => Closed(Entries)')
    BY <1>1
    DEF IInv, Journaled, WellFormed, OncePerRecord, StuckBetween, NothingPastRefused,
        AppliedIsLatest, OnlyWanted, Closed
  <2> QED  BY <1>1, <2>1, <2>2 DEF Journaled
<1>7. BeingWritten' /\ BeingApplied' /\ Converged'
  BY <1>1 DEF IInv, BeingWritten, BeingApplied, Converged
<1>8. Promises'
  <2> SUFFICES ASSUME NEW u \in Txns
               PROVE  /\ state'[u] # "running"
                      /\ state'[u] = "ok" => wants[u] \subseteq landed
                      /\ ~ torn => \/ wants[u] \subseteq landed
                                   \/ wants[u] \cap landed = {}
                                   \/ wants[u] \subseteq ToSet(Entries)
    BY <1>1 DEF Promises
  <2> QED  BY <1>1, <1>3, <1>4 DEF IInv, Promises
<1> QED  BY <1>2, <1>5, <1>6, <1>7, <1>8 DEF IInv

\* A write that is applied, for the first time or once more: the record holds what was
\* last put there, and no other write of the journal is about the same record.
LEMMA ApplyLands ==
    ASSUME IInv, apply, Head(queue).record \notin Refused
    PROVE  IInv'
<1> PICK e : e = Entries
  OBVIOUS
<1> PICK k : k = (Len(Entries) - Len(queue)) + 1
  OBVIOUS
<1> PICK w : w = Head(queue)
  OBVIOUS
<1>1. /\ data' = [data EXCEPT ![w.id] = w.record] /\ landed' = landed \cup {w}
      /\ latest' = IF w \in landed THEN latest ELSE [latest EXCEPT ![w.id] = w.record]
      /\ raced' = raced /\ state' = state /\ doing' = doing
      /\ torn' = torn /\ wants' = wants /\ journal' = journal /\ Entries' = e
      /\ doing \in {"applying", "recovering"} /\ queue # <<>> /\ queue' = Tail(queue)
  BY DEF apply, Land, Entries
<1>2. /\ k \in DOMAIN e /\ k \in Nat /\ w = e[k] /\ w \in AllWrites
      /\ Tail(queue) \in Seq(AllWrites)
      /\ Len(Tail(queue)) <= Len(e) /\ Len(e) - Len(Tail(queue)) = k
      /\ \A i \in 1..Len(Tail(queue)) : Tail(queue)[i] = e[k + i]
      /\ \A i \in DOMAIN e : i < k => e[i] \in landed
  BY <1>1, NextEntry
<1>3. e \in Seq(AllWrites) /\ DOMAIN e = 1..Len(e) /\ Len(e) \in Nat
  BY DEF IInv, Types, Entries
<1>4. w.id \in Ids /\ w.record \in Rows \cup {Gone} /\ w.txn \in Txns /\ w \in Applied
  BY <1>2 DEF AllWrites, Applied
<1>5. WellFormed(e) /\ (~ torn => Closed(e))
  BY DEF IInv, Journaled
<1>6. \A v \in landed : v.record \notin Refused
  BY CoordinatorAssumption DEF IInv, Types, Applied
<1>7. \A i \in DOMAIN e : i \in Nat
  BY <1>3
<1>8. \A m \in DOMAIN e : m < k => e[m].record \notin Refused
  BY <1>2, <1>6
<1>9. \A i \in DOMAIN e : e[i] \in landed \/ i = k => \A m \in DOMAIN e : m < i => e[m].record \notin Refused
  BY <1>5, <1>8 DEF WellFormed, NothingPastRefused
<1>10. \A i \in DOMAIN e : i # k /\ e[i] \in landed \cup {w} => e[i].id # w.id
  <2> SUFFICES ASSUME NEW i \in DOMAIN e, i # k, e[i] \in landed \cup {w}
               PROVE  e[i].id # w.id
    OBVIOUS
  <2>1. CASE i < k
    <3>1. e[i].txn = e[k].txn
      BY <1>2, <1>5, <1>9, <2>1 DEF WellFormed, StuckBetween
    <3> QED  BY <1>2, <1>5, <3>1 DEF WellFormed, OncePerRecord
  <2>2. CASE k < i
    <3>1. e[i] \in landed => e[k].txn = e[i].txn
      BY <1>2, <1>5, <1>9, <2>2 DEF WellFormed, StuckBetween
    <3>2. e[k].txn = e[i].txn
      BY <1>2, <3>1
    <3> QED  BY <1>2, <1>5, <3>2 DEF WellFormed, OncePerRecord
  <2> QED  BY <1>2, <1>7, <2>1, <2>2
<1>11. w \in landed /\ w.id \notin raced => latest[w.id] = w.record
  BY <1>2, <1>5 DEF WellFormed, AppliedIsLatest
<1>12. data \in [Ids -> Rows \cup {Gone}] /\ latest \in [Ids -> Rows \cup {Gone}]
  BY DEF IInv, Types
<1>13. \A id \in Ids : id # w.id => latest'[id] = latest[id] /\ data'[id] = data[id]
  BY <1>1, <1>12
<1>14. w.id \notin raced => latest'[w.id] = w.record
  BY <1>1, <1>4, <1>11, <1>12
<1>15. data'[w.id] = w.record
  BY <1>1, <1>4, <1>12
<1>20. Types'
  <2>1. data' \in [Ids -> Rows \cup {Gone}] /\ latest' \in [Ids -> Rows \cup {Gone}]
    BY <1>1, <1>4, <1>12
  <2>2. landed' \subseteq Applied
    BY <1>1, <1>4 DEF IInv, Types
  <2> QED  BY <1>1, <1>2, <2>1, <2>2 DEF IInv, Types
<1>21. Wanted'
  <2>1. w \in wants[w.txn]
    BY <1>2, <1>5 DEF WellFormed, OnlyWanted
  <2> QED  BY <1>1, <2>1 DEF IInv, Wanted
<1>22. NothingPastRefused(e)'
  <2> SUFFICES ASSUME NEW i \in DOMAIN e, NEW m \in DOMAIN e, e[i] \in landed \cup {w}, m < i
               PROVE  e[m].record \notin Refused
    BY <1>1 DEF NothingPastRefused
  <2>1. e[i] \in landed \/ i = k
    BY <1>2, <1>10
  <2> QED  BY <1>9, <2>1
<1>23. AppliedIsLatest(e)'
  <2> SUFFICES ASSUME NEW i \in DOMAIN e, e[i] \in landed \cup {w}, e[i].id \notin raced
               PROVE  latest'[e[i].id] = e[i].record
    BY <1>1 DEF AppliedIsLatest
  <2>1. CASE i = k
    BY <1>2, <1>14, <2>1
  <2>2. CASE i # k
    <3>1. e[i].id # w.id
      BY <1>10, <2>2
    <3>2. e[i] \in landed /\ e[i].id \in Ids
      <4>1. e[i] \in AllWrites
        BY <1>3
      <4> QED  BY <3>1, <4>1 DEF AllWrites
    <3>3. latest'[e[i].id] = latest[e[i].id]
      BY <1>13, <3>1, <3>2
    <3> QED  BY <1>5, <3>2, <3>3 DEF WellFormed, AppliedIsLatest
  <2> QED  BY <2>1, <2>2
<1>24. Journaled'
  <2>1. WellFormed(e)' /\ (~ torn' => Closed(e)')
    BY <1>1, <1>5, <1>22, <1>23 DEF WellFormed, OncePerRecord, StuckBetween, OnlyWanted, Closed
  <2>2. doing' # "idle"
    BY <1>1
  <2> QED  BY <1>1, <2>1, <2>2 DEF Journaled
<1>25. BeingWritten'
  BY <1>1 DEF BeingWritten
<1>26. BeingApplied'
  <2>1. \A i \in 1..k : e[i] \in landed'
    <3> SUFFICES ASSUME NEW i \in 1..k
                 PROVE  e[i] \in landed'
      OBVIOUS
    <3>1. i \in DOMAIN e
      BY <1>2, <1>3
    <3>2. i < k \/ i = k
      BY <1>2
    <3> QED  BY <1>1, <1>2, <3>1, <3>2
  <2>2. queue' = Tail(queue) /\ Entries' = e
    BY <1>1
  <2> QED  BY <1>2, <2>1, <2>2 DEF BeingApplied
<1>27. Promises'
  <2> SUFFICES ASSUME NEW u \in Txns
               PROVE  /\ state[u] = "running" => doing = "applying" /\ wants[u] \subseteq ToSet(e)
                      /\ state[u] = "ok" => wants[u] \subseteq landed'
                      /\ ~ torn => \/ wants[u] \subseteq landed'
                                   \/ wants[u] \cap landed' = {}
                                   \/ wants[u] \subseteq ToSet(e)
    BY <1>1 DEF Promises
  <2>1. /\ state[u] = "running" => doing = "applying" /\ wants[u] \subseteq ToSet(e)
        /\ state[u] = "ok" => wants[u] \subseteq landed
        /\ ~ torn => \/ wants[u] \subseteq landed
                     \/ wants[u] \cap landed = {}
                     \/ wants[u] \subseteq ToSet(e)
    BY <1>1 DEF IInv, Promises
  <2>2. CASE w \in wants[u]
    <3>1. w.txn = u
      BY <2>2 DEF IInv, Wanted
    <3>2. ~ torn => wants[u] \subseteq ToSet(e)
      BY <1>2, <1>5, <3>1 DEF Closed
    <3> QED  BY <1>1, <2>1, <3>2
  <2>3. CASE w \notin wants[u]
    BY <1>1, <2>1, <2>3
  <2> QED  BY <2>2, <2>3
<1>28. Converged'
  <2> SUFFICES ASSUME NEW id \in Ids, id \notin raced
               PROVE  data'[id] = latest'[id]
    BY <1>1 DEF Converged
  <2>1. data[id] = latest[id]
    BY DEF IInv, Converged
  <2> QED  BY <1>13, <1>14, <1>15, <2>1
<1> QED  BY <1>20, <1>21, <1>24, <1>25, <1>26, <1>27, <1>28 DEF IInv

\* The journal goes when everything in it has been applied.
LEMMA RemoveJournalStep ==
    ASSUME IInv, remove_journal
    PROVE  IInv'
<1>1. /\ data' = data /\ landed' = landed /\ latest' = latest /\ raced' = raced
      /\ torn' = torn /\ wants' = wants /\ queue' = queue
      /\ journal' = [file |-> "absent", entries |-> <<>>] /\ Entries' = <<>>
      /\ doing \in {"applying", "recovering"} /\ queue = <<>> /\ doing' = "idle"
      /\ state' = [t \in Txns |-> IF state[t] = "running" THEN "ok" ELSE state[t]]
  BY DEF remove_journal, Conclude, Absent, Entries, history
<1>2. Types'
  <2>1. state' \in [Txns -> States]
    BY <1>1 DEF IInv, Types, States
  <2>2. journal' \in [file : {"absent", "bad", "good"}, entries : Seq(AllWrites)]
    BY <1>1
  <2>3. doing' \in Phases
    BY <1>1 DEF Phases
  <2> QED  BY <1>1, <2>1, <2>2, <2>3 DEF IInv, Types
<1>3. ToSet(Entries) \subseteq landed
  <2>1. Entries \in Seq(AllWrites) /\ DOMAIN Entries = 1..Len(Entries) /\ Len(Entries) \in Nat
    BY DEF IInv, Types, Entries
  <2>2. 1..(Len(Entries) - Len(queue)) = DOMAIN Entries
    BY <1>1, <2>1
  <2> QED  BY <1>1, <2>2 DEF IInv, BeingApplied, ToSet
<1>4. \A t \in Txns : /\ state'[t] # "running"
                      /\ state'[t] = "new" => state[t] = "new"
                      /\ state'[t] = "ok" => state[t] \in {"ok", "running"}
  BY <1>1
<1>5. Wanted'
  BY <1>1, <1>4 DEF IInv, Wanted
<1>6. Journaled'
  <2>1. WellFormed(<<>>)' /\ Closed(<<>>)' /\ DOMAIN <<>> = {}
    BY EmptyWellFormed
    DEF WellFormed, OncePerRecord, StuckBetween, NothingPastRefused, AppliedIsLatest, OnlyWanted, Closed
  <2> QED  BY <1>1, <2>1 DEF Journaled
<1>7. BeingWritten' /\ BeingApplied' /\ Converged'
  BY <1>1 DEF IInv, BeingWritten, BeingApplied, Converged
<1>8. Promises'
  <2> SUFFICES ASSUME NEW u \in Txns
               PROVE  /\ state'[u] # "running"
                      /\ state'[u] = "ok" => wants[u] \subseteq landed
                      /\ ~ torn => \/ wants[u] \subseteq landed
                                   \/ wants[u] \cap landed = {}
    BY <1>1 DEF Promises
  <2>1. state[u] = "running" => wants[u] \subseteq landed
    BY <1>1, <1>3 DEF IInv, Promises
  <2>2. /\ state[u] = "ok" => wants[u] \subseteq landed
        /\ ~ torn => \/ wants[u] \subseteq landed
                     \/ wants[u] \cap landed = {}
                     \/ wants[u] \subseteq ToSet(Entries)
    BY DEF IInv, Promises
  <2> QED  BY <1>3, <1>4, <2>1, <2>2
<1> QED  BY <1>2, <1>5, <1>6, <1>7, <1>8 DEF IInv

\* A write of one record races the journal only where the journal could still undo it.
LEMMA WriteOneStep ==
    ASSUME IInv, NEW id \in Ids, NEW v \in Rows \cup {Gone}, write_one(id, v)
    PROVE  IInv'
<1>1. /\ journal' = journal /\ Entries' = Entries /\ doing' = doing /\ queue' = queue
      /\ state' = state /\ wants' = wants /\ landed' = landed /\ torn' = torn
      /\ data' = [data EXCEPT ![id] = v] /\ latest' = [latest EXCEPT ![id] = v]
      /\ raced' = IF \E w \in landed \cap ToSet(Entries) : w.id = id
                  THEN raced \cup {id} ELSE raced
  BY DEF write_one, Entries
<1>2. data \in [Ids -> Rows \cup {Gone}] /\ latest \in [Ids -> Rows \cup {Gone}]
  BY DEF IInv, Types
<1>3. Types'
  BY <1>1, <1>2 DEF IInv, Types
<1>4. Wanted' /\ BeingApplied' /\ Promises'
  BY <1>1 DEF IInv, Wanted, BeingApplied, Promises
<1>5. /\ raced \subseteq raced'
      /\ \A x \in Ids : x # id => latest'[x] = latest[x] /\ data'[x] = data[x]
      /\ latest'[id] = v /\ data'[id] = v
  BY <1>1, <1>2
<1>6. \A w \in landed \cap ToSet(Entries) : w.id \notin raced' => w.id # id
  BY <1>1
<1>7. ASSUME NEW s \in Seq(AllWrites), WellFormed(s), ToSet(s) \cap landed \subseteq ToSet(Entries)
      PROVE  WellFormed(s)'
  <2>1. AppliedIsLatest(s)'
    <3> SUFFICES ASSUME NEW i \in DOMAIN s, s[i] \in landed, s[i].id \notin raced'
                 PROVE  latest'[s[i].id] = s[i].record
      BY <1>1 DEF AppliedIsLatest
    <3>1. s[i] \in ToSet(s) \cap landed
      BY DEF ToSet
    <3>2. s[i].id # id /\ s[i].id \notin raced
      BY <1>5, <1>6, <1>7, <3>1
    <3>3. s[i] \in AllWrites
      BY <1>7
    <3>4. s[i].id \in Ids
      BY <3>3 DEF AllWrites
    <3>5. latest[s[i].id] = s[i].record
      BY <1>7, <3>2 DEF WellFormed, AppliedIsLatest
    <3> QED  BY <1>5, <3>2, <3>4, <3>5
  <2> QED
    BY <1>1, <1>7, <2>1 DEF WellFormed, OncePerRecord, StuckBetween, NothingPastRefused, OnlyWanted
<1>8. Entries \in Seq(AllWrites) /\ queue \in Seq(AllWrites)
  BY DEF IInv, Types, Entries
<1>9. Journaled'
  <2> PICK e : e = Entries
    OBVIOUS
  <2>1. WellFormed(e)'
    BY <1>7, <1>8 DEF IInv, Journaled
  <2>2. ~ torn' => Closed(e)'
    BY <1>1 DEF IInv, Journaled, Closed
  <2> QED  BY <1>1, <2>1, <2>2 DEF IInv, Journaled
<1>10. BeingWritten'
  <2> SUFFICES ASSUME doing = "writing"
               PROVE  /\ WellFormed(queue)'
                      /\ ~ torn' => Closed(queue)'
                      /\ ToSet(Entries)' \subseteq ToSet(queue)'
                      /\ ToSet(queue)' \cap landed' \subseteq ToSet(Entries)'
    BY <1>1 DEF BeingWritten
  <2> PICK q : q = queue
    OBVIOUS
  <2>1. WellFormed(q) /\ ToSet(q) \cap landed \subseteq ToSet(Entries)
    BY DEF IInv, BeingWritten
  <2>2. WellFormed(q)'
    BY <1>7, <1>8, <2>1
  <2>3. ~ torn' => Closed(q)'
    BY <1>1 DEF IInv, BeingWritten, Closed
  <2>4. ToSet(Entries)' \subseteq ToSet(queue)' /\ ToSet(queue)' \cap landed' \subseteq ToSet(Entries)'
    BY <1>1 DEF IInv, BeingWritten
  <2> QED  BY <1>1, <2>2, <2>3, <2>4
<1>11. Converged'
  <2> SUFFICES ASSUME NEW x \in Ids, x \notin raced'
               PROVE  data'[x] = latest'[x]
    BY DEF Converged
  <2>1. x # id => data[x] = latest[x]
    BY <1>5 DEF IInv, Converged
  <2> QED  BY <1>5, <2>1
<1> QED  BY <1>3, <1>4, <1>9, <1>10, <1>11 DEF IInv

\* A crash leaves a journal that a replay can start from; what it tore is remembered.
LEMMA CrashStep ==
    ASSUME IInv, Crash
    PROVE  IInv'
<1> PICK j \in Surviving :
        /\ journal' = j /\ queue' = j.entries
        /\ recover_coordinated(j)
        /\ torn' = (torn \/ (doing = "writing" /\ j \notin {journal, Holding(queue)}))
  BY DEF Crash
<1> PICK f : f = j.entries
  OBVIOUS
<1> PICK e : e = Entries
  OBVIOUS
<1> PICK q : q = queue
  OBVIOUS
<1>1. /\ data' = data /\ landed' = landed /\ latest' = latest /\ raced' = raced /\ wants' = wants
      /\ state' = [t \in Txns |-> IF state[t] = "running" THEN "crashed" ELSE state[t]]
      /\ journal' = j /\ Entries' = f /\ queue' = f
  BY DEF Crash, Conclude, Entries
<1>2. /\ doing' \in {"idle", "down", "recovering"}
      /\ doing' = "idle" => f = <<>>
  BY DEF recover_coordinated
<1>3. /\ e \in Seq(AllWrites) /\ q \in Seq(AllWrites) /\ e = journal.entries
      /\ journal \in [file : {"absent", "bad", "good"}, entries : Seq(AllWrites)]
      /\ Len(q) \in Nat
  BY DEF IInv, Types, Entries
<1>4. WellFormed(e) /\ (~ torn => Closed(e))
  BY DEF IInv, Journaled
<1>5. doing = "writing" => WellFormed(q) /\ (~ torn => Closed(q)) /\ ToSet(e) \subseteq ToSet(q)
  BY DEF IInv, BeingWritten
<1>6. /\ j \in [file : {"absent", "bad", "good"}, entries : Seq(AllWrites)]
      /\ WellFormed(f)
      /\ ~ torn' => Closed(f) /\ ToSet(e) \subseteq ToSet(f)
  <2>1. CASE j = journal
    BY <1>3, <1>4, <2>1
  <2>2. CASE j \in {Absent, BadHeader} /\ j # journal /\ doing = "writing"
    <3>1. f = <<>>
      BY <2>2 DEF Absent, BadHeader
    <3>2. Holding(queue).file = "good"
      BY DEF Holding
    <3>3. j # Holding(queue)
      BY <2>2, <3>2 DEF Absent, BadHeader
    <3>4. torn'
      BY <2>2, <3>3
    <3>5. j \in [file : {"absent", "bad", "good"}, entries : Seq(AllWrites)]
      <4>1. Absent \in [file : {"absent", "bad", "good"}, entries : Seq(AllWrites)]
        BY DEF Absent
      <4>2. BadHeader \in [file : {"absent", "bad", "good"}, entries : Seq(AllWrites)]
        BY DEF BadHeader
      <4> QED  BY <2>2, <4>1, <4>2
    <3> QED  BY <3>1, <3>4, <3>5, EmptyWellFormed
  <2>3. CASE doing = "writing" /\ j # journal /\ \E n \in 0..Len(q) : j = Holding(SubSeq(q, 1, n))
    <3>1. PICK n \in 0..Len(q) : j = Holding(SubSeq(q, 1, n))
      BY <2>3
    <3>2. f = SubSeq(q, 1, n) /\ f \in Seq(AllWrites) /\ WellFormed(f)
      BY <1>3, <1>5, <2>3, <3>1, PrefixWellFormed DEF Holding
    <3>3. ~ torn' => f = q
      BY <2>3, <3>1 DEF Holding
    <3>4. j = [file |-> "good", entries |-> f]
      BY <3>1, <3>2 DEF Holding
    <3>5. ~ torn' => ~ torn
      OBVIOUS
    <3> QED  BY <1>5, <2>3, <3>2, <3>3, <3>4, <3>5
  <2> QED  BY <2>1, <2>2, <2>3 DEF Surviving
<1>7. Types'
  <2>1. state' \in [Txns -> States]
    BY <1>1 DEF IInv, Types, States
  <2>2. doing' \in Phases
    BY <1>2 DEF Phases
  <2>3. torn' \in BOOLEAN
    BY DEF IInv, Types
  <2>4. journal' \in [file : {"absent", "bad", "good"}, entries : Seq(AllWrites)]
        /\ queue' \in Seq(AllWrites)
    BY <1>1, <1>6
  <2> QED  BY <1>1, <2>1, <2>2, <2>3, <2>4 DEF IInv, Types
<1>8. \A t \in Txns : /\ state'[t] # "running"
                      /\ state'[t] \in {"new", "ok"} => state[t] = state'[t]
  BY <1>1
<1>9. Wanted'
  BY <1>1, <1>8 DEF IInv, Wanted
<1>10. WellFormed(f)' /\ (~ torn' => Closed(f)')
  BY <1>1, <1>6
  DEF WellFormed, OncePerRecord, StuckBetween, NothingPastRefused, AppliedIsLatest, OnlyWanted, Closed
<1>11. Journaled'
  BY <1>1, <1>2, <1>10 DEF Journaled
<1>12. BeingWritten' /\ Converged'
  BY <1>1, <1>2 DEF IInv, BeingWritten, Converged
<1>13. BeingApplied'
  <2>1. f \in Seq(AllWrites) /\ Len(f) \in Nat
    BY <1>6
  <2> QED  BY <1>1, <2>1 DEF BeingApplied
<1>14. Promises'
  <2> SUFFICES ASSUME NEW u \in Txns
               PROVE  /\ state'[u] # "running"
                      /\ state'[u] = "ok" => wants[u] \subseteq landed
                      /\ ~ torn' => \/ wants[u] \subseteq landed
                                    \/ wants[u] \cap landed = {}
                                    \/ wants[u] \subseteq ToSet(f)
    BY <1>1 DEF Promises
  <2>1. /\ state[u] = "ok" => wants[u] \subseteq landed
        /\ ~ torn => \/ wants[u] \subseteq landed
                     \/ wants[u] \cap landed = {}
                     \/ wants[u] \subseteq ToSet(e)
    BY DEF IInv, Promises
  <2> QED  BY <1>6, <1>8, <2>1
<1> QED  BY <1>7, <1>9, <1>11, <1>12, <1>13, <1>14 DEF IInv

\* Every step of the coordinator, a crash included, keeps the invariant.
LEMMA NextIInv == IInv /\ [CoordinatorNext]_coordinatorvars => IInv'
<1> SUFFICES ASSUME IInv, [CoordinatorNext]_coordinatorvars
             PROVE  IInv'
  OBVIOUS
<1>1. CASE \E t \in Txns : \E writes \in WriteSets(t) : commit_coordinated(t, writes)
  BY <1>1, CommitStep
<1>2. CASE write_journal
  BY <1>2, WriteJournalStep
<1>3. CASE apply
  BY <1>3, ApplyRefused, ApplyLands
<1>4. CASE remove_journal
  BY <1>4, RemoveJournalStep
<1>5. CASE \E id \in Ids, v \in Rows \cup {Gone} : write_one(id, v)
  BY <1>5, WriteOneStep
<1>6. CASE Crash
  BY <1>6, CrashStep
<1>7. CASE UNCHANGED coordinatorvars
  <2>1. /\ data' = data /\ landed' = landed /\ latest' = latest /\ raced' = raced
        /\ torn' = torn /\ wants' = wants /\ queue' = queue /\ journal' = journal
        /\ doing' = doing /\ state' = state
    BY <1>7 DEF coordinatorvars, history
  <2> QED
    BY <2>1
    DEF IInv, Types, Wanted, Journaled, BeingWritten, BeingApplied, Promises, Converged, Entries,
        WellFormed, OncePerRecord, StuckBetween, NothingPastRefused, AppliedIsLatest, OnlyWanted, Closed
<1> QED  BY <1>1, <1>2, <1>3, <1>4, <1>5, <1>6, <1>7 DEF CoordinatorNext

-----------------------------------------------------------------------------
(* Theorems *)

\* Every reachable state of commit_coordinated, its journal and recover_coordinated
\* satisfies the inductive invariant, for every number of transactions and crashes.
THEOREM Invariance == CoordinatorSpec => []IInv
BY InitIInv, NextIInv, PTL DEF CoordinatorSpec

\* commit_coordinated is all-or-nothing once the process comes back, recover_coordinated
\* never puts back what a later write replaced, and what an apply has still to do is in
\* the journal.
THEOREM CoordinatorIsTrue == CoordinatorSpec => []CoordinatorInvariant
<1>1. IInv => JournalCoversQueue
  <2> SUFFICES ASSUME IInv
               PROVE  JournalCoversQueue
    OBVIOUS
  <2>1. Entries \in Seq(AllWrites) /\ queue \in Seq(AllWrites) /\ Entries = journal.entries
    BY DEF IInv, Types, Entries
  <2>2. doing \in {"applying", "recovering"} => IsSuffix(queue, Entries)
    BY <2>1, SuffixByIndices DEF IInv, BeingApplied
  <2> QED  BY <2>1, <2>2 DEF IInv, Types, Phases, JournalCoversQueue
<1>2. IInv => AtomicUnlessTorn
  <2> SUFFICES ASSUME IInv, ~ torn, Settled, NEW t \in Txns
               PROVE  /\ wants[t] \subseteq landed \/ wants[t] \cap landed = {}
                      /\ state[t] = "ok" => wants[t] \subseteq landed
    BY DEF AtomicUnlessTorn, CoordinatedAtomic
  <2>1. ToSet(Entries) = {}
    BY EmptyWellFormed DEF Settled, Entries
  <2> QED  BY <2>1 DEF IInv, Promises
<1>3. IInv => ReplayKeepsLaterWrites
  BY DEF IInv, Converged, ReplayKeepsLaterWrites
<1> QED  BY <1>1, <1>2, <1>3, Invariance, PTL DEF CoordinatorInvariant

=============================================================================
