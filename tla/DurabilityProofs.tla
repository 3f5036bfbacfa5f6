-------------------------- MODULE DurabilityProofs --------------------------
(***************************************************************************)
(* Theorems of LogSegments, for every size of segment and group, any       *)
(* number of entries, checkpoints and crashes, and any writes that fail;   *)
(* and of Restore, for any directories, rows, openings and copies.         *)
(***************************************************************************)
EXTENDS LogSegments, Restore, FiniteSetTheorems, SequenceTheorems, WellFoundedInduction, TLAPS

Entry == [lsn : Nat, op : Nat]
Frame == Entry \cup {Torn}
FileType == [header : BOOLEAN, frames : Seq(Frame), synced : Nat]

Listed == list_segments(files)

-----------------------------------------------------------------------------
(* The inductive invariant                                                   *)

\* What is in a file that begins at lsn l: entries from l on, ascending.
FileOK(l, f) ==
    /\ f \in FileType /\ f.synced <= Len(f.frames)
    /\ ~ f.header => f.frames = <<>>
    /\ \A j \in 1 .. Len(f.frames) : IsEntry(f.frames[j]) => l <= f.frames[j].lsn
    /\ \A i, j \in 1 .. Len(f.frames) :
         i < j /\ IsEntry(f.frames[i]) /\ IsEntry(f.frames[j]) => f.frames[i].lsn < f.frames[j].lsn

Whole(f) == \A j \in 1 .. Len(f.frames) : IsEntry(f.frames[j])
Sealed(f) == f.synced = Len(f.frames) /\ Whole(f)
Below(f, n) == \A j \in 1 .. Len(f.frames) : IsEntry(f.frames[j]) => f.frames[j].lsn < n

\* The frame at j can be read, and holds e.
Holds(f, j, e) ==
    /\ j \in 1 .. Len(f.frames) /\ f.frames[j] = e
    /\ \A i \in 1 .. j : IsEntry(f.frames[i])

FilesOK ==
    /\ DOMAIN files \subseteq Nat \ {0}
    /\ \E m \in Nat : \A l \in DOMAIN files : l <= m
    /\ \A l \in DOMAIN files : FileOK(l, files[l])

NumbersOK ==
    /\ next_lsn \in Nat \ {0} /\ start_lsn \in Nat /\ start_lsn <= next_lsn
    /\ pending \in Nat /\ flushed \in Nat /\ catalog_through \in Nat
    /\ up \in BOOLEAN /\ faults \in BOOLEAN

\* Every op is written once, and what is acknowledged was written.
HistoryOK ==
    /\ written \in Seq(Entry) /\ \A i \in 1 .. Len(written) : written[i].op = i
    /\ waiting \subseteq 1 .. Len(written) /\ acked \subseteq 1 .. Len(written)
    /\ trusted \subseteq 1 .. Len(written)

\* The list of segments: readable files, none beyond the next lsn.
SegmentsOK ==
    /\ segs # {} /\ segs \subseteq Listed /\ active <= next_lsn
    /\ doomed \subseteq Listed \ segs /\ \A l \in doomed : l < active
    /\ up => /\ \A l \in Listed : l <= next_lsn
             /\ Below(files[active], next_lsn)

StageOK ==
    /\ stage \in {"idle", "catalog", "discard"}
    /\ stage # "idle" => up /\ waiting = {}
    /\ doomed # {} => stage = "discard"
    /\ waiting # {} => up

\* As long as nothing has failed every segment but the last is sealed.
OrderOK ==
    ~ faults =>
        /\ \A l, n \in Listed : l < n => Sealed(files[l]) /\ Below(files[l], n)
        /\ up => /\ \A l \in segs, old \in Listed \ segs : old < l
                 /\ Whole(files[active])

\* The log goes on past n whatever a crash takes.
Reaches(n) ==
    \E l \in Listed :
        n < l \/ \E j \in 1 .. files[l].synced : IsEntry(files[l].frames[j]) /\ n < files[l].frames[j].lsn
                                                /\ \A i \in 1 .. j : IsEntry(files[l].frames[i])

CheckpointOK == ~ faults => Reaches(catalog_through) /\ (stage = "catalog" => Reaches(flushed))

\* e is on disk, and no later segment lets a reader skip it.
Kept(e) ==
    \E l \in Listed :
        /\ \E j \in 1 .. files[l].synced : Holds(files[l], j, e)
        /\ \A n \in Listed : l < n => e.lsn < n

\* e was discarded: covered, archived, and followed by a segment that is still there.
Retired(e) ==
    /\ e.lsn <= catalog_through
    /\ \E n \in Listed : e.lsn < n
    /\ \E a \in archived : \E j \in 1 .. Len(a.frames) : Holds(a, j, e)

TrustOK ==
    log_durability = "Strict" => \A op \in trusted : Kept(written[op]) \/ Retired(written[op])

TrustedLsns ==
    log_durability = "Strict" => \A op \in trusted :
        /\ up => written[op].lsn < next_lsn
        /\ stage = "catalog" => written[op].lsn <= flushed
        /\ stage = "discard" => written[op].lsn <= catalog_through

WaitingOK ==
    ~ faults => \A op \in waiting :
        \E l \in Listed : \E j \in 1 .. Len(files[l].frames) : files[l].frames[j] = written[op]

ArchiveOK == \A a \in archived : a \in FileType

Unsynced(f) == {op \in acked : \E j \in f.synced + 1 .. Len(f.frames) :
                                  IsEntry(f.frames[j]) /\ f.frames[j].op = op}

GroupOK ==
    log_durability = "GroupCommit" /\ ~ faults /\ up =>
        /\ Len(files[active].frames) - files[active].synced <= pending
        /\ Cardinality(Unsynced(files[active])) < SyncGroup

LogIInv ==
    /\ FilesOK /\ NumbersOK /\ HistoryOK /\ SegmentsOK /\ StageOK /\ OrderOK
    /\ CheckpointOK /\ TrustOK /\ TrustedLsns /\ WaitingOK /\ ArchiveOK /\ GroupOK

-----------------------------------------------------------------------------
(* Numbers and sequences                                                     *)

\* A nonempty set of naturals has a least element.
LEMMA LeastOf ==
    ASSUME NEW S \in SUBSET Nat, S # {}
    PROVE  \E x \in S : \A y \in S : x <= y
<1>1. PICK x \in S : \A y \in S : ~ (<<y, x>> \in OpToRel(<, Nat))
  BY NatLessThanWellFounded, WFMin
<1>2. \A y \in S : ~ (y < x)
  BY <1>1 DEF OpToRel
<1> QED
  BY <1>2

\* A nonempty set of naturals with a bound has a greatest element.
LEMMA GreatestOf ==
    ASSUME NEW S \in SUBSET Nat, S # {}, NEW m \in Nat, \A x \in S : x <= m
    PROVE  \E x \in S : \A y \in S : y <= x
<1> PICK T : T = {m - x : x \in S}
  OBVIOUS
<1>1. T \in SUBSET Nat /\ T # {}
  <2>1. \A x \in S : x \in Nat /\ m - x \in Nat
    OBVIOUS
  <2> QED
    BY <2>1
<1>2. PICK t \in T : \A u \in T : t <= u
  BY <1>1, LeastOf
<1>3. PICK x \in S : t = m - x
  OBVIOUS
<1>4. ASSUME NEW y \in S PROVE y <= x
  <2>1. m - y \in T
    OBVIOUS
  <2>2. m - x <= m - y
    BY <1>2, <1>3, <2>1
  <2> QED
    BY <2>2
<1> QED
  BY <1>4

\* Min and Max, where there is a least or a greatest.
LEMMA MinMax ==
    ASSUME NEW S \in SUBSET Nat, S # {}
    PROVE  /\ Min(S) \in S /\ \A y \in S : Min(S) <= y
           /\ \A m \in Nat : (\A x \in S : x <= m) => Max(S) \in S /\ \A y \in S : y <= Max(S)
<1>1. Min(S) \in S /\ \A y \in S : Min(S) <= y
  <2>1. \E x \in S : \A y \in S : x =< y
    BY LeastOf
  <2> QED
    BY <2>1 DEF Min
<1>2. ASSUME NEW m \in Nat, \A x \in S : x <= m
      PROVE  Max(S) \in S /\ \A y \in S : y <= Max(S)
  <2>1. \E x \in S : \A y \in S : x >= y
    <3>1. PICK x \in S : \A y \in S : y <= x
      BY <1>2, GreatestOf
    <3> QED
      BY <3>1
  <2>2. Max(S) \in S /\ \A y \in S : Max(S) >= y
    BY <2>1 DEF Max
  <2> QED
    BY <2>2
<1> QED
  BY <1>1, <1>2

\* What appending does.
LEMMA Appended ==
    ASSUME NEW S, NEW s \in Seq(S), NEW x \in S
    PROVE  /\ Append(s, x) \in Seq(S) /\ Len(s) \in Nat /\ Len(Append(s, x)) = Len(s) + 1
           /\ \A j \in 1 .. Len(s) : Append(s, x)[j] = s[j] /\ s[j] \in S
           /\ Append(s, x)[Len(s) + 1] = x
BY AppendProperties, LenProperties, ElementOfSeq

\* The first k elements.
LEMMA Prefix ==
    ASSUME NEW S, NEW s \in Seq(S), NEW k \in 0 .. Len(s)
    PROVE  /\ SubSeq(s, 1, k) \in Seq(S) /\ Len(SubSeq(s, 1, k)) = k
           /\ \A j \in 1 .. k : SubSeq(s, 1, k)[j] = s[j]
<1>1. Len(s) \in Nat /\ \A j \in 1 .. Len(s) : s[j] \in S
  BY LenProperties, ElementOfSeq
<1>2. \A j \in 1 .. k : s[j] \in S
  BY <1>1
<1>3. /\ SubSeq(s, 1, k) \in Seq(S)
      /\ Len(SubSeq(s, 1, k)) = IF 1 <= k THEN k - 1 + 1 ELSE 0
      /\ \A i \in 1 .. k - 1 + 1 : SubSeq(s, 1, k)[i] = s[1 + i - 1]
  BY <1>1, <1>2, SubSeqProperties
<1> QED
  BY <1>1, <1>3

\* One sequence after another.
LEMMA Joined ==
    ASSUME NEW S, NEW s \in Seq(S), NEW t \in Seq(S)
    PROVE  /\ s \o t \in Seq(S) /\ Len(s \o t) = Len(s) + Len(t)
           /\ \A i \in 1 .. Len(s) + Len(t) : (s \o t)[i] = IF i <= Len(s) THEN s[i] ELSE t[i - Len(s)]
BY ConcatProperties

\* What can be read of the frames of a file.
LEMMA IntactFrames ==
    ASSUME NEW fs \in Seq(Frame)
    PROVE  /\ Intact(fs) \in Seq(Frame) /\ Len(fs) \in Nat /\ Len(Intact(fs)) \in 0 .. Len(fs)
           /\ \A j \in 1 .. Len(Intact(fs)) : Intact(fs)[j] = fs[j] /\ IsEntry(fs[j])
           /\ \A j \in 1 .. Len(fs) : (\A i \in 1 .. j : IsEntry(fs[i])) => j <= Len(Intact(fs))
<1> DEFINE bad == {i \in DOMAIN fs : ~ IsEntry(fs[i])}
<1>1. Len(fs) \in Nat /\ DOMAIN fs = 1 .. Len(fs)
  BY LenProperties
<1>2. CASE bad = {}
  <2>1. Intact(fs) = fs
    BY <1>2 DEF Intact
  <2> QED
    BY <1>1, <1>2, <2>1
<1>3. CASE bad # {}
  <2>1. bad \in SUBSET Nat
    BY <1>1
  <2>2. Min(bad) \in bad /\ \A y \in bad : Min(bad) <= y
    BY <1>3, <2>1, MinMax
  <2> DEFINE k == Min(bad) - 1
  <2>3. k \in 0 .. Len(fs) /\ k + 1 \in 1 .. Len(fs) /\ ~ IsEntry(fs[k + 1])
    BY <1>1, <2>2
  <2>4. Intact(fs) = SubSeq(fs, 1, k)
    BY <1>3 DEF Intact
  <2>5. /\ SubSeq(fs, 1, k) \in Seq(Frame) /\ Len(SubSeq(fs, 1, k)) = k
        /\ \A j \in 1 .. k : SubSeq(fs, 1, k)[j] = fs[j]
    BY <2>3, Prefix
  <2>6. ASSUME NEW j \in 1 .. k PROVE IsEntry(fs[j])
    <3>1. Min(bad) \in 1 .. Len(fs) /\ j \in Nat /\ j < Min(bad)
      BY <1>1, <2>2
    <3>2. j \in DOMAIN fs
      BY <1>1, <3>1
    <3>3. j \notin bad
      <4> HIDE DEF bad
      <4> QED
        BY <2>2, <3>1
    <3> QED
      BY <3>2, <3>3
  <2>7. ASSUME NEW j \in 1 .. Len(fs), \A i \in 1 .. j : IsEntry(fs[i]) PROVE j <= k
    <3>1. ~ (k + 1 \in 1 .. j)
      BY <2>3, <2>7
    <3> QED
      BY <1>1, <2>3, <3>1
  <2> HIDE DEF k
  <2> QED
    BY <1>1, <2>3, <2>4, <2>5, <2>6, <2>7
<1> QED
  BY <1>2, <1>3

-----------------------------------------------------------------------------
(* Files                                                                     *)

LEMMA FrameFacts ==
    ASSUME LogAssumption
    PROVE  /\ \A e \in Entry : IsEntry(e) /\ e \in Frame /\ e.lsn \in Nat /\ e.op \in Nat
           /\ \A f \in Frame : IsEntry(f) => f \in Entry /\ f.lsn \in Nat /\ f.op \in Nat
           /\ Torn \in Frame /\ ~ IsEntry(Torn)
BY DEF LogAssumption, Entry, Frame, IsEntry

LEMMA FileFacts ==
    ASSUME NEW l \in Nat, NEW f, FileOK(l, f)
    PROVE  /\ f.header \in BOOLEAN /\ f.frames \in Seq(Frame) /\ f.synced \in Nat
           /\ Len(f.frames) \in Nat /\ f.synced <= Len(f.frames)
           /\ \A j \in 1 .. Len(f.frames) : f.frames[j] \in Frame
<1>1. f.header \in BOOLEAN /\ f.frames \in Seq(Frame) /\ f.synced \in Nat /\ f.synced <= Len(f.frames)
  BY DEF FileOK, FileType
<1> QED
  BY <1>1, LenProperties, ElementOfSeq

\* The stable frames that can be read are still there.
Keeps(f, g) ==
    \A j \in 1 .. f.synced :
        (\A i \in 1 .. j : IsEntry(f.frames[i])) => j <= g.synced /\ g.frames[j] = f.frames[j]

LEMMA KeepsHeld ==
    ASSUME NEW f, NEW g, NEW e, Keeps(f, g), f.synced \in Nat, g.synced \in Nat,
           f.synced <= Len(f.frames), g.synced <= Len(g.frames), Len(f.frames) \in Nat, Len(g.frames) \in Nat,
           NEW j \in 1 .. f.synced, Holds(f, j, e)
    PROVE  j \in 1 .. g.synced /\ Holds(g, j, e)
<1>1. \A i \in 1 .. j : i \in 1 .. f.synced /\ \A k \in 1 .. i : IsEntry(f.frames[k])
  BY DEF Holds
<1>2. \A i \in 1 .. j : i <= g.synced /\ g.frames[i] = f.frames[i]
  BY <1>1 DEF Keeps
<1> QED
  BY <1>1, <1>2 DEF Holds

\* An entry numbered beyond those of a file, or a torn frame, written after them.
LEMMA FileAppend ==
    ASSUME LogAssumption, NEW l \in Nat, NEW f, FileOK(l, f), f.header,
           NEW x \in Frame, IsEntry(x) => l <= x.lsn /\ Below(f, x.lsn),
           NEW k \in {f.synced, Len(f.frames) + 1}, NEW g \in FileType,
           g.header, g.frames = Append(f.frames, x), g.synced = k
    PROVE  /\ FileOK(l, g) /\ Keeps(f, g) /\ Len(g.frames) = Len(f.frames) + 1
           /\ g.frames[Len(f.frames) + 1] = x
           /\ \A j \in 1 .. Len(f.frames) : g.frames[j] = f.frames[j]
           /\ IsEntry(x) => /\ \A n \in Nat : x.lsn < n => Below(g, n)
                            /\ Whole(f) => Whole(g)
<1>1. /\ f.frames \in Seq(Frame) /\ f.synced \in Nat /\ Len(f.frames) \in Nat
      /\ f.synced <= Len(f.frames)
  BY FileFacts
<1>2. /\ Len(g.frames) = Len(f.frames) + 1 /\ g.frames[Len(f.frames) + 1] = x
      /\ \A j \in 1 .. Len(f.frames) : g.frames[j] = f.frames[j] /\ f.frames[j] \in Frame
  BY <1>1, Appended
<1>3. g.synced <= Len(g.frames) /\ f.synced <= g.synced
  BY <1>1, <1>2
<1>4. Keeps(f, g)
  BY <1>1, <1>2, <1>3 DEF Keeps
<1>5. \A j \in 1 .. Len(g.frames) : j \in 1 .. Len(f.frames) \/ j = Len(f.frames) + 1
  BY <1>1, <1>2
<1>6. ASSUME NEW j \in 1 .. Len(g.frames), IsEntry(g.frames[j]) PROVE l <= g.frames[j].lsn
  BY <1>2, <1>5, <1>6 DEF FileOK
<1>7. ASSUME NEW i \in 1 .. Len(g.frames), NEW j \in 1 .. Len(g.frames), i < j,
             IsEntry(g.frames[i]), IsEntry(g.frames[j])
      PROVE  g.frames[i].lsn < g.frames[j].lsn
  <2>1. i \in 1 .. Len(f.frames)
    BY <1>1, <1>2, <1>7
  <2>2. CASE j \in 1 .. Len(f.frames)
    BY <1>2, <1>7, <2>1, <2>2 DEF FileOK
  <2>3. CASE j = Len(f.frames) + 1
    BY <1>2, <1>7, <2>1, <2>3 DEF Below
  <2> QED
    BY <1>5, <2>2, <2>3
<1>8. FileOK(l, g)
  BY <1>3, <1>6, <1>7 DEF FileOK
<1>9. ASSUME IsEntry(x), NEW n \in Nat, x.lsn < n PROVE Below(g, n)
  <2> SUFFICES ASSUME NEW j \in 1 .. Len(g.frames), IsEntry(g.frames[j]) PROVE g.frames[j].lsn < n
    BY DEF Below
  <2>1. CASE j \in 1 .. Len(f.frames)
    <3>1. f.frames[j].lsn < x.lsn /\ f.frames[j].lsn \in Nat /\ x.lsn \in Nat
      BY <1>2, <1>9, <2>1, FrameFacts DEF Below
    <3> QED
      BY <1>2, <1>9, <2>1, <3>1
  <2>2. CASE j = Len(f.frames) + 1
    BY <1>2, <1>9, <2>2
  <2> QED
    BY <1>5, <2>1, <2>2
<1>10. IsEntry(x) /\ Whole(f) => Whole(g)
  BY <1>2, <1>5 DEF Whole
<1> QED
  BY <1>2, <1>4, <1>8, <1>9, <1>10

\* Some of the frames from the start, and nothing after them but a torn one.
LEMMA FileCut ==
    ASSUME LogAssumption, NEW l \in Nat, NEW f, FileOK(l, f), f.header,
           NEW k \in 0 .. Len(f.frames), NEW tail \in {<<>>, <<Torn>>},
           \A j \in 1 .. f.synced : (\A i \in 1 .. j : IsEntry(f.frames[i])) => j <= k,
           NEW left, left = SubSeq(f.frames, 1, k) \o tail
    PROVE  /\ FileOK(l, File(left, Len(left))) /\ Keeps(f, File(left, Len(left)))
           /\ \A n \in Nat : Below(f, n) => Below(File(left, Len(left)), n)
<1> DEFINE g == File(left, Len(left))
<1>1. /\ f.frames \in Seq(Frame) /\ f.synced \in Nat /\ Len(f.frames) \in Nat
      /\ f.synced <= Len(f.frames)
  BY FileFacts
<1>2. /\ SubSeq(f.frames, 1, k) \in Seq(Frame) /\ Len(SubSeq(f.frames, 1, k)) = k
      /\ \A j \in 1 .. k : SubSeq(f.frames, 1, k)[j] = f.frames[j]
  BY <1>1, Prefix
<1>3. /\ tail \in Seq(Frame) /\ Len(tail) \in {0, 1}
      /\ \A j \in 1 .. Len(tail) : tail[j] = Torn
  <2>1. Torn \in Frame
    BY FrameFacts
  <2>2. CASE tail = <<>>
    BY <2>2
  <2>3. CASE tail = <<Torn>>
    <3>1. <<Torn>> \in Seq(Frame) /\ Len(<<Torn>>) = 1 /\ <<Torn>>[1] = Torn
      BY <2>1
    <3> QED
      BY <2>3, <3>1
  <2> QED
    BY <2>2, <2>3
<1>4. /\ left \in Seq(Frame) /\ Len(left) = k + Len(tail)
      /\ \A j \in 1 .. k + Len(tail) :
           left[j] = IF j <= k THEN SubSeq(f.frames, 1, k)[j] ELSE tail[j - k]
  <2>1. PICK s : s = SubSeq(f.frames, 1, k)
    OBVIOUS
  <2>2. s \in Seq(Frame) /\ tail \in Seq(Frame) /\ Len(s) = k /\ left = s \o tail
    BY <1>2, <1>3, <2>1
  <2>3. /\ s \o tail \in Seq(Frame) /\ Len(s \o tail) = Len(s) + Len(tail)
        /\ \A i \in 1 .. Len(s) + Len(tail) :
             (s \o tail)[i] = IF i <= Len(s) THEN s[i] ELSE tail[i - Len(s)]
    BY <2>2, Joined, Zenon
  <2> QED
    BY <2>1, <2>2, <2>3
<1>5. /\ \A j \in 1 .. k : left[j] = f.frames[j]
      /\ \A j \in 1 .. Len(left) : IsEntry(left[j]) => j \in 1 .. k
  <2>1. \A j \in 1 .. k : left[j] = f.frames[j]
    BY <1>2, <1>3, <1>4
  <2>2. ASSUME NEW j \in 1 .. Len(left), ~ (j \in 1 .. k) PROVE left[j] = Torn
    <3>1. j \in 1 .. k + Len(tail) /\ ~ (j <= k) /\ j - k \in 1 .. Len(tail)
      BY <1>3, <1>4, <2>2
    <3> QED
      BY <1>3, <1>4, <3>1
  <2> QED
    BY <2>1, <2>2, FrameFacts
<1>6. k <= Len(left) /\ Len(left) \in Nat
  BY <1>3, <1>4
<1>7. g.header = TRUE /\ g.frames = left /\ g.synced = Len(left) /\ g \in FileType
  BY <1>4, <1>6 DEF File, FileType
<1>8. FileOK(l, g)
  <2>1. \A j \in 1 .. Len(left) : IsEntry(left[j]) => l <= left[j].lsn
    BY <1>1, <1>5 DEF FileOK
  <2>2. ASSUME NEW i \in 1 .. Len(left), NEW j \in 1 .. Len(left), i < j, IsEntry(left[i]), IsEntry(left[j])
        PROVE  left[i].lsn < left[j].lsn
    <3>1. i \in 1 .. k /\ j \in 1 .. k
      BY <1>5, <2>2
    <3>2. i \in 1 .. Len(f.frames) /\ j \in 1 .. Len(f.frames)
      BY <1>1, <3>1
    <3>3. left[i] = f.frames[i] /\ left[j] = f.frames[j]
      BY <1>5, <3>1
    <3> QED
      BY <2>2, <3>2, <3>3 DEF FileOK
  <2> HIDE DEF g
  <2>3. g \in FileType /\ g.synced <= Len(g.frames) /\ (~ g.header => g.frames = <<>>)
    BY <1>6, <1>7
  <2>4. /\ \A j \in 1 .. Len(g.frames) : IsEntry(g.frames[j]) => l <= g.frames[j].lsn
        /\ \A i, j \in 1 .. Len(g.frames) :
             i < j /\ IsEntry(g.frames[i]) /\ IsEntry(g.frames[j]) => g.frames[i].lsn < g.frames[j].lsn
    BY <1>7, <2>1, <2>2
  <2> QED
    BY <2>3, <2>4, Zenon DEF FileOK
<1>9. Keeps(f, g)
  <2> SUFFICES ASSUME NEW j \in 1 .. f.synced, \A i \in 1 .. j : IsEntry(f.frames[i])
               PROVE  j <= g.synced /\ g.frames[j] = f.frames[j]
    BY DEF Keeps
  <2>1. j <= k /\ j \in 1 .. k
    OBVIOUS
  <2> QED
    BY <1>5, <1>6, <1>7, <2>1
<1>10. ASSUME NEW n \in Nat, Below(f, n) PROVE Below(g, n)
  BY <1>1, <1>5, <1>7, <1>10 DEF Below
<1> QED
  BY <1>8, <1>9, <1>10

\* A file as it is opened again, and the number its next entry takes.
LEMMA FileReopened ==
    ASSUME LogAssumption, NEW l \in Nat, NEW f, FileOK(l, f), f.header,
           NEW good, good = Intact(f.frames), NEW lsn, lsn = lsn_after(l, good)
    PROVE  /\ FileOK(l, File(good, Len(good))) /\ Keeps(f, File(good, Len(good)))
           /\ \A n \in Nat : Below(f, n) => Below(File(good, Len(good)), n)
           /\ Sealed(File(good, Len(good)))
           /\ lsn \in Nat /\ l <= lsn /\ Below(File(good, Len(good)), lsn)
           /\ \A j \in 1 .. Len(f.frames) : \A e : Holds(f, j, e) => Holds(File(good, Len(good)), j, e)
<1> DEFINE g == File(good, Len(good))
<1>1. /\ f.frames \in Seq(Frame) /\ f.synced \in Nat /\ Len(f.frames) \in Nat
      /\ f.synced <= Len(f.frames)
  BY FileFacts
<1>2. /\ good \in Seq(Frame) /\ Len(good) \in 0 .. Len(f.frames)
      /\ \A j \in 1 .. Len(good) : good[j] = f.frames[j] /\ IsEntry(f.frames[j])
      /\ \A j \in 1 .. Len(f.frames) : (\A i \in 1 .. j : IsEntry(f.frames[i])) => j <= Len(good)
  BY <1>1, IntactFrames
<1>3. g.header = TRUE /\ g.frames = good /\ g.synced = Len(good) /\ g \in FileType
  BY <1>1, <1>2 DEF File, FileType
<1>4. FileOK(l, g)
  <2>1. \A j \in 1 .. Len(good) : l <= good[j].lsn
    BY <1>1, <1>2 DEF FileOK
  <2>2. \A i, j \in 1 .. Len(good) : i < j => good[i].lsn < good[j].lsn
    BY <1>1, <1>2 DEF FileOK
  <2> QED
    BY <1>1, <1>2, <1>3, <2>1, <2>2 DEF FileOK
<1>5. Keeps(f, g)
  BY <1>1, <1>2, <1>3 DEF Keeps
<1>6. ASSUME NEW n \in Nat, Below(f, n) PROVE Below(g, n)
  BY <1>1, <1>2, <1>3, <1>6 DEF Below
<1>7. Sealed(g)
  BY <1>2, <1>3 DEF Sealed, Whole
<1>8. lsn \in Nat /\ l <= lsn /\ Below(g, lsn)
  <2>1. CASE good = <<>>
    BY <1>3, <2>1 DEF lsn_after, Below
  <2>2. CASE good # <<>>
    <3>1. Len(good) \in 1 .. Len(good) /\ lsn = good[Len(good)].lsn + 1
      BY <1>1, <1>2, <2>2, EmptySeq DEF lsn_after, Last
    <3>2. good[Len(good)] \in Entry /\ good[Len(good)].lsn \in Nat /\ l <= good[Len(good)].lsn
      <4>1. good[Len(good)] \in Frame
        BY <1>2, <3>1, ElementOfSeq
      <4> QED
        BY <1>1, <1>2, <3>1, <4>1, FrameFacts DEF FileOK
    <3>3. ASSUME NEW j \in 1 .. Len(good) PROVE good[j].lsn < lsn
      <4>1. good[j].lsn \in Nat
        <5>1. good[j] \in Frame
          BY <1>2, ElementOfSeq
        <5> QED
          BY <1>2, <5>1, FrameFacts
      <4>2. j = Len(good) \/ good[j].lsn < good[Len(good)].lsn
        BY <1>1, <1>2, <3>1 DEF FileOK
      <4> QED
        BY <3>1, <3>2, <4>1, <4>2
    <3> QED
      BY <1>3, <3>1, <3>2, <3>3 DEF Below
  <2> QED
    BY <2>1, <2>2
<1>9. ASSUME NEW j \in 1 .. Len(f.frames), NEW e, Holds(f, j, e) PROVE Holds(g, j, e)
  BY <1>1, <1>2, <1>3, <1>9 DEF Holds
<1> QED
  BY <1>4, <1>5, <1>6, <1>7, <1>8, <1>9

-----------------------------------------------------------------------------
(* What a step does to the files                                             *)

LEMMA ActiveFacts ==
    ASSUME FilesOK, SegmentsOK
    PROVE  /\ Listed \subseteq DOMAIN files /\ Listed \subseteq Nat \ {0} /\ segs \subseteq Nat \ {0}
           /\ active \in segs /\ active \in Listed /\ active \in DOMAIN files /\ active \in Nat \ {0}
           /\ \A l \in segs : l <= active
           /\ \A l \in DOMAIN files : l \in Nat /\ FileOK(l, files[l])
           /\ \A l \in Listed : files[l].header
<1>1. Listed \subseteq DOMAIN files /\ DOMAIN files \subseteq Nat \ {0} /\ \A l \in Listed : files[l].header
  BY DEF FilesOK, Listed, list_segments
<1>2. segs # {} /\ segs \subseteq Listed
  BY DEF SegmentsOK
<1>3. PICK m \in Nat : \A l \in DOMAIN files : l <= m
  BY DEF FilesOK
<1>4. Max(segs) \in segs /\ \A y \in segs : y <= Max(segs)
  BY <1>1, <1>2, <1>3, MinMax
<1> QED
  BY <1>1, <1>2, <1>4 DEF active, FilesOK

Carried == \A l \in Listed : l \in Listed' /\ Keeps(files[l], files'[l])

LEMMA KeptCarries ==
    ASSUME FilesOK, FilesOK', Carried, NEW CONSTANT e, Kept(e),
           \A n \in Listed' : n \in Listed \/ e.lsn < n
    PROVE  Kept(e)'
<1>1. PICK l \in Listed : /\ \E j \in 1 .. files[l].synced : Holds(files[l], j, e)
                          /\ \A n \in Listed : l < n => e.lsn < n
  BY DEF Kept
<1>2. PICK j \in 1 .. files[l].synced : Holds(files[l], j, e)
  BY <1>1
<1>3. l \in Listed' /\ Keeps(files[l], files'[l])
  BY DEF Carried
<1>4. /\ l \in DOMAIN files /\ l \in Nat /\ FileOK(l, files[l])
      /\ l \in DOMAIN files' /\ FileOK(l, files'[l])
  BY <1>3 DEF FilesOK, Listed, list_segments
<1>5. j \in 1 .. files'[l].synced /\ Holds(files'[l], j, e)
  <2>1. /\ files[l].synced \in Nat /\ files[l].synced <= Len(files[l].frames) /\ Len(files[l].frames) \in Nat
    BY <1>4, FileFacts
  <2>2. /\ files'[l].synced \in Nat /\ files'[l].synced <= Len(files'[l].frames) /\ Len(files'[l].frames) \in Nat
    BY <1>4, FileFacts
  <2> QED
    BY <1>2, <1>3, <2>1, <2>2, KeepsHeld
<1>6. \A n \in Listed' : l < n => e.lsn < n
  BY <1>1
<1> QED
  BY <1>3, <1>5, <1>6 DEF Kept

LEMMA RetiredCarries ==
    ASSUME Carried, NEW CONSTANT e, Retired(e), e.lsn <= catalog_through', archived \subseteq archived'
    PROVE  Retired(e)'
BY DEF Carried, Retired

\* What recovery can count on stays.
LEMMA TrustedCarries ==
    ASSUME FilesOK, FilesOK', Carried, NumbersOK, NEW CONSTANT e \in Entry, Kept(e) \/ Retired(e),
           up => e.lsn < next_lsn, e.lsn <= catalog_through => e.lsn <= catalog_through', archived \subseteq archived',
           Listed' \subseteq Listed \cup (IF up THEN {next_lsn + 1} ELSE {})
    PROVE  (Kept(e) \/ Retired(e))'
<1>1. e.lsn \in Nat
  BY DEF Entry
<1>2. \A n \in Listed' : n \in Listed \/ e.lsn < n
  BY <1>1 DEF NumbersOK
<1>3. CASE Kept(e)
  <2>1. Kept(e)'
    BY <1>2, <1>3, KeptCarries
  <2> QED
    BY <2>1
<1>4. CASE Retired(e)
  <2>1. e.lsn <= catalog_through'
    BY <1>4 DEF Retired
  <2>2. Retired(e)'
    BY <1>4, <2>1, RetiredCarries
  <2> QED
    BY <2>2
<1> QED
  BY <1>3, <1>4

LEMMA TrustCarries ==
    ASSUME FilesOK, FilesOK', Carried, NumbersOK, HistoryOK, TrustOK, TrustedLsns,
           log_durability' = log_durability, trusted' = trusted, archived' = archived, catalog_through' = catalog_through,
           \A op \in trusted : written'[op] = written[op],
           Listed' \subseteq Listed \cup (IF up THEN {next_lsn + 1} ELSE {})
    PROVE  TrustOK'
<1> SUFFICES ASSUME log_durability = "Strict", NEW CONSTANT op \in trusted
             PROVE  (Kept(written[op]) \/ Retired(written[op]))'
  BY DEF TrustOK
<1>1. PICK e : e = written[op]
  OBVIOUS
<1>2. written'[op] = e /\ (Kept(e) \/ Retired(e)) /\ (up => e.lsn < next_lsn)
  BY <1>1 DEF TrustOK, TrustedLsns
<1>3. e \in Entry
  <2>1. written \in Seq(Entry) /\ op \in 1 .. Len(written)
    BY DEF HistoryOK
  <2> QED
    BY <1>1, <2>1, ElementOfSeq
<1>4. (Kept(e) \/ Retired(e))'
  BY <1>2, <1>3, TrustedCarries
<1> QED
  BY <1>2, <1>4

LEMMA ReachesCarries ==
    ASSUME FilesOK, FilesOK', Carried, NEW CONSTANT n \in Nat, Reaches(n)
    PROVE  Reaches(n)'
<1>1. PICK l \in Listed :
         \/ n < l
         \/ \E j \in 1 .. files[l].synced : IsEntry(files[l].frames[j]) /\ n < files[l].frames[j].lsn
                                            /\ \A i \in 1 .. j : IsEntry(files[l].frames[i])
  BY DEF Reaches
<1>2. l \in Listed' /\ Keeps(files[l], files'[l])
  BY DEF Carried
<1>3. CASE n < l
  BY <1>2, <1>3 DEF Reaches
<1>4. ASSUME NEW j \in 1 .. files[l].synced, IsEntry(files[l].frames[j]), n < files[l].frames[j].lsn,
             \A i \in 1 .. j : IsEntry(files[l].frames[i])
      PROVE  Reaches(n)'
  <2>0. l \in Nat /\ FileOK(l, files[l]) /\ FileOK(l, files'[l])
    BY <1>2 DEF FilesOK, Listed, list_segments
  <2>1. /\ files[l].synced \in Nat /\ files[l].synced <= Len(files[l].frames) /\ Len(files[l].frames) \in Nat
        /\ files'[l].synced \in Nat /\ files'[l].synced <= Len(files'[l].frames) /\ Len(files'[l].frames) \in Nat
    BY <2>0, FileFacts
  <2>2. Holds(files[l], j, files[l].frames[j])
    BY <1>4, <2>1 DEF Holds
  <2>3. j \in 1 .. files'[l].synced /\ Holds(files'[l], j, files[l].frames[j])
    BY <1>2, <2>1, <2>2, KeepsHeld
  <2>4. /\ IsEntry(files'[l].frames[j]) /\ n < files'[l].frames[j].lsn
        /\ \A i \in 1 .. j : IsEntry(files'[l].frames[i])
    BY <1>4, <2>3 DEF Holds
  <2> QED
    BY <1>2, <2>3, <2>4 DEF Reaches
<1> QED
  BY <1>1, <1>3, <1>4

LEMMA BelowMore ==
    ASSUME LogAssumption, NEW l \in Nat, NEW f, FileOK(l, f), NEW m \in Nat, NEW n \in Nat, Below(f, m), m <= n
    PROVE  Below(f, n)
<1> SUFFICES ASSUME NEW j \in 1 .. Len(f.frames), IsEntry(f.frames[j]) PROVE f.frames[j].lsn < n
  BY DEF Below
<1>1. f.frames[j] \in Frame
  BY FileFacts
<1>2. f.frames[j].lsn \in Nat /\ f.frames[j].lsn < m
  BY <1>1, FrameFacts DEF Below
<1> QED
  BY <1>2

\* One more frame in the active segment, and perhaps a new file behind it.
Grows(x, k, new) ==
    /\ new \subseteq {next_lsn + 1}
    /\ DOMAIN files' = DOMAIN files \cup new
    /\ \A l \in DOMAIN files : l \notin new \cup {active} => files'[l] = files[l]
    /\ files'[active] \in FileType /\ files'[active].header
    /\ files'[active].frames = Append(files[active].frames, x) /\ files'[active].synced = k
    /\ \A l \in new : files'[l] \in FileType /\ files'[l].frames = <<>> /\ files'[l].synced = 0

LEMMA Grown ==
    ASSUME LogAssumption, FilesOK, SegmentsOK, NumbersOK, up,
           NEW x \in Frame, IsEntry(x) => x.lsn = next_lsn,
           NEW k \in {files[active].synced, Len(files[active].frames) + 1},
           NEW new, Grows(x, k, new)
    PROVE  /\ FilesOK' /\ Carried /\ next_lsn + 1 \notin Listed
           /\ Listed \subseteq Listed' /\ Listed' \subseteq Listed \cup new
           /\ \A l \in Listed : l # active => files'[l] = files[l]
           /\ Len(files'[active].frames) = Len(files[active].frames) + 1
           /\ files'[active].frames[Len(files[active].frames) + 1] = x
           /\ \A j \in 1 .. Len(files[active].frames) : files'[active].frames[j] = files[active].frames[j]
           /\ IsEntry(x) => /\ Below(files'[active], next_lsn + 1)
                            /\ Whole(files[active]) => Whole(files'[active])
           /\ ~ IsEntry(x) => Below(files'[active], next_lsn)
<1>1. /\ Listed \subseteq DOMAIN files /\ Listed \subseteq Nat \ {0}
      /\ active \in Listed /\ active \in DOMAIN files /\ active \in Nat \ {0}
      /\ \A l \in DOMAIN files : l \in Nat /\ FileOK(l, files[l])
      /\ files[active].header /\ next_lsn \in Nat
  BY ActiveFacts DEF NumbersOK
<1>2. (\A l \in Listed : l <= next_lsn) /\ Below(files[active], next_lsn)
  BY DEF SegmentsOK
<1>3. next_lsn + 1 \notin Listed /\ active \notin new /\ active <= next_lsn
  BY <1>1, <1>2 DEF Grows
<1>4. IsEntry(x) => active <= x.lsn /\ Below(files[active], x.lsn)
  BY <1>2, <1>3
<1> DEFINE f == files[active]
           g == files'[active]
<1>5. FileOK(active, f) /\ g \in FileType /\ g.header /\ g.frames = Append(f.frames, x) /\ g.synced = k
  BY <1>1 DEF Grows
<1>6. /\ FileOK(active, g) /\ Keeps(f, g) /\ Len(g.frames) = Len(f.frames) + 1
      /\ g.frames[Len(f.frames) + 1] = x
      /\ \A j \in 1 .. Len(f.frames) : g.frames[j] = f.frames[j]
      /\ IsEntry(x) => /\ \A n \in Nat : x.lsn < n => Below(g, n)
                       /\ Whole(f) => Whole(g)
  <2> HIDE DEF f, g
  <2> QED
    BY <1>1, <1>4, <1>5, FileAppend DEF f
<1>7. FilesOK'
  <2>0. DOMAIN files' = DOMAIN files \cup new /\ new \subseteq {next_lsn + 1}
    BY DEF Grows
  <2>1. DOMAIN files' \subseteq Nat \ {0}
    <3>1. DOMAIN files \subseteq Nat \ {0} /\ next_lsn + 1 \in Nat \ {0}
      BY <1>1 DEF FilesOK
    <3> QED
      BY <2>0, <3>1
  <2>2. \E m \in Nat : \A l \in DOMAIN files' : l <= m
    <3>1. PICK m \in Nat : \A l \in DOMAIN files : l <= m
      BY DEF FilesOK
    <3>2. m + next_lsn + 1 \in Nat /\ m <= m + next_lsn + 1 /\ next_lsn + 1 <= m + next_lsn + 1
      BY <1>1
    <3>3. ASSUME NEW l \in DOMAIN files' PROVE l <= m + next_lsn + 1
      <4>1. CASE l \in DOMAIN files
        <5>1. l \in Nat /\ l <= m
          BY <1>1, <3>1, <4>1
        <5> QED
          BY <3>2, <5>1
      <4>2. CASE l \in new
        BY <2>0, <3>2, <4>2
      <4> QED
        BY <2>0, <4>1, <4>2
    <3> QED
      BY <3>2, <3>3
  <2>3. ASSUME NEW l \in DOMAIN files' PROVE FileOK(l, files'[l])
    <3>1. CASE l \in new
      <4>1. /\ files'[l] \in FileType /\ files'[l].frames = <<>> /\ files'[l].synced = 0
            /\ Len(files'[l].frames) = 0
        BY <3>1 DEF Grows
      <4> QED
        BY <4>1 DEF FileOK
    <3>2. CASE l = active
      BY <1>6, <3>2
    <3>3. CASE l \notin new /\ l # active
      BY <1>1, <3>3 DEF Grows
    <3> QED
      BY <3>1, <3>2, <3>3
  <2> QED
    BY <2>1, <2>2, <2>3 DEF FilesOK
<1>8. \A l \in Listed : l # active => l \notin new /\ files'[l] = files[l]
  BY <1>1, <1>3 DEF Grows
<1>9. Listed \subseteq Listed' /\ Listed' \subseteq Listed \cup new
  <2>1. ASSUME NEW l \in Listed PROVE l \in Listed'
    <3>1. l \in DOMAIN files' /\ files[l].header
      BY <1>1 DEF Grows, Listed, list_segments
    <3>2. files'[l].header
      BY <1>5, <1>8, <3>1
    <3> QED
      BY <3>1, <3>2 DEF Listed, list_segments
  <2>2. ASSUME NEW l \in Listed', l \notin new PROVE l \in Listed
    <3>1. l \in DOMAIN files /\ files'[l].header
      BY <2>2 DEF Grows, Listed, list_segments
    <3>2. CASE l = active
      BY <1>1, <3>2
    <3>3. CASE l # active
      <4>1. files'[l] = files[l]
        BY <2>2, <3>1, <3>3 DEF Grows
      <4> QED
        BY <3>1, <4>1 DEF Listed, list_segments
    <3> QED
      BY <3>2, <3>3
  <2> QED
    BY <2>1, <2>2
<1>10. Carried
  <2>1. ASSUME NEW l \in Listed PROVE Keeps(files[l], files'[l])
    <3>1. CASE l = active
      BY <1>6, <3>1
    <3>2. CASE l # active
      <4>1. files'[l] = files[l] /\ FileOK(l, files[l]) /\ l \in Nat
        BY <1>1, <1>8, <3>2
      <4> QED
        BY <4>1, FileFacts DEF Keeps
    <3> QED
      BY <3>1, <3>2
  <2> QED
    BY <1>9, <2>1 DEF Carried
<1>11. IsEntry(x) => /\ Below(g, next_lsn + 1) /\ (Whole(f) => Whole(g))
  BY <1>1, <1>6
<1>12. ~ IsEntry(x) => Below(g, next_lsn)
  <2> SUFFICES ASSUME ~ IsEntry(x), NEW j \in 1 .. Len(g.frames), IsEntry(g.frames[j])
               PROVE  g.frames[j].lsn < next_lsn
    BY DEF Below
  <2>1. Len(f.frames) \in Nat
    BY <1>1, <1>5, FileFacts
  <2>2. j \in 1 .. Len(f.frames)
    BY <1>6, <2>1
  <2> QED
    BY <1>2, <1>6, <2>2 DEF Below
<1> QED
  BY <1>3, <1>6, <1>7, <1>8, <1>9, <1>10, <1>11, <1>12

-----------------------------------------------------------------------------
(* What the inductive invariant says of the log                              *)

\* An entry that can be read from stable frames is found again after a crash.
LEMMA ReadBack ==
    ASSUME LogAssumption, FilesOK, NEW l \in Listed, NEW e \in Entry,
           NEW j \in 1 .. files[l].synced, Holds(files[l], j, e),
           NEW from \in Nat, from <= e.lsn, \A n \in Listed : l < n => from < n
    PROVE  e \in entries_from(Stable(files), from)
<1> DEFINE fs == SubSeq(files[l].frames, 1, files[l].synced)
<1>1. l \in DOMAIN files /\ l \in Nat /\ FileOK(l, files[l]) /\ files[l].header
  BY DEF FilesOK, Listed, list_segments
<1>2. /\ files[l].frames \in Seq(Frame) /\ files[l].synced \in Nat
      /\ files[l].synced <= Len(files[l].frames) /\ Len(files[l].frames) \in Nat
  BY <1>1, FileFacts
<1>3. files[l].synced \in 0 .. Len(files[l].frames)
  BY <1>2
<1>4. /\ fs \in Seq(Frame) /\ Len(fs) = files[l].synced
      /\ \A i \in 1 .. files[l].synced : fs[i] = files[l].frames[i]
  BY <1>2, <1>3, Prefix
<1> HIDE DEF fs
<1>5. \A i \in 1 .. j : i \in 1 .. files[l].synced /\ IsEntry(fs[i])
  BY <1>2, <1>4 DEF Holds
<1>6. j \in 1 .. Len(Intact(fs)) /\ Intact(fs)[j] = e /\ DOMAIN Intact(fs) = 1 .. Len(Intact(fs))
  <2>1. j \in 1 .. Len(fs) /\ fs[j] = e
    BY <1>4 DEF Holds
  <2>2. j <= Len(Intact(fs)) /\ Intact(fs) \in Seq(Frame) /\ Len(Intact(fs)) \in 0 .. Len(fs)
    BY <1>4, <1>5, <2>1, IntactFrames
  <2>3. j \in 1 .. Len(Intact(fs))
    BY <1>2, <1>4, <2>2
  <2> QED
    BY <1>4, <2>1, <2>2, <2>3, IntactFrames, LenProperties
<1>7. e \in ToSet(Intact(fs))
  BY <1>6 DEF ToSet
<1>8. /\ DOMAIN Stable(files) = DOMAIN files
      /\ \A n \in DOMAIN files : Stable(files)[n] = [files[n] EXCEPT !.frames = SubSeq(@, 1, files[n].synced)]
  BY DEF Stable
<1>9. \A n \in DOMAIN files : Stable(files)[n].header = files[n].header
  BY <1>8 DEF FilesOK, FileOK, FileType
<1>10. list_segments(Stable(files)) = Listed
  BY <1>8, <1>9 DEF list_segments, Listed
<1>11. Stable(files)[l].frames = fs
  BY <1>1, <1>8 DEF FileOK, FileType, fs
<1>12. l \in {m \in list_segments(Stable(files)) :
               \A next \in list_segments(Stable(files)) : m < next => from < next}
  BY <1>10
<1>13. e \in {x \in ToSet(Intact(Stable(files)[l].frames)) : x.lsn >= from}
  BY <1>7, <1>11 DEF Entry
<1> QED
  BY <1>12, <1>13 DEF entries_from

\* An entry that was acknowledged is one of those written.
LEMMA WrittenFacts ==
    ASSUME HistoryOK, NEW op \in 1 .. Len(written)
    PROVE  written[op] \in Entry /\ written[op].op = op /\ written[op].lsn \in Nat
<1>1. written[op] \in Entry
  BY ElementOfSeq DEF HistoryOK
<1> QED
  BY <1>1 DEF HistoryOK, Entry

LEMMA SurvivesByInvariant ==
    ASSUME LogAssumption, LogIInv
    PROVE  AcknowledgedEntriesSurvive
<1> USE DEF LogIInv
<1> SUFFICES ASSUME log_durability = "Strict", NEW op \in trusted, ~ (LsnOf(op) <= catalog_through)
             PROVE  op \in Reads(Stable(files), catalog_through)
  BY DEF AcknowledgedEntriesSurvive
<1>1. PICK e : e = written[op]
  OBVIOUS
<1>2. e \in Entry /\ e.op = op /\ e.lsn \in Nat /\ catalog_through \in Nat
  BY <1>1, WrittenFacts DEF HistoryOK, NumbersOK
<1>3. catalog_through < e.lsn
  BY <1>1, <1>2 DEF LsnOf
<1>4. Kept(e)
  BY <1>1, <1>2, <1>3 DEF TrustOK, Retired
<1>5. PICK l \in Listed : /\ \E j \in 1 .. files[l].synced : Holds(files[l], j, e)
                          /\ \A n \in Listed : l < n => e.lsn < n
  BY <1>4 DEF Kept
<1>6. PICK j \in 1 .. files[l].synced : Holds(files[l], j, e)
  BY <1>5
<1>7. \A n \in Listed : l < n => catalog_through < n
  BY <1>2, <1>3, <1>5, Listed \subseteq Nat DEF FilesOK, Listed, list_segments
<1>8. e \in entries_from(Stable(files), catalog_through)
  BY <1>2, <1>3, <1>6, <1>7, ReadBack
<1> QED
  BY <1>2, <1>8 DEF Reads

LEMMA ArchiveByInvariant ==
    ASSUME LogAssumption, LogIInv
    PROVE  ArchiveIsComplete
<1> USE DEF LogIInv
<1> SUFFICES ASSUME log_durability = "Strict", NEW op \in trusted
             PROVE  \/ op \in Reads(Stable(files), 0)
                    \/ \E a \in archived : op \in {e.op : e \in ToSet(Intact(a.frames))}
  BY DEF ArchiveIsComplete
<1>1. PICK e : e = written[op]
  OBVIOUS
<1>2. e \in Entry /\ e.op = op /\ e.lsn \in Nat
  BY <1>1, WrittenFacts DEF HistoryOK
<1>3. CASE Kept(e)
  <2>1. PICK l \in Listed : \E j \in 1 .. files[l].synced : Holds(files[l], j, e)
    BY <1>3 DEF Kept
  <2>2. PICK j \in 1 .. files[l].synced : Holds(files[l], j, e)
    BY <2>1
  <2>3. \A n \in Listed : 0 < n
    BY DEF FilesOK, Listed, list_segments
  <2>4. e \in entries_from(Stable(files), 0)
    BY <1>2, <2>2, <2>3, ReadBack
  <2> QED
    BY <1>2, <2>4 DEF Reads
<1>4. CASE Retired(e)
  <2>1. PICK a \in archived : \E j \in 1 .. Len(a.frames) : Holds(a, j, e)
    BY <1>4 DEF Retired
  <2>2. PICK j \in 1 .. Len(a.frames) : Holds(a, j, e)
    BY <2>1
  <2>3. a.frames \in Seq(Frame)
    BY DEF ArchiveOK, FileType
  <2>4. /\ Intact(a.frames) \in Seq(Frame) /\ Len(a.frames) \in Nat
        /\ Len(Intact(a.frames)) \in 0 .. Len(a.frames)
        /\ \A i \in 1 .. Len(Intact(a.frames)) : Intact(a.frames)[i] = a.frames[i]
        /\ j <= Len(Intact(a.frames))
    BY <2>2, <2>3, IntactFrames DEF Holds
  <2>5. j \in DOMAIN Intact(a.frames) /\ Intact(a.frames)[j] = e
    <3>1. j \in 1 .. Len(Intact(a.frames))
      BY <2>4
    <3> QED
      BY <2>2, <2>4, <3>1, LenProperties DEF Holds
  <2>6. e \in ToSet(Intact(a.frames))
    BY <2>5 DEF ToSet
  <2> QED
    BY <1>2, <2>6
<1> QED
  BY <1>1, <1>3, <1>4 DEF TrustOK

\* Below the active segment every segment is sealed, and ends before it.
LEMMA BeforeActive ==
    ASSUME LogAssumption, FilesOK, NumbersOK, SegmentsOK, OrderOK, ~ faults, up
    PROVE  /\ \A l \in Listed : l <= active /\ l <= next_lsn
           /\ \A l \in Listed : l # active => Sealed(files[l]) /\ Below(files[l], active)
           /\ \A l \in Listed : Below(files[l], next_lsn)
<1>1. /\ Listed \subseteq Nat /\ active \in segs /\ active \in Listed /\ active \in Nat
      /\ \A l \in segs : l <= active
      /\ \A l \in Listed : l \in Nat /\ FileOK(l, files[l])
  BY ActiveFacts
<1>2. ASSUME NEW l \in Listed PROVE l <= active /\ l <= next_lsn
  <2>1. l \in segs \/ l < active
    BY <1>1 DEF OrderOK
  <2> QED
    BY <1>1, <2>1 DEF SegmentsOK
<1>3. ASSUME NEW l \in Listed, l # active PROVE Sealed(files[l]) /\ Below(files[l], active)
  <2>1. l < active
    BY <1>1, <1>2, <1>3
  <2> QED
    BY <1>1, <2>1 DEF OrderOK
<1>4. ASSUME NEW l \in Listed PROVE Below(files[l], next_lsn)
  <2>1. CASE l = active
    BY <2>1 DEF SegmentsOK
  <2>2. CASE l # active
    <3>1. Below(files[l], active) /\ active <= next_lsn /\ next_lsn \in Nat
      BY <1>3, <2>2 DEF SegmentsOK, NumbersOK
    <3> QED
      BY <1>1, <3>1, BelowMore
  <2> QED
    BY <2>1, <2>2
<1> QED
  BY <1>2, <1>3, <1>4

\* Where the log reaches is below the next number.
LEMMA ReachesBelow ==
    ASSUME LogAssumption, FilesOK, NumbersOK, SegmentsOK, OrderOK, ~ faults, up, NEW n \in Nat, Reaches(n)
    PROVE  n < next_lsn
<1>1. PICK l \in Listed :
         n < l \/ \E j \in 1 .. files[l].synced : IsEntry(files[l].frames[j]) /\ n < files[l].frames[j].lsn
  BY DEF Reaches
<1>2. l \in Nat /\ FileOK(l, files[l]) /\ l <= next_lsn /\ Below(files[l], next_lsn) /\ next_lsn \in Nat
  BY BeforeActive, ActiveFacts DEF NumbersOK
<1>3. ASSUME NEW j \in 1 .. files[l].synced, IsEntry(files[l].frames[j]), n < files[l].frames[j].lsn
      PROVE  n < next_lsn
  <2>1. j \in 1 .. Len(files[l].frames) /\ files[l].frames[j] \in Frame
    <3>1. files[l].synced \in Nat /\ Len(files[l].frames) \in Nat /\ files[l].synced <= Len(files[l].frames)
      BY <1>2, FileFacts
    <3>2. j \in 1 .. Len(files[l].frames)
      BY <3>1
    <3> QED
      BY <1>2, <3>2, FileFacts
  <2>2. files[l].frames[j].lsn \in Nat /\ files[l].frames[j].lsn < next_lsn
    BY <1>2, <1>3, <2>1, FrameFacts DEF Below
  <2> QED
    BY <1>2, <1>3, <2>2
<1> QED
  BY <1>1, <1>2, <1>3

LEMMA TypeByInvariant ==
    ASSUME LogAssumption, LogIInv
    PROVE  LogTypeOK
<1>0. FilesOK /\ NumbersOK /\ HistoryOK /\ SegmentsOK /\ StageOK /\ OrderOK /\ CheckpointOK
  BY DEF LogIInv
<1>1. /\ segs # {} /\ segs \subseteq DOMAIN files /\ active <= next_lsn /\ active \in Nat
      /\ segs \subseteq Listed /\ Listed \subseteq Nat /\ active \in Listed /\ active \in segs
      /\ \A l \in Listed : l \in Nat /\ FileOK(l, files[l])
      /\ \A l \in segs : l <= active
  BY <1>0, ActiveFacts DEF SegmentsOK
<1>2. next_lsn >= active /\ start_lsn <= next_lsn /\ stage \in {"idle", "catalog", "discard"}
  BY <1>0, <1>1 DEF NumbersOK, StageOK
<1>3. ~ faults /\ up => catalog_through < next_lsn
  BY <1>0, ReachesBelow DEF CheckpointOK, NumbersOK
<1>4. \A l \in DOMAIN files : files[l].synced <= Len(files[l].frames)
  BY <1>0 DEF FilesOK, FileOK
<1>5. ~ faults /\ up => /\ segs \subseteq list_segments(files)
                        /\ \A l \in segs, old \in list_segments(files) \ segs : old < l
  BY <1>0, <1>1 DEF OrderOK, Listed
<1>6. ASSUME ~ faults, NEW l \in segs, NEW e \in ToSet(Intact(files[l].frames))
      PROVE  l <= e.lsn /\ \A next \in segs : l < next => e.lsn < next
  <2>1. l \in Listed /\ l \in Nat /\ FileOK(l, files[l])
    BY <1>1
  <2>2. files[l].frames \in Seq(Frame)
    BY <2>1, FileFacts
  <2>3. /\ Intact(files[l].frames) \in Seq(Frame) /\ Len(files[l].frames) \in Nat
        /\ Len(Intact(files[l].frames)) \in 0 .. Len(files[l].frames)
        /\ \A i \in 1 .. Len(Intact(files[l].frames)) :
             Intact(files[l].frames)[i] = files[l].frames[i] /\ IsEntry(files[l].frames[i])
    BY <2>2, IntactFrames
  <2>4. PICK j \in 1 .. Len(Intact(files[l].frames)) : e = Intact(files[l].frames)[j]
    BY <1>6, <2>3, LenProperties DEF ToSet
  <2>5. j \in 1 .. Len(files[l].frames) /\ e = files[l].frames[j] /\ IsEntry(files[l].frames[j])
    BY <2>3, <2>4
  <2>6. l <= e.lsn
    BY <2>1, <2>5 DEF FileOK
  <2>7. ASSUME NEW next \in segs, l < next PROVE e.lsn < next
    <3>1. Below(files[l], next)
      BY <1>0, <1>1, <1>6, <2>1, <2>7 DEF OrderOK
    <3> QED
      BY <2>5, <3>1 DEF Below
  <2> QED
    BY <2>6, <2>7
<1> QED
  BY <1>1, <1>2, <1>3, <1>4, <1>5, <1>6 DEF LogTypeOK

LEMMA GroupByInvariant ==
    ASSUME LogAssumption, LogIInv
    PROVE  GroupLossBounded
<1> SUFFICES ASSUME log_durability = "GroupCommit", ~ faults, up
             PROVE  Cardinality({op \in acked : op \in Reads(files, 0) \ Reads(Stable(files), 0)}) < SyncGroup
  BY DEF GroupLossBounded
<1>0. FilesOK /\ NumbersOK /\ HistoryOK /\ SegmentsOK /\ OrderOK /\ GroupOK
  BY DEF LogIInv
<1> DEFINE S == {op \in acked : op \in Reads(files, 0) \ Reads(Stable(files), 0)}
           U == Unsynced(files[active])
<1>1. ASSUME NEW op \in S PROVE op \in U
  <2>1. PICK e \in entries_from(files, 0) : e.op = op
    BY <1>1 DEF Reads
  <2>2. PICK l \in Listed : e \in ToSet(Intact(files[l].frames))
    BY <2>1 DEF entries_from, Listed
  <2>3. l \in Nat /\ l # 0 /\ FileOK(l, files[l]) /\ \A n \in Listed : 0 < n
    BY <1>0, ActiveFacts
  <2>4. /\ files[l].frames \in Seq(Frame) /\ files[l].synced \in Nat /\ Len(files[l].frames) \in Nat
        /\ files[l].synced <= Len(files[l].frames)
    BY <2>3, FileFacts
  <2>5. /\ Intact(files[l].frames) \in Seq(Frame)
        /\ Len(Intact(files[l].frames)) \in 0 .. Len(files[l].frames)
        /\ \A i \in 1 .. Len(Intact(files[l].frames)) :
             Intact(files[l].frames)[i] = files[l].frames[i] /\ IsEntry(files[l].frames[i])
    BY <2>4, IntactFrames
  <2>6. PICK j \in 1 .. Len(Intact(files[l].frames)) : e = Intact(files[l].frames)[j]
    BY <2>2, <2>5, LenProperties DEF ToSet
  <2>7. j \in 1 .. Len(files[l].frames) /\ e = files[l].frames[j]
    BY <2>4, <2>5, <2>6
  <2>8. Holds(files[l], j, e)
    BY <2>4, <2>5, <2>6, <2>7 DEF Holds
  <2>9. e \in Entry /\ 0 <= e.lsn
    <3>1. e \in Frame /\ IsEntry(e)
      BY <2>4, <2>5, <2>7, ElementOfSeq
    <3> QED
      BY <3>1, FrameFacts
  <2>10. ~ (j <= files[l].synced)
    <3> SUFFICES ASSUME j <= files[l].synced PROVE FALSE
      OBVIOUS
    <3>1. j \in 1 .. files[l].synced
      BY <2>4, <2>7
    <3>2. e \in entries_from(Stable(files), 0)
      BY <1>0, <2>3, <2>8, <2>9, <3>1, ReadBack
    <3> QED
      BY <1>1, <2>1, <3>2 DEF Reads
  <2>11. ~ Sealed(files[l])
    BY <2>4, <2>7, <2>10 DEF Sealed
  <2>12. l = active
    BY <1>0, <2>11, BeforeActive
  <2>13. j \in files[l].synced + 1 .. Len(files[l].frames) /\ IsEntry(files[l].frames[j])
    BY <2>4, <2>5, <2>6, <2>7, <2>10
  <2> QED
    BY <1>1, <2>1, <2>7, <2>12, <2>13 DEF Unsynced
<1>2. IsFiniteSet(U) /\ Cardinality(U) \in Nat /\ Cardinality(U) < SyncGroup
  <2>1. U \subseteq 1 .. Len(written) /\ Len(written) \in Nat
    BY <1>0, LenProperties DEF HistoryOK, Unsynced
  <2>2. IsFiniteSet(1 .. Len(written))
    BY <2>1, FS_Interval
  <2>3. IsFiniteSet(U)
    BY <2>1, <2>2, FS_Subset
  <2> QED
    BY <1>0, <2>3, FS_CardinalityType DEF GroupOK
<1>3. Cardinality(S) \in Nat /\ Cardinality(S) <= Cardinality(U)
  BY <1>1, <1>2, FS_Subset, FS_CardinalityType
<1>4. SyncGroup \in Nat
  BY DEF LogAssumption
<1> QED
  BY <1>2, <1>3, <1>4

LEMMA InvariantOfLog ==
    ASSUME LogAssumption, LogIInv
    PROVE  LogInvariant
BY SurvivesByInvariant, ArchiveByInvariant, TypeByInvariant, GroupByInvariant DEF LogInvariant

-----------------------------------------------------------------------------
(* Steps that write an entry                                                 *)

LEMMA NewEntryFacts ==
    ASSUME LogAssumption, NumbersOK, HistoryOK
    PROVE  /\ NewEntry \in Entry /\ NewEntry \in Frame /\ IsEntry(NewEntry) /\ NewEntry.lsn = next_lsn
           /\ NewEntry.op = Len(written) + 1 /\ Len(written) \in Nat
<1>1. Len(written) \in Nat /\ next_lsn \in Nat
  BY LenProperties DEF HistoryOK, NumbersOK
<1>2. NewEntry \in Entry /\ NewEntry.lsn = next_lsn /\ NewEntry.op = Len(written) + 1
  BY <1>1 DEF NewEntry, Entry
<1> QED
  BY <1>1, <1>2, FrameFacts

LEMMA AppendGrows ==
    ASSUME LogAssumption, FilesOK, SegmentsOK, NEW x \in Frame,
           files' = [files EXCEPT ![active].frames = Append(@, x)]
    PROVE  Grows(x, files[active].synced, {})
<1>1. active \in DOMAIN files /\ FileOK(active, files[active]) /\ files[active].header /\ active \in Nat
  BY ActiveFacts
<1>2. files[active] \in FileType /\ files[active].frames \in Seq(Frame)
  BY <1>1, FileFacts DEF FileOK
<1>3. Append(files[active].frames, x) \in Seq(Frame)
  BY <1>2, Appended
<1>4. /\ DOMAIN files' = DOMAIN files
      /\ \A l \in DOMAIN files : l # active => files'[l] = files[l]
      /\ files'[active] = [files[active] EXCEPT !.frames = Append(@, x)]
  BY <1>1
<1>5. /\ files'[active] \in FileType /\ files'[active].header
      /\ files'[active].frames = Append(files[active].frames, x)
      /\ files'[active].synced = files[active].synced
  BY <1>1, <1>2, <1>3, <1>4 DEF FileType
<1> QED
  BY <1>4, <1>5 DEF Grows

\* The active segment is written and synced.
LEMMA SealedFile ==
    ASSUME LogAssumption, FilesOK, SegmentsOK, NEW x \in Frame,
           NEW frames, frames = Append(files[active].frames, x)
    PROVE  /\ File(frames, Len(frames)) \in FileType /\ File(frames, Len(frames)).header
           /\ File(frames, Len(frames)).frames = frames
           /\ File(frames, Len(frames)).synced = Len(files[active].frames) + 1
<1>1. FileOK(active, files[active]) /\ active \in Nat
  BY ActiveFacts
<1>2. files[active].frames \in Seq(Frame)
  BY <1>1, FileFacts
<1>3. frames \in Seq(Frame) /\ Len(frames) = Len(files[active].frames) + 1 /\ Len(files[active].frames) \in Nat
  BY <1>2, Appended
<1> QED
  BY <1>3 DEF File, FileType

LEMMA SyncedGrows ==
    ASSUME LogAssumption, FilesOK, SegmentsOK, NEW x \in Frame,
           NEW frames, frames = Append(files[active].frames, x),
           files' = With(files, active, File(frames, Len(frames)))
    PROVE  Grows(x, Len(files[active].frames) + 1, {})
<1>1. active \in DOMAIN files
  BY ActiveFacts
<1>2. /\ DOMAIN files' = DOMAIN files
      /\ \A l \in DOMAIN files : l # active => files'[l] = files[l]
      /\ files'[active] = File(frames, Len(frames))
  BY <1>1 DEF With
<1>3. /\ files'[active] \in FileType /\ files'[active].header /\ files'[active].frames = frames
      /\ files'[active].synced = Len(files[active].frames) + 1
  <2>1. PICK h : h = File(frames, Len(frames))
    OBVIOUS
  <2>2. /\ h \in FileType /\ h.header /\ h.frames = frames
        /\ h.synced = Len(files[active].frames) + 1
    BY <2>1, SealedFile
  <2> QED
    BY <1>2, <2>1, <2>2
<1> QED
  BY <1>2, <1>3 DEF Grows

LEMMA RotatedGrows ==
    ASSUME LogAssumption, FilesOK, SegmentsOK, NumbersOK, NEW x \in Frame,
           NEW frames, frames = Append(files[active].frames, x),
           NEW g \in {File(<<>>, 0), NoFile},
           files' = With(With(files, active, File(frames, Len(frames))), next_lsn + 1, g)
    PROVE  /\ Grows(x, Len(files[active].frames) + 1, {next_lsn + 1})
           /\ g = File(<<>>, 0) => next_lsn + 1 \in Listed'
<1>1. active \in DOMAIN files /\ active <= next_lsn /\ active \in Nat /\ next_lsn \in Nat
  BY ActiveFacts DEF SegmentsOK, NumbersOK
<1>2. active # next_lsn + 1
  BY <1>1
<1>3. /\ DOMAIN files' = DOMAIN files \cup {next_lsn + 1}
      /\ \A l \in DOMAIN files : l \notin {next_lsn + 1, active} => files'[l] = files[l]
      /\ files'[active] = File(frames, Len(frames))
      /\ files'[next_lsn + 1] = g
  BY <1>1, <1>2 DEF With
<1>4. g \in FileType /\ g.frames = <<>> /\ g.synced = 0 /\ (g = File(<<>>, 0) => g.header)
  <2>1. <<>> \in Seq(Frame)
    OBVIOUS
  <2>2. CASE g = File(<<>>, 0)
    BY <2>1, <2>2 DEF File, FileType
  <2>3. CASE g = NoFile
    <3>1. g = [header |-> FALSE, frames |-> <<>>, synced |-> 0]
      BY <2>3 DEF NoFile
    <3>2. g # File(<<>>, 0)
      BY <3>1 DEF File
    <3> QED
      BY <2>1, <3>1, <3>2 DEF FileType
  <2> QED
    BY <2>2, <2>3
<1>5. g = File(<<>>, 0) => next_lsn + 1 \in Listed'
  BY <1>3, <1>4 DEF Listed, list_segments
<1>6. /\ files'[active] \in FileType /\ files'[active].header /\ files'[active].frames = frames
      /\ files'[active].synced = Len(files[active].frames) + 1
  <2>1. PICK h : h = File(frames, Len(frames))
    OBVIOUS
  <2>2. /\ h \in FileType /\ h.header /\ h.frames = frames
        /\ h.synced = Len(files[active].frames) + 1
    BY <2>1, SealedFile
  <2> QED
    BY <1>3, <2>1, <2>2
<1> QED
  BY <1>3, <1>4, <1>5, <1>6 DEF Grows

\* Max is where one would expect it.
LEMMA MaxIs ==
    ASSUME NEW S \in SUBSET Nat, NEW m \in S, \A y \in S : y <= m
    PROVE  Max(S) = m
<1>1. m \in Nat
  OBVIOUS
<1>2. Max(S) \in S /\ \A y \in S : y <= Max(S)
  BY <1>1, MinMax
<1>3. Max(S) \in Nat /\ Max(S) <= m /\ m <= Max(S)
  BY <1>2
<1> QED
  BY <1>1, <1>3

LEMMA Writes ==
    ASSUME LogAssumption, FilesOK, NumbersOK, HistoryOK, SegmentsOK, StageOK, OrderOK, CheckpointOK,
           TrustOK, TrustedLsns, WaitingOK, up, stage = "idle",
           NEW k \in {files[active].synced, Len(files[active].frames) + 1}, NEW new, Grows(NewEntry, k, new),
           new # {} => k = Len(files[active].frames) + 1,
           segs' \in {segs, segs \cup new}, segs' \subseteq Listed',
           ~ faults' => ~ faults /\ (up' => segs' = segs \cup new),
           written' = Append(written, NewEntry), next_lsn' = next_lsn + 1,
           log_durability' = log_durability, archived' = archived, catalog_through' = catalog_through, doomed' = doomed,
           trusted' = trusted, acked' = acked, waiting' \subseteq waiting \cup {NewEntry.op},
           up' \in BOOLEAN, faults' \in BOOLEAN
    PROVE  /\ FilesOK' /\ HistoryOK' /\ SegmentsOK' /\ OrderOK' /\ TrustOK' /\ WaitingOK'
           /\ ~ faults => Reaches(catalog_through)'
           /\ k = Len(files[active].frames) + 1 /\ ~ faults /\ flushed' = next_lsn - 1 => Reaches(flushed)'
           /\ new = {} => active' = active
           /\ segs' = segs \cup new /\ new # {} => active' = next_lsn + 1
<1> DEFINE x == NewEntry
           f == files[active]
           g == files'[active]
<1>1. /\ NewEntry \in Entry /\ NewEntry \in Frame /\ IsEntry(NewEntry) /\ NewEntry.lsn = next_lsn
      /\ NewEntry.op = Len(written) + 1 /\ Len(written) \in Nat /\ next_lsn \in Nat \ {0}
  BY NewEntryFacts DEF NumbersOK
<1>2. /\ FilesOK' /\ Carried /\ next_lsn + 1 \notin Listed
      /\ Listed \subseteq Listed' /\ Listed' \subseteq Listed \cup new
      /\ \A l \in Listed : l # active => files'[l] = files[l]
      /\ Len(g.frames) = Len(f.frames) + 1
      /\ g.frames[Len(f.frames) + 1] = NewEntry
      /\ \A j \in 1 .. Len(f.frames) : g.frames[j] = f.frames[j]
      /\ Below(g, next_lsn + 1) /\ (Whole(f) => Whole(g))
  BY <1>1, Grown
<1>3. /\ Listed \subseteq Nat \ {0} /\ segs \subseteq Listed /\ active \in segs /\ active \in Listed
      /\ active \in Nat \ {0} /\ active <= next_lsn /\ \A l \in segs : l <= active
      /\ \A l \in Listed : l <= next_lsn /\ l \in Nat /\ FileOK(l, files[l])
  BY ActiveFacts DEF SegmentsOK
<1>4. new \subseteq {next_lsn + 1} /\ g.synced = k /\ \A l \in new : files'[l].frames = <<>>
  BY DEF Grows
<1>5. Len(f.frames) \in Nat /\ f.synced \in Nat /\ f.synced <= Len(f.frames)
  BY <1>3, FileFacts
<1>6. active' = IF next_lsn + 1 \in segs' THEN next_lsn + 1 ELSE active
  <2>1. segs' \subseteq segs \cup {next_lsn + 1} /\ segs \subseteq segs' /\ segs' \in SUBSET Nat
    BY <1>1, <1>3, <1>4
  <2>2. CASE next_lsn + 1 \in segs'
    <3>1. \A y \in segs' : y <= next_lsn + 1
      BY <1>1, <1>3, <2>1
    <3> QED
      BY <2>1, <2>2, <3>1, MaxIs DEF active
  <2>3. CASE next_lsn + 1 \notin segs'
    <3>1. active \in segs' /\ \A y \in segs' : y <= active
      BY <1>3, <2>1, <2>3
    <3>2. Max(segs') = active
      BY <2>1, <3>1, MaxIs
    <3> QED
      BY <2>3, <3>2 DEF active
  <2> QED
    BY <2>2, <2>3
<1>7. next_lsn + 1 \in segs' => new = {next_lsn + 1} /\ segs' = segs \cup new
  BY <1>2, <1>3, <1>4
<1>8. HistoryOK'
  <2>1. /\ written' \in Seq(Entry) /\ Len(written') = Len(written) + 1
        /\ \A j \in 1 .. Len(written) : written'[j] = written[j]
        /\ written'[Len(written) + 1] = NewEntry
    BY <1>1, Appended DEF HistoryOK
  <2>2. \A i \in 1 .. Len(written') : written'[i].op = i
    BY <1>1, <2>1 DEF HistoryOK
  <2>3. 1 .. Len(written) \subseteq 1 .. Len(written') /\ NewEntry.op \in 1 .. Len(written')
    BY <1>1, <2>1
  <2> QED
    BY <2>1, <2>2, <2>3 DEF HistoryOK
<1>9. SegmentsOK'
  <2>1. doomed = {}
    BY DEF StageOK
  <2>2. active' <= next_lsn' /\ next_lsn' \in Nat /\ next_lsn <= next_lsn' /\ next_lsn + 1 <= next_lsn'
    <3>1. next_lsn' \in Nat /\ next_lsn <= next_lsn' /\ next_lsn + 1 <= next_lsn'
      BY <1>1
    <3>2. active' \in {next_lsn + 1, active} /\ active \in Nat /\ active <= next_lsn
      BY <1>3, <1>6
    <3> QED
      BY <1>1, <3>1, <3>2
  <2>3. ASSUME NEW l \in Listed' PROVE l <= next_lsn'
    <3>1. CASE l \in Listed
      BY <1>1, <1>3, <2>2, <3>1
    <3>2. CASE l \in new
      BY <1>4, <2>2, <3>2
    <3> QED
      BY <1>2, <3>1, <3>2
  <2>4. Below(files'[active'], next_lsn')
    <3>1. CASE active' = active
      BY <1>2, <3>1
    <3>2. CASE active' # active
      <4>1. active' \in new
        BY <1>6, <1>7, <3>2
      <4>2. files'[active'].frames = <<>>
        BY <1>4, <4>1
      <4> QED
        BY <4>2 DEF Below
    <3> QED
      BY <3>1, <3>2
  <2>5. Below(files[active], next_lsn)' = Below(files'[active'], next_lsn')
    BY DEF Below
  <2> QED
    BY <1>3, <2>1, <2>2, <2>3, <2>4, <2>5 DEF SegmentsOK
<1>10. OrderOK'
  <2> SUFFICES ASSUME ~ faults'
               PROVE  /\ \A l, n \in Listed' : l < n => Sealed(files'[l]) /\ Below(files'[l], n)
                      /\ up' => /\ \A l \in segs', old \in Listed' \ segs' : old < l
                                /\ Whole(files'[active'])
    BY DEF OrderOK, Sealed, Whole, Below
  <2>1. /\ \A l \in Listed : l <= active
        /\ \A l \in Listed : l # active => Sealed(files[l]) /\ Below(files[l], active)
        /\ \A l \in Listed : Below(files[l], next_lsn)
        /\ Whole(files[active])
    BY BeforeActive DEF OrderOK
  <2>2. ASSUME NEW l \in Listed', NEW n \in Listed', l < n
        PROVE  Sealed(files'[l]) /\ Below(files'[l], n)
    <3>1. l \in Listed
      BY <1>1, <1>2, <1>3, <1>4, <2>2
    <3>2. CASE n \in Listed
      <4>1. l # active
        BY <1>3, <2>1, <2>2, <3>1, <3>2
      <4>2. files'[l] = files[l]
        BY <1>2, <3>1, <4>1
      <4>3. Sealed(files[l]) /\ Below(files[l], n)
        BY <2>2, <3>1, <3>2 DEF OrderOK
      <4> QED
        BY <4>2, <4>3
    <3>3. CASE n \notin Listed
      <4>1. n = next_lsn + 1 /\ new # {}
        BY <1>2, <1>4, <2>2, <3>3
      <4>2. CASE l = active
        <5>1. g.synced = Len(g.frames) /\ Whole(g)
          BY <1>2, <1>4, <2>1, <4>1
        <5> QED
          BY <1>2, <4>1, <4>2, <5>1 DEF Sealed
      <4>3. CASE l # active
        <5>1. files'[l] = files[l] /\ Sealed(files[l]) /\ Below(files[l], next_lsn) /\ FileOK(l, files[l]) /\ l \in Nat
          BY <1>2, <1>3, <2>1, <3>1, <4>3
        <5>2. Below(files[l], next_lsn + 1)
          BY <1>1, <5>1, BelowMore
        <5> QED
          BY <4>1, <5>1, <5>2
      <4> QED
        BY <4>2, <4>3
    <3> QED
      BY <3>2, <3>3
  <2>3. ASSUME up', NEW l \in segs', NEW old \in Listed' \ segs' PROVE old < l
    <3>1. segs' = segs \cup new
      BY <2>3
    <3>2. old \in Listed \ segs /\ old <= next_lsn /\ old \in Nat
      BY <1>2, <1>3, <2>3, <3>1
    <3>3. CASE l \in segs
      BY <3>2, <3>3 DEF OrderOK
    <3>4. CASE l \in new
      BY <1>1, <1>4, <3>2, <3>4
    <3> QED
      BY <2>3, <3>1, <3>3, <3>4
  <2>4. Whole(files'[active'])
    <3>1. CASE active' = active
      BY <1>2, <2>1, <3>1
    <3>2. CASE active' # active
      <4>1. active' \in new
        BY <1>6, <1>7, <3>2
      <4>2. files'[active'].frames = <<>>
        BY <1>4, <4>1
      <4> QED
        BY <4>2 DEF Whole
    <3> QED
      BY <3>1, <3>2
  <2> QED
    BY <2>2, <2>3, <2>4
<1>11. TrustOK'
  <2>1. \A op \in trusted : written'[op] = written[op]
    BY <1>1, Appended DEF HistoryOK
  <2>2. Listed' \subseteq Listed \cup (IF up THEN {next_lsn + 1} ELSE {})
    BY <1>2, <1>4
  <2> QED
    BY <1>2, <1>8, <2>1, <2>2, TrustCarries
<1>12. WaitingOK'
  <2> SUFFICES ASSUME ~ faults', NEW op \in waiting'
               PROVE  \E l \in Listed' : \E j \in 1 .. Len(files'[l].frames) : files'[l].frames[j] = written'[op]
    BY DEF WaitingOK
  <2>1. \A j \in 1 .. Len(written) : written'[j] = written[j]
    BY <1>1, Appended DEF HistoryOK
  <2>2. written'[Len(written) + 1] = NewEntry
    BY <1>1, Appended DEF HistoryOK
  <2>3. CASE op = NewEntry.op
    <3>1. Len(f.frames) + 1 \in 1 .. Len(g.frames) /\ g.frames[Len(f.frames) + 1] = written'[op]
      BY <1>1, <1>2, <1>5, <2>2, <2>3
    <3> QED
      BY <1>2, <1>3, <3>1
  <2>4. CASE op \in waiting
    <3>1. PICK l \in Listed : \E j \in 1 .. Len(files[l].frames) : files[l].frames[j] = written[op]
      BY <2>4 DEF WaitingOK
    <3>2. PICK j \in 1 .. Len(files[l].frames) : files[l].frames[j] = written[op]
      BY <3>1
    <3>3. written'[op] = written[op]
      BY <2>1, <2>4 DEF HistoryOK
    <3>4. j \in 1 .. Len(files'[l].frames) /\ files'[l].frames[j] = files[l].frames[j]
      <4>1. CASE l = active
        BY <1>2, <1>5, <3>2, <4>1
      <4>2. CASE l # active
        BY <1>2, <3>2, <4>2
      <4> QED
        BY <4>1, <4>2
    <3> QED
      BY <1>2, <3>2, <3>3, <3>4
  <2> QED
    BY <2>3, <2>4
<1>13. ~ faults => Reaches(catalog_through)'
  <2> SUFFICES ASSUME ~ faults PROVE Reaches(catalog_through)'
    OBVIOUS
  <2>1. PICK n : n = catalog_through
    OBVIOUS
  <2>2. n \in Nat /\ Reaches(n)
    BY <2>1 DEF CheckpointOK, NumbersOK
  <2>3. Reaches(n)'
    BY <1>2, <2>2, ReachesCarries
  <2> QED
    BY <2>1, <2>3 DEF Reaches
<1>14. ASSUME k = Len(f.frames) + 1, ~ faults, flushed' = next_lsn - 1 PROVE Reaches(flushed)'
  <2>1. Len(f.frames) + 1 \in 1 .. g.synced /\ g.frames[Len(f.frames) + 1] = NewEntry
    BY <1>2, <1>4, <1>5, <1>14
  <2>2. flushed' < NewEntry.lsn
    BY <1>1, <1>14
  <2>3. \A i \in 1 .. Len(f.frames) + 1 : IsEntry(g.frames[i])
    <3>1. Whole(g)
      BY <1>2, <1>14 DEF OrderOK
    <3> QED
      BY <1>2, <3>1 DEF Whole
  <2>4. active \in Listed'
    BY <1>2, <1>3
  <2> QED
    BY <1>1, <2>1, <2>2, <2>3, <2>4 DEF Reaches
<1>15. /\ new = {} => active' = active
       /\ segs' = segs \cup new /\ new # {} => active' = next_lsn + 1
  <2>1. new = {} \/ new = {next_lsn + 1}
    BY <1>4
  <2> QED
    BY <1>6, <1>7, <2>1
<1>16. k = Len(files[active].frames) + 1 /\ ~ faults /\ flushed' = next_lsn - 1 => Reaches(flushed)'
  BY <1>14
<1> HIDE DEF f, g, x
<1> QED
  BY <1>2, <1>8, <1>9, <1>10, <1>11, <1>12, <1>13, <1>15, <1>16

LEMMA LsnsGrow ==
    ASSUME LogAssumption, NumbersOK, HistoryOK, TrustedLsns, up, stage = "idle",
           written' = Append(written, NewEntry), next_lsn' = next_lsn + 1,
           trusted' = trusted, log_durability' = log_durability, stage' \in {"idle", "catalog"},
           stage' = "catalog" => flushed' = next_lsn - 1
    PROVE  TrustedLsns'
<1> SUFFICES ASSUME log_durability = "Strict", NEW op \in trusted
             PROVE  /\ up' => written'[op].lsn < next_lsn'
                    /\ stage' = "catalog" => written'[op].lsn <= flushed'
  BY DEF TrustedLsns
<1>1. written[op].lsn < next_lsn /\ op \in 1 .. Len(written) /\ written \in Seq(Entry) /\ next_lsn \in Nat
  BY DEF TrustedLsns, HistoryOK, NumbersOK
<1>2. written'[op] = written[op]
  BY <1>1, NewEntryFacts, Appended
<1>3. written[op].lsn \in Nat
  BY <1>1, WrittenFacts
<1> QED
  BY <1>1, <1>2, <1>3

\* Nothing that a crash could take is in the active segment.
LEMMA GroupEmpty ==
    ASSUME LogAssumption, NumbersOK', Len(files'[active'].frames) \in Nat,
           files'[active'].synced = Len(files'[active'].frames)
    PROVE  GroupOK'
<1>1. Unsynced(files[active])' = {}
  BY DEF Unsynced
<1>2. Cardinality(Unsynced(files[active])') = 0
  BY <1>1, FS_EmptySet
<1>3. Cardinality(Unsynced(files[active]))' = 0
  BY <1>2
<1>4. Len(files'[active'].frames) - files'[active'].synced <= pending' /\ 0 < SyncGroup
  BY DEF NumbersOK, LogAssumption
<1> QED
  BY <1>3, <1>4 DEF GroupOK

LEMMA AppendStep ==
    ASSUME LogAssumption, LogIInv, append
    PROVE  LogIInv'
<1>0. FilesOK /\ NumbersOK /\ HistoryOK /\ SegmentsOK /\ StageOK /\ OrderOK
  BY DEF LogIInv
<1>1. CheckpointOK /\ TrustOK /\ TrustedLsns /\ WaitingOK /\ ArchiveOK /\ GroupOK
  BY DEF LogIInv
<1>2. /\ up /\ stage = "idle" /\ Written(NewEntry)
      /\ next_lsn' = next_lsn + 1 /\ pending' = pending + 1
      /\ waiting' = waiting \cup {NewEntry.op} /\ written' = Append(written, NewEntry)
      /\ log_durability' = log_durability /\ archived' = archived /\ start_lsn' = start_lsn /\ up' = up
      /\ flushed' = flushed /\ stage' = stage /\ doomed' = doomed /\ catalog_through' = catalog_through
      /\ acked' = acked /\ trusted' = trusted /\ faults' = faults
  BY DEF append
<1>3. up' \in BOOLEAN /\ faults' \in BOOLEAN /\ next_lsn \in Nat /\ up'
  BY <1>0, <1>2 DEF NumbersOK
<1>4. NewEntry \in Frame /\ IsEntry(NewEntry) /\ NewEntry.op = Len(written) + 1 /\ Len(written) \in Nat
  BY <1>0, NewEntryFacts
<1>5. /\ active \in DOMAIN files /\ active \in Listed /\ segs \subseteq Listed
      /\ active \in Nat /\ FileOK(active, files[active])
  BY <1>0, ActiveFacts DEF SegmentsOK
<1>6. NumbersOK'
  BY <1>0, <1>2 DEF NumbersOK
<1>7. StageOK'
  BY <1>0, <1>2 DEF StageOK
<1>8. TrustedLsns'
  BY <1>0, <1>1, <1>2, LsnsGrow
<1>9. ArchiveOK'
  BY <1>1, <1>2 DEF ArchiveOK
<1> DEFINE frames == Append(files[active].frames, NewEntry)
<1>10. CASE Full(frames)
  <2>1. /\ files' = With(With(files, active, File(frames, Len(frames))), next_lsn + 1, File(<<>>, 0))
        /\ segs' = segs \cup {next_lsn + 1}
    BY <1>2, <1>10 DEF Written
  <2>2. Grows(NewEntry, Len(files[active].frames) + 1, {next_lsn + 1}) /\ next_lsn + 1 \in Listed'
    BY <1>0, <1>4, <2>1, RotatedGrows
  <2>3. segs' \subseteq Listed'
    <3>1. Listed \subseteq Listed'
      BY <1>0, <1>2, <1>4, <2>2, NewEntryFacts, Grown
    <3> QED
      BY <1>5, <2>1, <2>2, <3>1
  <2>4. /\ FilesOK' /\ HistoryOK' /\ SegmentsOK' /\ OrderOK' /\ TrustOK' /\ WaitingOK'
        /\ ~ faults => Reaches(catalog_through)'
        /\ active' = next_lsn + 1
    BY <1>0, <1>1, <1>2, <1>3, <2>1, <2>2, <2>3, Writes
  <2>5. GroupOK'
    <3>1. files'[active'].frames = <<>> /\ files'[active'].synced = 0
      BY <2>2, <2>4 DEF Grows
    <3> QED
      BY <1>6, <3>1, GroupEmpty
  <2> QED
    BY <1>2, <1>6, <1>7, <1>8, <1>9, <2>4, <2>5 DEF LogIInv, CheckpointOK
<1>11. CASE ~ Full(frames)
  <2>1. files' = [files EXCEPT ![active].frames = frames] /\ segs' = segs
    BY <1>2, <1>11 DEF Written
  <2>2. files' = [files EXCEPT ![active].frames = Append(@, NewEntry)]
    BY <2>1
  <2>3. Grows(NewEntry, files[active].synced, {})
    BY <1>0, <1>4, <2>2, AppendGrows
  <2>4. /\ Listed \subseteq Listed' /\ Len(files'[active].frames) = Len(files[active].frames) + 1
        /\ files'[active].frames[Len(files[active].frames) + 1] = NewEntry
        /\ \A j \in 1 .. Len(files[active].frames) : files'[active].frames[j] = files[active].frames[j]
    BY <1>0, <1>2, <1>4, <2>3, NewEntryFacts, Grown
  <2>5. segs' \subseteq Listed'
    BY <1>5, <2>1, <2>4
  <2>6. /\ FilesOK' /\ HistoryOK' /\ SegmentsOK' /\ OrderOK' /\ TrustOK' /\ WaitingOK'
        /\ ~ faults => Reaches(catalog_through)'
        /\ active' = active
    BY <1>0, <1>1, <1>2, <1>3, <2>1, <2>3, <2>5, Writes
  <2>7. GroupOK'
    <3>1. files'[active].synced = files[active].synced
      BY <2>3 DEF Grows
    <3>2. Len(files[active].frames) \in Nat /\ files[active].synced \in Nat
      BY <1>5, FileFacts
    <3>3. Unsynced(files[active])' = Unsynced(files[active])
      <4>1. NewEntry.op \notin acked
        BY <1>0, <1>4 DEF HistoryOK
      <4>2. ASSUME NEW op \in acked
            PROVE  (\E j \in files[active].synced + 1 .. Len(files[active].frames) :
                        IsEntry(files[active].frames[j]) /\ files[active].frames[j].op = op)
                   <=> \E j \in files'[active].synced + 1 .. Len(files'[active].frames) :
                          IsEntry(files'[active].frames[j]) /\ files'[active].frames[j].op = op
        <5>1. \A j \in files[active].synced + 1 .. Len(files[active].frames) :
                /\ j \in files'[active].synced + 1 .. Len(files'[active].frames)
                /\ files'[active].frames[j] = files[active].frames[j]
          BY <2>4, <3>1, <3>2
        <5>2. \A j \in files'[active].synced + 1 .. Len(files'[active].frames) :
                \/ j \in files[active].synced + 1 .. Len(files[active].frames)
                \/ files'[active].frames[j] = NewEntry
          BY <2>4, <3>1, <3>2
        <5> QED
          BY <4>1, <4>2, <5>1, <5>2
      <4> QED
        BY <1>2, <2>6, <4>2 DEF Unsynced
    <3>4. Cardinality(Unsynced(files[active]))' = Cardinality(Unsynced(files[active]))
      BY <3>3
    <3>5. pending \in Nat
      BY <1>0 DEF NumbersOK
    <3>6. log_durability = "GroupCommit" /\ ~ faults /\ up =>
             Len(files'[active'].frames) - files'[active'].synced <= pending'
      BY <1>1, <1>2, <2>4, <2>6, <3>1, <3>2, <3>5 DEF GroupOK
    <3> QED
      BY <1>1, <1>2, <3>3, <3>4, <3>6 DEF GroupOK
  <2> QED
    BY <1>2, <1>6, <1>7, <1>8, <1>9, <2>6, <2>7 DEF LogIInv, CheckpointOK
<1> QED
  BY <1>10, <1>11

LEMMA HalfRotatedStep ==
    ASSUME LogAssumption, LogIInv, half_rotated,
           \/ up' = up /\ faults' = TRUE
           \/ up' = FALSE /\ faults' = faults
    PROVE  LogIInv'
<1>0. FilesOK /\ NumbersOK /\ HistoryOK /\ SegmentsOK /\ StageOK /\ OrderOK
  BY DEF LogIInv
<1>1. CheckpointOK /\ TrustOK /\ TrustedLsns /\ WaitingOK /\ ArchiveOK /\ GroupOK
  BY DEF LogIInv
<1> DEFINE frames == Append(files[active].frames, NewEntry)
<1>2. /\ up /\ stage = "idle"
      /\ \E header \in BOOLEAN :
            files' = With(With(files, active, File(frames, Len(frames))),
                          next_lsn + 1, IF header THEN File(<<>>, 0) ELSE NoFile)
      /\ next_lsn' = next_lsn + 1 /\ pending' = pending + 1 /\ waiting' = {}
      /\ written' = Append(written, NewEntry)
      /\ log_durability' = log_durability /\ archived' = archived /\ segs' = segs /\ start_lsn' = start_lsn
      /\ flushed' = flushed /\ stage' = stage /\ doomed' = doomed /\ catalog_through' = catalog_through
      /\ acked' = acked /\ trusted' = trusted
  BY DEF half_rotated
<1>3. up' \in BOOLEAN /\ faults' \in BOOLEAN /\ (~ faults' => ~ faults /\ ~ up')
  BY <1>0, <1>2 DEF NumbersOK
<1>4. NewEntry \in Frame
  BY <1>0, NewEntryFacts
<1>5. segs \subseteq Listed
  BY <1>0 DEF SegmentsOK
<1>6. NumbersOK'
  BY <1>0, <1>2, <1>3 DEF NumbersOK
<1>7. StageOK'
  BY <1>0, <1>2 DEF StageOK
<1>8. TrustedLsns'
  BY <1>0, <1>1, <1>2, LsnsGrow
<1>9. ArchiveOK'
  BY <1>1, <1>2 DEF ArchiveOK
<1>10. PICK g \in {File(<<>>, 0), NoFile} :
          files' = With(With(files, active, File(frames, Len(frames))), next_lsn + 1, g)
  BY <1>2
<1>11. Grows(NewEntry, Len(files[active].frames) + 1, {next_lsn + 1})
  BY <1>0, <1>4, <1>10, RotatedGrows
<1>12. segs' \subseteq Listed'
  <2>1. Listed \subseteq Listed'
    BY <1>0, <1>2, <1>4, <1>11, NewEntryFacts, Grown
  <2> QED
    BY <1>2, <1>5, <2>1
<1>13. /\ FilesOK' /\ HistoryOK' /\ SegmentsOK' /\ OrderOK' /\ TrustOK' /\ WaitingOK'
       /\ ~ faults => Reaches(catalog_through)'
  BY <1>0, <1>1, <1>2, <1>3, <1>11, <1>12, Writes
<1>14. GroupOK'
  BY <1>3 DEF GroupOK
<1> QED
  BY <1>2, <1>3, <1>6, <1>7, <1>8, <1>9, <1>13, <1>14 DEF LogIInv, CheckpointOK

LEMMA CheckpointStep ==
    ASSUME LogAssumption, LogIInv, checkpoint
    PROVE  LogIInv'
<1>0. FilesOK /\ NumbersOK /\ HistoryOK /\ SegmentsOK /\ StageOK /\ OrderOK
  BY DEF LogIInv
<1>1. CheckpointOK /\ TrustOK /\ TrustedLsns /\ WaitingOK /\ ArchiveOK /\ GroupOK
  BY DEF LogIInv
<1> DEFINE frames == Append(files[active].frames, NewEntry)
<1>2. /\ up /\ stage = "idle" /\ waiting = {} /\ flushed' = next_lsn - 1 /\ stage' = "catalog"
      /\ IF Full(frames)
         THEN /\ files' = With(With(files, active, File(frames, Len(frames))), next_lsn + 1, File(<<>>, 0))
              /\ segs' = segs \cup {next_lsn + 1}
         ELSE files' = With(files, active, File(frames, Len(frames))) /\ segs' = segs
      /\ next_lsn' = next_lsn + 1 /\ pending' = 0 /\ written' = Append(written, NewEntry)
      /\ log_durability' = log_durability /\ archived' = archived /\ start_lsn' = start_lsn /\ up' = up
      /\ doomed' = doomed /\ catalog_through' = catalog_through /\ waiting' = waiting
      /\ acked' = acked /\ trusted' = trusted /\ faults' = faults
  BY DEF checkpoint
<1>3. up' \in BOOLEAN /\ faults' \in BOOLEAN /\ next_lsn \in Nat /\ up'
  BY <1>0, <1>2 DEF NumbersOK
<1>4. NewEntry \in Frame
  BY <1>0, NewEntryFacts
<1>5. segs \subseteq Listed
  BY <1>0 DEF SegmentsOK
<1>6. NumbersOK'
  BY <1>0, <1>2 DEF NumbersOK
<1>7. StageOK'
  BY <1>0, <1>2 DEF StageOK
<1>8. TrustedLsns'
  BY <1>0, <1>1, <1>2, LsnsGrow
<1>9. ArchiveOK'
  BY <1>1, <1>2 DEF ArchiveOK
<1>10. PICK new : /\ new = (IF Full(frames) THEN {next_lsn + 1} ELSE {})
  OBVIOUS
<1>11. Grows(NewEntry, Len(files[active].frames) + 1, new) /\ segs' = segs \cup new
       /\ (new # {} => next_lsn + 1 \in Listed')
  <2>1. CASE Full(frames)
    <3>1. files' = With(With(files, active, File(frames, Len(frames))), next_lsn + 1, File(<<>>, 0))
      BY <1>2, <2>1
    <3>2. Grows(NewEntry, Len(files[active].frames) + 1, {next_lsn + 1}) /\ next_lsn + 1 \in Listed'
      BY <1>0, <1>4, <3>1, RotatedGrows
    <3> QED
      BY <1>2, <1>10, <2>1, <3>2
  <2>2. CASE ~ Full(frames)
    <3>1. files' = With(files, active, File(frames, Len(frames)))
      BY <1>2, <2>2
    <3>2. Grows(NewEntry, Len(files[active].frames) + 1, {})
      BY <1>0, <1>4, <3>1, SyncedGrows
    <3> QED
      BY <1>2, <1>10, <2>2, <3>2
  <2> QED
    BY <2>1, <2>2
<1>12. segs' \subseteq Listed'
  <2>1. Listed \subseteq Listed'
    BY <1>0, <1>2, <1>4, <1>11, NewEntryFacts, Grown
  <2>2. new \subseteq {next_lsn + 1}
    BY <1>10
  <2> QED
    BY <1>5, <1>11, <2>1, <2>2
<1>13. /\ FilesOK' /\ HistoryOK' /\ SegmentsOK' /\ OrderOK' /\ TrustOK' /\ WaitingOK'
       /\ ~ faults => Reaches(catalog_through)'
       /\ ~ faults => Reaches(flushed)'
       /\ new = {} => active' = active
       /\ new # {} => active' = next_lsn + 1
  BY <1>0, <1>1, <1>2, <1>3, <1>11, <1>12, Writes
<1>14. GroupOK'
  <2>1. CASE new = {}
    <3>1. FileOK(active, files[active]) /\ active \in Nat
      BY <1>0, ActiveFacts
    <3>2. Len(files[active].frames) \in Nat
      BY <3>1, FileFacts
    <3>3. Len(files'[active].frames) = Len(files[active].frames) + 1
      BY <1>0, <1>2, <1>4, <1>11, NewEntryFacts, Grown
    <3>4. files'[active].synced = Len(files[active].frames) + 1
      BY <1>11 DEF Grows
    <3> QED
      BY <1>6, <1>13, <2>1, <3>2, <3>3, <3>4, GroupEmpty
  <2>2. CASE new # {}
    <3>1. new = {next_lsn + 1}
      BY <1>10, <2>2
    <3>2. files'[active'].frames = <<>> /\ files'[active'].synced = 0
      BY <1>11, <1>13, <3>1 DEF Grows
    <3> QED
      BY <1>6, <3>2, GroupEmpty
  <2> QED
    BY <2>1, <2>2
<1> QED
  BY <1>2, <1>6, <1>7, <1>8, <1>9, <1>13, <1>14 DEF LogIInv, CheckpointOK

LEMMA AppendFailsStep ==
    ASSUME LogAssumption, LogIInv, append_fails
    PROVE  LogIInv'
<1>0. FilesOK /\ NumbersOK /\ HistoryOK /\ SegmentsOK /\ StageOK /\ OrderOK
  BY DEF LogIInv
<1>1. CheckpointOK /\ TrustOK /\ TrustedLsns /\ WaitingOK /\ ArchiveOK /\ GroupOK
  BY DEF LogIInv
<1>2. /\ up /\ stage = "idle" /\ next_lsn' = next_lsn + 1 /\ waiting' = {}
      /\ \/ files' = files /\ faults' = faults
         \/ files' = [files EXCEPT ![active].frames = Append(@, Torn)] /\ faults' = TRUE
      /\ log_durability' = log_durability /\ archived' = archived /\ segs' = segs /\ start_lsn' = start_lsn
      /\ pending' = pending /\ up' = up /\ flushed' = flushed /\ stage' = stage /\ doomed' = doomed
      /\ catalog_through' = catalog_through /\ acked' = acked /\ trusted' = trusted /\ written' = written
  BY DEF append_fails
<1>3. active' = active /\ active \in Nat /\ active \in DOMAIN files /\ \A l \in Listed : l \in Nat
  BY <1>0, <1>2, ActiveFacts DEF active
<1>4. NumbersOK'
  <2>1. faults' \in BOOLEAN
    BY <1>0, <1>2 DEF NumbersOK
  <2>2. next_lsn' \in Nat \ {0} /\ start_lsn' <= next_lsn'
    BY <1>0, <1>2 DEF NumbersOK
  <2> QED
    BY <1>0, <1>2, <2>1, <2>2 DEF NumbersOK
<1>5. HistoryOK' /\ StageOK' /\ ArchiveOK'
  BY <1>0, <1>1, <1>2 DEF HistoryOK, StageOK, ArchiveOK
<1>6. TrustedLsns'
  <2> SUFFICES ASSUME log_durability = "Strict", NEW op \in trusted PROVE written[op].lsn < next_lsn + 1
    BY <1>2 DEF TrustedLsns
  <2>1. written[op].lsn \in Nat
    BY <1>0, WrittenFacts DEF HistoryOK
  <2> QED
    BY <1>0, <1>1, <1>2, <2>1 DEF TrustedLsns, NumbersOK
<1>7. WaitingOK'
  BY <1>2 DEF WaitingOK
<1>8. CASE files' = files /\ faults' = faults
  <2>1. Listed' = Listed /\ FilesOK'
    BY <1>0, <1>8 DEF Listed, FilesOK
  <2>2. SegmentsOK'
    <3>1. FileOK(active, files[active])
      BY <1>0, ActiveFacts
    <3>2. next_lsn \in Nat /\ Below(files[active], next_lsn) /\ next_lsn <= next_lsn + 1
      BY <1>0, <1>2 DEF NumbersOK, SegmentsOK
    <3>3. Below(files[active], next_lsn + 1)
      BY <1>3, <3>1, <3>2, BelowMore
    <3>4. active' <= next_lsn' /\ \A l \in Listed' : l <= next_lsn'
      BY <1>0, <1>2, <1>3, <2>1, <3>2 DEF SegmentsOK
    <3>5. Below(files[active], next_lsn)'
      BY <1>2, <1>3, <1>8, <3>3 DEF Below
    <3> QED
      BY <1>0, <1>2, <1>3, <2>1, <3>4, <3>5 DEF SegmentsOK
  <2>3. OrderOK'
    BY <1>0, <1>2, <1>3, <1>8, <2>1 DEF OrderOK, Sealed, Whole, Below
  <2>4. CheckpointOK'
    BY <1>1, <1>2, <1>8, <2>1 DEF CheckpointOK, Reaches
  <2>5. TrustOK'
    BY <1>1, <1>2, <1>8, <2>1 DEF TrustOK, Kept, Retired
  <2>6. GroupOK'
    BY <1>1, <1>2, <1>3, <1>8 DEF GroupOK, Unsynced
  <2> QED
    BY <1>4, <1>5, <1>6, <1>7, <2>1, <2>2, <2>3, <2>4, <2>5, <2>6 DEF LogIInv
<1>9. CASE files' = [files EXCEPT ![active].frames = Append(@, Torn)] /\ faults' = TRUE
  <2>1. Torn \in Frame /\ ~ IsEntry(Torn)
    BY FrameFacts
  <2>2. Grows(Torn, files[active].synced, {})
    BY <1>0, <1>9, <2>1, AppendGrows
  <2>3. FilesOK' /\ Carried /\ Listed' = Listed /\ Below(files'[active], next_lsn)
    <3>1. (IsEntry(Torn) => Torn.lsn = next_lsn) /\ up
      BY <1>2, <2>1
    <3>2. /\ FilesOK' /\ Carried /\ Listed \subseteq Listed' /\ Listed' \subseteq Listed \cup {}
          /\ (~ IsEntry(Torn) => Below(files'[active], next_lsn))
      BY <1>0, <2>1, <2>2, <3>1, Grown
    <3> QED
      BY <2>1, <3>2
  <2>4. SegmentsOK'
    <3>1. FileOK(active, files'[active])
      BY <1>3, <2>2, <2>3 DEF FilesOK, Grows
    <3>2. next_lsn \in Nat /\ next_lsn <= next_lsn + 1
      BY <1>0 DEF NumbersOK
    <3>3. Below(files'[active], next_lsn + 1)
      BY <1>3, <2>3, <3>1, <3>2, BelowMore
    <3>4. active' <= next_lsn' /\ \A l \in Listed' : l <= next_lsn'
      BY <1>0, <1>2, <1>3, <2>3, <3>2 DEF SegmentsOK
    <3>5. Below(files[active], next_lsn)'
      BY <1>2, <1>3, <3>3 DEF Below
    <3> QED
      BY <1>0, <1>2, <1>3, <2>3, <3>4, <3>5 DEF SegmentsOK
  <2>5. TrustOK'
    BY <1>0, <1>1, <1>2, <1>5, <2>3, TrustCarries
  <2>6. OrderOK' /\ CheckpointOK' /\ GroupOK'
    BY <1>9 DEF OrderOK, CheckpointOK, GroupOK
  <2> QED
    BY <1>4, <1>5, <1>6, <1>7, <2>3, <2>4, <2>5, <2>6 DEF LogIInv
<1> QED
  BY <1>2, <1>8, <1>9

-----------------------------------------------------------------------------
(* Commits                                                                   *)

\* The active segment is synced, and nothing else changes on disk.
LEMMA SyncedFiles ==
    ASSUME LogAssumption, FilesOK, SegmentsOK, files' = Synced
    PROVE  /\ FilesOK' /\ Carried /\ Listed' = Listed /\ DOMAIN files' = DOMAIN files
           /\ \A l \in DOMAIN files : files'[l].frames = files[l].frames
           /\ \A l \in DOMAIN files : l # active => files'[l] = files[l]
           /\ files'[active].synced = Len(files[active].frames)
<1>1. /\ active \in DOMAIN files /\ active \in Nat /\ Listed \subseteq DOMAIN files
      /\ \A l \in DOMAIN files : l \in Nat /\ FileOK(l, files[l])
  BY ActiveFacts
<1>2. /\ DOMAIN files' = DOMAIN files
      /\ \A l \in DOMAIN files : l # active => files'[l] = files[l]
      /\ files'[active] = [files[active] EXCEPT !.synced = Len(files[active].frames)]
  BY <1>1 DEF Synced
<1>3. files[active] \in FileType
  BY <1>1 DEF FileOK
<1>4. Len(files[active].frames) \in Nat /\ files[active].synced \in Nat /\ files[active].synced <= Len(files[active].frames)
  BY <1>1, FileFacts
<1>5. /\ files'[active] \in FileType /\ files'[active].header = files[active].header
      /\ files'[active].frames = files[active].frames
      /\ files'[active].synced = Len(files[active].frames)
  BY <1>2, <1>3, <1>4 DEF FileType
<1>6. FileOK(active, files'[active])
  BY <1>1, <1>4, <1>5 DEF FileOK
<1>7. \A l \in DOMAIN files : FileOK(l, files'[l]) /\ files'[l].header = files[l].header
  BY <1>1, <1>2, <1>5, <1>6
<1>8. FilesOK'
  BY <1>2, <1>7 DEF FilesOK
<1>9. Listed' = Listed
  BY <1>2, <1>7 DEF Listed, list_segments
<1>10. ASSUME NEW l \in Listed PROVE Keeps(files[l], files'[l])
  <2>1. FileOK(l, files[l]) /\ l \in Nat
    BY <1>1
  <2>2. CASE l = active
    BY <1>4, <1>5, <2>2 DEF Keeps
  <2>3. CASE l # active
    <3>1. files'[l] = files[l] /\ files[l].synced \in Nat
      BY <1>1, <1>2, <2>1, <2>3, FileFacts
    <3> QED
      BY <3>1 DEF Keeps
  <2> QED
    BY <2>2, <2>3
<1>11. Carried
  BY <1>9, <1>10 DEF Carried
<1> QED
  BY <1>2, <1>5, <1>7, <1>8, <1>9, <1>11

\* What waits is kept once the active segment is synced, as long as nothing has failed.
LEMMA WaitingKept ==
    ASSUME LogAssumption, FilesOK, NumbersOK, SegmentsOK, OrderOK, HistoryOK, WaitingOK, up, ~ faults,
           files' = Synced, NEW CONSTANT op, op \in waiting, NEW CONSTANT e, e = written[op]
    PROVE  Kept(e)' /\ e.lsn < next_lsn
<1>1. /\ FilesOK' /\ Listed' = Listed /\ DOMAIN files' = DOMAIN files
      /\ \A l \in DOMAIN files : files'[l].frames = files[l].frames
      /\ \A l \in DOMAIN files : l # active => files'[l] = files[l]
      /\ files'[active].synced = Len(files[active].frames)
  BY SyncedFiles
<1>2. PICK l \in Listed : \E j \in 1 .. Len(files[l].frames) : files[l].frames[j] = e
  BY DEF WaitingOK
<1>3. PICK j \in 1 .. Len(files[l].frames) : files[l].frames[j] = e
  BY <1>2
<1>4. l \in DOMAIN files /\ l \in Nat /\ FileOK(l, files[l]) /\ active \in DOMAIN files
  BY ActiveFacts
<1>5. Len(files[l].frames) \in Nat
  BY <1>4, FileFacts
<1>6. Whole(files[l]) /\ files'[l].synced = Len(files[l].frames)
  <2>1. CASE l = active
    BY <1>1, <2>1 DEF OrderOK
  <2>2. CASE l # active
    BY <1>1, <1>4, <2>2, BeforeActive DEF Sealed
  <2> QED
    BY <2>1, <2>2
<1>7. IsEntry(e) /\ e.lsn < next_lsn
  <2>1. Below(files[l], next_lsn)
    BY BeforeActive
  <2> QED
    BY <1>3, <1>6, <2>1 DEF Whole, Below
<1>8. Holds(files'[l], j, e) /\ j \in 1 .. files'[l].synced
  BY <1>1, <1>3, <1>4, <1>5, <1>6 DEF Holds, Whole
<1>9. ASSUME NEW n \in Listed', l < n PROVE e.lsn < n
  <2>1. Below(files[l], n)
    BY <1>1, <1>9 DEF OrderOK
  <2> QED
    BY <1>3, <1>7, <2>1 DEF Below
<1>10. l \in Listed'
  BY <1>1
<1> QED
  BY <1>7, <1>8, <1>9, <1>10 DEF Kept

\* How many numbers an interval holds.
LEMMA IntervalSize ==
    \A a, b \in Int :
        IsFiniteSet(a .. b) /\ Cardinality(a .. b) = IF a > b THEN 0 ELSE b - a + 1
BY FS_Interval

\* The ops of the frames after the synced ones are no more than those frames.
LEMMA UnsyncedAtMost ==
    ASSUME NEW l \in Nat, NEW f, FileOK(l, f), NEW U,
           \A op \in U : \E j \in f.synced + 1 .. Len(f.frames) : f.frames[j].op = op
    PROVE  Cardinality(U) \in Nat /\ Cardinality(U) <= Len(f.frames) - f.synced
<1>1. f.synced \in Nat /\ Len(f.frames) \in Nat /\ f.synced <= Len(f.frames)
  BY FileFacts
<1> DEFINE D == f.synced + 1 .. Len(f.frames)
           op(j) == f.frames[j].op
           I == {op(j) : j \in D}
<1>2. IsFiniteSet(D) /\ Cardinality(D) = Len(f.frames) - f.synced
  <2>1. /\ IsFiniteSet(D)
        /\ Cardinality(D) = IF f.synced + 1 > Len(f.frames) THEN 0 ELSE Len(f.frames) - (f.synced + 1) + 1
    <3>1. PICK a, b : a = f.synced + 1 /\ b = Len(f.frames)
      OBVIOUS
    <3>2. a \in Int /\ b \in Int
      BY <1>1, <3>1
    <3>3. IsFiniteSet(a .. b) /\ Cardinality(a .. b) = IF a > b THEN 0 ELSE b - a + 1
      BY <3>2, IntervalSize
    <3> QED
      BY <3>1, <3>3
  <2> QED
    BY <1>1, <2>1
<1>3. PICK F : F = [j \in D |-> op(j)]
  OBVIOUS
<1>4. I = {F[j] : j \in D} /\ F \in [D -> I] /\ F \in Surjection(D, I)
  BY <1>3 DEF Surjection
<1>5. IsFiniteSet(I) /\ Cardinality(I) <= Cardinality(D)
  BY <1>2, <1>4, FS_Surjection
<1>6. U \subseteq I
  OBVIOUS
<1>7. IsFiniteSet(U) /\ Cardinality(U) <= Cardinality(I)
  BY <1>5, <1>6, FS_Subset
<1>8. Cardinality(U) \in Nat /\ Cardinality(I) \in Nat
  BY <1>5, <1>7, FS_CardinalityType
<1> QED
  BY <1>1, <1>2, <1>5, <1>7, <1>8

LEMMA CommitStep ==
    ASSUME LogAssumption, LogIInv, commit
    PROVE  LogIInv'
<1>0. FilesOK /\ NumbersOK /\ HistoryOK /\ SegmentsOK /\ StageOK /\ OrderOK
  BY DEF LogIInv
<1>1. CheckpointOK /\ TrustOK /\ TrustedLsns /\ WaitingOK /\ ArchiveOK /\ GroupOK
  BY DEF LogIInv
<1>2. /\ up /\ stage = "idle" /\ waiting # {}
      /\ IF SyncsNow THEN files' = Synced /\ pending' = 0 ELSE files' = files /\ pending' = pending
      /\ acked' = acked \cup waiting /\ waiting' = {}
      /\ trusted' = IF faults THEN trusted ELSE trusted \cup waiting
      /\ log_durability' = log_durability /\ archived' = archived /\ segs' = segs /\ next_lsn' = next_lsn
      /\ start_lsn' = start_lsn /\ up' = up /\ flushed' = flushed /\ stage' = stage
      /\ doomed' = doomed /\ catalog_through' = catalog_through /\ written' = written /\ faults' = faults
  BY DEF commit
<1>3. active' = active /\ active \in Nat /\ active \in DOMAIN files /\ active \in Listed
  BY <1>0, <1>2, ActiveFacts DEF active
<1>4. NumbersOK'
  BY <1>0, <1>2 DEF NumbersOK
<1>5. HistoryOK'
  BY <1>0, <1>2 DEF HistoryOK
<1>6. StageOK' /\ ArchiveOK' /\ WaitingOK'
  BY <1>0, <1>1, <1>2 DEF StageOK, ArchiveOK, WaitingOK
<1>7. /\ FilesOK' /\ Carried /\ Listed' = Listed /\ DOMAIN files' = DOMAIN files
      /\ \A l \in DOMAIN files : files'[l].frames = files[l].frames
      /\ \A l \in DOMAIN files : l # active => files'[l] = files[l]
  <2>1. CASE SyncsNow
    <3>1. files' = Synced
      BY <1>2, <2>1
    <3> QED
      BY <1>0, <3>1, SyncedFiles
  <2>2. CASE ~ SyncsNow
    <3>1. files' = files
      BY <1>2, <2>2
    <3>2. FilesOK' /\ Listed' = Listed
      BY <1>0, <3>1 DEF FilesOK, Listed
    <3>3. ASSUME NEW l \in Listed PROVE Keeps(files[l], files'[l])
      <4>1. files[l].synced \in Nat
        BY <1>0, ActiveFacts, FileFacts
      <4> QED
        BY <3>1, <4>1 DEF Keeps
    <3> QED
      BY <3>1, <3>2, <3>3 DEF Carried
  <2> QED
    BY <2>1, <2>2
<1>8. \A l \in DOMAIN files : Sealed(files[l]) => Sealed(files'[l])
  <2>1. CASE SyncsNow
    <3>1. files' = Synced
      BY <1>2, <2>1
    <3>2. files'[active].synced = Len(files[active].frames)
      BY <1>0, <3>1, SyncedFiles
    <3> QED
      BY <1>3, <1>7, <3>2 DEF Sealed, Whole
  <2>2. CASE ~ SyncsNow
    BY <1>2, <2>2
  <2> QED
    BY <2>1, <2>2
<1>9. Listed \subseteq DOMAIN files
  BY <1>0, ActiveFacts
<1>10. SegmentsOK'
  <2>1. Below(files[active], next_lsn)'
    BY <1>0, <1>2, <1>3, <1>7 DEF SegmentsOK, Below
  <2> QED
    BY <1>0, <1>2, <1>3, <1>7, <2>1 DEF SegmentsOK
<1>11. OrderOK'
  <2> SUFFICES ASSUME ~ faults'
               PROVE  /\ \A l, n \in Listed' : l < n => Sealed(files'[l]) /\ Below(files'[l], n)
                      /\ up' => /\ \A l \in segs', old \in Listed' \ segs' : old < l
                                /\ Whole(files'[active'])
    BY DEF OrderOK, Sealed, Whole, Below
  <2>1. \A l \in Listed, n \in Nat : Below(files[l], n) => Below(files'[l], n)
    BY <1>7, <1>9 DEF Below
  <2>2. Listed \subseteq Nat
    BY <1>0, ActiveFacts
  <2>3. \A l, n \in Listed' : l < n => Sealed(files'[l]) /\ Below(files'[l], n)
    BY <1>0, <1>2, <1>7, <1>8, <1>9, <2>1, <2>2 DEF OrderOK
  <2>4. Whole(files'[active'])
    BY <1>0, <1>2, <1>3, <1>7 DEF OrderOK, Whole
  <2>5. \A l \in segs', old \in Listed' \ segs' : old < l
    BY <1>0, <1>2, <1>7 DEF OrderOK
  <2> QED
    BY <2>3, <2>4, <2>5
<1>12. CheckpointOK'
  <2> SUFFICES ASSUME ~ faults PROVE Reaches(catalog_through)'
    BY <1>2 DEF CheckpointOK
  <2>1. PICK n : n = catalog_through
    OBVIOUS
  <2>2. n \in Nat /\ Reaches(n)
    BY <1>0, <1>1, <2>1 DEF CheckpointOK, NumbersOK
  <2>3. Reaches(n)'
    BY <1>0, <1>7, <2>2, ReachesCarries
  <2> QED
    BY <1>2, <2>1, <2>3 DEF Reaches
<1>13. ASSUME log_durability = "Strict", NEW CONSTANT op, op \in trusted'
       PROVE  (Kept(written[op]) \/ Retired(written[op]))' /\ written[op].lsn < next_lsn
  <2>1. PICK e : e = written[op]
    OBVIOUS
  <2>2. CASE op \in trusted
    <3>1. e \in Entry /\ (Kept(e) \/ Retired(e)) /\ e.lsn < next_lsn
      BY <1>0, <1>1, <1>2, <1>13, <2>1, <2>2, WrittenFacts DEF TrustOK, TrustedLsns, HistoryOK
    <3>2. archived \subseteq archived' /\ (e.lsn <= catalog_through => e.lsn <= catalog_through')
      BY <1>2
    <3>3. Listed' \subseteq Listed \cup (IF up THEN {next_lsn + 1} ELSE {})
      BY <1>7
    <3>4. (Kept(e) \/ Retired(e))'
      BY <1>0, <1>7, <3>1, <3>2, <3>3, TrustedCarries
    <3> QED
      BY <1>2, <2>1, <3>1, <3>4
  <2>3. CASE op \notin trusted
    <3>1. ~ faults /\ op \in waiting
      BY <1>2, <1>13, <2>3
    <3>2. files' = Synced
      BY <1>2, <1>13 DEF SyncsNow
    <3>3. Kept(e)' /\ e.lsn < next_lsn
      BY <1>0, <1>1, <1>2, <2>1, <3>1, <3>2, WaitingKept
    <3> QED
      BY <1>2, <2>1, <3>3
  <2> QED
    BY <2>2, <2>3
<1>14. TrustOK'
  <2> SUFFICES ASSUME log_durability = "Strict", NEW CONSTANT op \in trusted'
               PROVE  (Kept(written[op]) \/ Retired(written[op]))'
    BY <1>2 DEF TrustOK
  <2> QED
    BY <1>13
<1>15. TrustedLsns'
  BY <1>2, <1>13 DEF TrustedLsns
<1>16. GroupOK'
  <2> SUFFICES ASSUME log_durability = "GroupCommit", ~ faults, up PROVE GroupOK'
    BY <1>2 DEF GroupOK
  <2>1. FileOK(active, files[active]) /\ FileOK(active, files'[active])
    BY <1>0, <1>3, <1>7 DEF FilesOK
  <2>2. Len(files[active].frames) \in Nat /\ files[active].synced \in Nat
    BY <1>3, <2>1, FileFacts
  <2>3. CASE SyncsNow
    <3>1. files' = Synced
      BY <1>2, <2>3
    <3>2. files'[active].synced = Len(files[active].frames)
      BY <1>0, <3>1, SyncedFiles
    <3> QED
      BY <1>3, <1>4, <1>7, <2>2, <3>2, GroupEmpty
  <2>4. CASE ~ SyncsNow
    <3>1. files' = files /\ pending' = pending /\ ~ (pending >= SyncGroup)
      BY <1>2, <2>4 DEF SyncsNow
    <3>2. /\ Len(files[active].frames) - files[active].synced <= pending
          /\ pending \in Nat /\ SyncGroup \in Nat
      BY <1>0, <1>1 DEF GroupOK, NumbersOK, LogAssumption
    <3>3. /\ Cardinality(Unsynced(files[active]))' \in Nat
          /\ Cardinality(Unsynced(files[active]))' <= Len(files'[active'].frames) - files'[active'].synced
      <4>1. PICK U : U = Unsynced(files[active])'
        OBVIOUS
      <4>2. PICK l, f : l \in Nat /\ l = active' /\ f = files'[active'] /\ FileOK(l, f)
        BY <1>3, <2>1
      <4>3. \A op \in U : \E j \in f.synced + 1 .. Len(f.frames) : f.frames[j].op = op
        BY <4>1, <4>2 DEF Unsynced
      <4>4. Cardinality(U) \in Nat /\ Cardinality(U) <= Len(f.frames) - f.synced
        BY <4>2, <4>3, UnsyncedAtMost
      <4>5. Cardinality(Unsynced(files[active]))' = Cardinality(U)
        BY <4>1
      <4> QED
        BY <4>2, <4>4, <4>5
    <3>4. Cardinality(Unsynced(files[active]))' < SyncGroup
      BY <1>3, <2>2, <3>1, <3>2, <3>3
    <3> QED
      BY <1>3, <3>1, <3>2, <3>4 DEF GroupOK
  <2> QED
    BY <2>3, <2>4
<1> QED
  BY <1>4, <1>5, <1>6, <1>7, <1>10, <1>11, <1>12, <1>14, <1>15, <1>16 DEF LogIInv

\* What says nothing but of the files, and of what was acknowledged, does not change with the rest.
LEMMA SameDisk ==
    ASSUME files' = files, archived' = archived, log_durability' = log_durability, faults' = faults,
           up' = up, active' = active, pending' = pending, acked' = acked,
           FilesOK, ArchiveOK, GroupOK
    PROVE  /\ FilesOK' /\ ArchiveOK' /\ GroupOK' /\ Listed' = Listed
           /\ \A n : Reaches(n)' = Reaches(n)
BY DEF FilesOK, ArchiveOK, GroupOK, Unsynced, Listed, Reaches

\* A commit that fails, and a step that changes nothing.
LEMMA CommitFailsStep ==
    ASSUME LogAssumption, LogIInv,
           \/ commit_fails
           \/ UNCHANGED walVars
    PROVE  LogIInv'
<1>0. FilesOK /\ NumbersOK /\ HistoryOK /\ SegmentsOK /\ StageOK /\ OrderOK
  BY DEF LogIInv
<1>1. CheckpointOK /\ TrustOK /\ TrustedLsns /\ WaitingOK /\ ArchiveOK /\ GroupOK
  BY DEF LogIInv
<1>2. /\ waiting' \subseteq waiting
      /\ log_durability' = log_durability /\ files' = files /\ archived' = archived /\ segs' = segs
      /\ next_lsn' = next_lsn /\ start_lsn' = start_lsn /\ pending' = pending /\ up' = up
      /\ flushed' = flushed /\ stage' = stage /\ doomed' = doomed /\ catalog_through' = catalog_through
      /\ acked' = acked /\ trusted' = trusted /\ written' = written /\ faults' = faults
  BY DEF commit_fails, walVars
<1>3. active' = active
  BY <1>2 DEF active
<1>4. /\ FilesOK' /\ ArchiveOK' /\ GroupOK' /\ Listed' = Listed
      /\ \A n : Reaches(n)' = Reaches(n)
  BY <1>0, <1>1, <1>2, <1>3, SameDisk
<1>5. NumbersOK' /\ HistoryOK' /\ StageOK'
  BY <1>0, <1>2 DEF NumbersOK, HistoryOK, StageOK
<1>6. SegmentsOK' /\ OrderOK'
  BY <1>0, <1>2, <1>3, <1>4 DEF SegmentsOK, OrderOK, Below, Sealed, Whole
<1>7. CheckpointOK'
  BY <1>1, <1>2, <1>4 DEF CheckpointOK, Reaches
<1>8. TrustOK' /\ TrustedLsns' /\ WaitingOK'
  BY <1>1, <1>2, <1>4 DEF TrustOK, TrustedLsns, WaitingOK, Kept, Retired
<1> QED
  BY <1>4, <1>5, <1>6, <1>7, <1>8 DEF LogIInv

-----------------------------------------------------------------------------
(* Checkpoints                                                               *)

LEMMA CatalogStep ==
    ASSUME LogAssumption, LogIInv, catalog_written
    PROVE  LogIInv'
<1>0. FilesOK /\ NumbersOK /\ HistoryOK /\ SegmentsOK /\ StageOK /\ OrderOK
  BY DEF LogIInv
<1>1. CheckpointOK /\ TrustOK /\ TrustedLsns /\ WaitingOK /\ ArchiveOK /\ GroupOK
  BY DEF LogIInv
<1> DEFINE gone == Removable(flushed)
<1>2. /\ up /\ stage = "catalog" /\ catalog_through' = flushed /\ flushed' = 0
      /\ doomed' = gone /\ segs' = segs \ gone /\ stage' = (IF gone = {} THEN "idle" ELSE "discard")
      /\ log_durability' = log_durability /\ files' = files /\ archived' = archived
      /\ next_lsn' = next_lsn /\ start_lsn' = start_lsn /\ pending' = pending /\ up' = up
      /\ waiting' = waiting
      /\ acked' = acked /\ trusted' = trusted /\ written' = written /\ faults' = faults
  BY DEF catalog_written, discard_below
<1>3. /\ active \in segs /\ segs \subseteq Listed /\ Listed \subseteq Nat /\ segs \in SUBSET Nat
      /\ active \in Nat /\ \A l \in segs : l <= active
  BY <1>0, ActiveFacts DEF SegmentsOK
<1>4. gone \subseteq segs /\ \A l \in gone : \E next \in segs : l < next /\ next <= flushed + 1
  BY DEF Removable
<1>5. active \notin gone /\ \A l \in gone : l < active
  <2>1. ASSUME NEW l \in gone PROVE l < active
    <3>1. PICK next \in segs : l < next
      BY <1>4
    <3>2. next <= active /\ next \in Nat /\ l \in Nat
      BY <1>3, <1>4
    <3> QED
      BY <1>3, <3>1, <3>2
  <2>2. ~ (active < active)
    BY <1>3
  <2> QED
    BY <2>1, <2>2
<1>6. active' = active
  <2>1. segs' \in SUBSET Nat /\ active \in segs' /\ \A l \in segs' : l <= active
    BY <1>2, <1>3, <1>5
  <2>2. Max(segs') = active
    BY <2>1, MaxIs
  <2> QED
    BY <2>2 DEF active
<1>7. /\ FilesOK' /\ ArchiveOK' /\ GroupOK' /\ Listed' = Listed
      /\ \A n : Reaches(n)' = Reaches(n)
  BY <1>0, <1>1, <1>2, <1>6, SameDisk
<1>8. NumbersOK' /\ HistoryOK'
  BY <1>0, <1>2 DEF NumbersOK, HistoryOK
<1>9. StageOK'
  BY <1>0, <1>2 DEF StageOK
<1>10. SegmentsOK'
  <2>1. segs' # {} /\ segs' \subseteq Listed' /\ active' <= next_lsn'
    BY <1>0, <1>2, <1>3, <1>5, <1>6, <1>7 DEF SegmentsOK
  <2>2. doomed' \subseteq Listed' \ segs' /\ \A l \in doomed' : l < active'
    BY <1>2, <1>3, <1>4, <1>5, <1>6, <1>7
  <2>3. (\A l \in Listed' : l <= next_lsn') /\ Below(files[active], next_lsn)'
    BY <1>0, <1>2, <1>6, <1>7 DEF SegmentsOK, Below
  <2> QED
    BY <2>1, <2>2, <2>3 DEF SegmentsOK
<1>11. OrderOK'
  <2> SUFFICES ASSUME ~ faults
               PROVE  /\ \A l, n \in Listed : l < n => Sealed(files[l]) /\ Below(files[l], n)
                      /\ \A l \in segs', old \in Listed \ segs' : old < l
                      /\ Whole(files[active])
    BY <1>2, <1>6, <1>7 DEF OrderOK, Sealed, Whole, Below
  <2>1. (\A l, n \in Listed : l < n => Sealed(files[l]) /\ Below(files[l], n)) /\ Whole(files[active])
    BY <1>0, <1>2 DEF OrderOK
  <2>2. ASSUME NEW l \in segs', NEW old \in Listed \ segs' PROVE old < l
    <3>1. l \in segs /\ l \notin gone /\ l \in Nat /\ old \in Nat /\ flushed \in Nat
      BY <1>0, <1>2, <1>3, <2>2 DEF NumbersOK
    <3>2. CASE old \notin segs
      BY <1>0, <1>2, <2>2, <3>1, <3>2 DEF OrderOK
    <3>3. CASE old \in segs
      <4>1. old \in gone
        BY <1>2, <2>2, <3>3
      <4>2. PICK next \in segs : old < next /\ next <= flushed + 1
        BY <1>4, <4>1
      <4>3. next \in Nat /\ ~ (l < next)
        BY <1>3, <3>1, <4>2 DEF Removable
      <4> QED
        BY <3>1, <4>2, <4>3
    <3> QED
      BY <3>2, <3>3
  <2> QED
    BY <2>1, <2>2
<1>12. CheckpointOK'
  BY <1>1, <1>2, <1>7 DEF CheckpointOK, Reaches
<1>13. TrustOK'
  <2> SUFFICES ASSUME log_durability = "Strict", NEW op \in trusted
               PROVE  Kept(written[op])' \/ Retired(written[op])'
    BY <1>2 DEF TrustOK, Kept, Retired
  <2>1. written[op].lsn <= flushed /\ (Kept(written[op]) \/ Retired(written[op]))
    BY <1>1, <1>2 DEF TrustOK, TrustedLsns
  <2> QED
    BY <1>2, <1>7, <2>1 DEF Kept, Retired
<1>14. TrustedLsns'
  BY <1>1, <1>2 DEF TrustedLsns
<1>15. WaitingOK'
  BY <1>1, <1>2, <1>7 DEF WaitingOK
<1> QED
  BY <1>7, <1>8, <1>9, <1>10, <1>11, <1>12, <1>13, <1>14, <1>15 DEF LogIInv

LEMMA DiscardStep ==
    ASSUME LogAssumption, LogIInv, discard_one
    PROVE  LogIInv'
<1>0. FilesOK /\ NumbersOK /\ HistoryOK /\ SegmentsOK /\ StageOK /\ OrderOK
  BY DEF LogIInv
<1>1. CheckpointOK /\ TrustOK /\ TrustedLsns /\ WaitingOK /\ ArchiveOK /\ GroupOK
  BY DEF LogIInv
<1>2. PICK m : m = Min(doomed)
  OBVIOUS
<1>3. /\ up /\ stage = "discard" /\ doomed # {}
      /\ archived' = archived \cup {files[m]} /\ files' = Without(files, {m}) /\ doomed' = doomed \ {m}
      /\ log_durability' = log_durability /\ segs' = segs /\ next_lsn' = next_lsn /\ start_lsn' = start_lsn
      /\ pending' = pending /\ up' = up /\ flushed' = flushed /\ stage' = stage /\ catalog_through' = catalog_through
      /\ waiting' = waiting
      /\ acked' = acked /\ trusted' = trusted /\ written' = written /\ faults' = faults
  BY <1>2 DEF discard_one
<1>4. /\ active \in segs /\ segs \subseteq Listed /\ Listed \subseteq Nat /\ active \in Listed
      /\ active \in Nat /\ \A l \in segs : l <= active
      /\ Listed \subseteq DOMAIN files
      /\ \A l \in DOMAIN files : l \in Nat /\ FileOK(l, files[l])
  BY <1>0, ActiveFacts DEF SegmentsOK
<1>5. m \in doomed /\ m \in Listed \ segs /\ m < active /\ m \in Nat
  <2>1. doomed \in SUBSET Nat /\ doomed \subseteq Listed \ segs /\ \A l \in doomed : l < active
    BY <1>0, <1>4 DEF SegmentsOK
  <2>2. m \in doomed
    BY <1>2, <1>3, <2>1, MinMax
  <2> QED
    BY <1>4, <2>1, <2>2
<1>6. active' = active
  BY <1>3 DEF active
<1>7. DOMAIN files' = DOMAIN files \ {m} /\ \A l \in DOMAIN files \ {m} : files'[l] = files[l]
  BY <1>3 DEF Without
<1>8. FilesOK'
  <2>1. DOMAIN files' \subseteq DOMAIN files
    BY <1>7
  <2> QED
    BY <1>0, <1>7, <2>1 DEF FilesOK
<1>9. Listed' = Listed \ {m}
  BY <1>7 DEF Listed, list_segments
<1>10. \A l \in Listed' : files'[l] = files[l]
  BY <1>4, <1>7, <1>9
<1>11. active \in Listed' /\ files'[active] = files[active]
  BY <1>4, <1>5, <1>9, <1>10
<1>12. NumbersOK' /\ HistoryOK'
  BY <1>0, <1>3 DEF NumbersOK, HistoryOK
<1>13. StageOK'
  BY <1>0, <1>3 DEF StageOK
<1>14. SegmentsOK'
  <2>1. segs' # {} /\ segs' \subseteq Listed' /\ active' <= next_lsn'
    BY <1>0, <1>3, <1>4, <1>5, <1>6, <1>9 DEF SegmentsOK
  <2>2. doomed' \subseteq Listed' \ segs' /\ \A l \in doomed' : l < active'
    BY <1>0, <1>3, <1>6, <1>9 DEF SegmentsOK
  <2>3. (\A l \in Listed' : l <= next_lsn') /\ Below(files[active], next_lsn)'
    BY <1>0, <1>3, <1>6, <1>9, <1>11 DEF SegmentsOK, Below
  <2> QED
    BY <2>1, <2>2, <2>3 DEF SegmentsOK
<1>15. OrderOK'
  <2> SUFFICES ASSUME ~ faults
               PROVE  /\ \A l, n \in Listed' : l < n => Sealed(files'[l]) /\ Below(files'[l], n)
                      /\ \A l \in segs, old \in Listed' \ segs : old < l
                      /\ Whole(files'[active])
    BY <1>3, <1>6 DEF OrderOK, Sealed, Whole, Below
  <2>1. /\ \A l, n \in Listed : l < n => Sealed(files[l]) /\ Below(files[l], n)
        /\ \A l \in segs, old \in Listed \ segs : old < l
        /\ Whole(files[active])
    BY <1>0, <1>3 DEF OrderOK
  <2> QED
    BY <1>9, <1>10, <1>11, <2>1
<1>16. CheckpointOK'
  <2> SUFFICES ASSUME ~ faults PROVE Reaches(catalog_through)'
    BY <1>3 DEF CheckpointOK
  <2>1. PICK l \in Listed :
           \/ catalog_through < l
           \/ \E j \in 1 .. files[l].synced :
                 /\ IsEntry(files[l].frames[j]) /\ catalog_through < files[l].frames[j].lsn
                 /\ \A i \in 1 .. j : IsEntry(files[l].frames[i])
    BY <1>1 DEF CheckpointOK, Reaches
  <2>2. CASE l # m
    BY <1>3, <1>9, <1>10, <2>1, <2>2 DEF Reaches
  <2>3. CASE l = m
    <3>1. catalog_through < active
      <4>0. catalog_through \in Nat
        BY <1>0 DEF NumbersOK
      <4>1. CASE catalog_through < l
        BY <1>4, <1>5, <2>3, <4>0, <4>1
      <4>2. ASSUME NEW j \in 1 .. files[l].synced, IsEntry(files[l].frames[j]), catalog_through < files[l].frames[j].lsn
            PROVE  catalog_through < active
        <5>1. Below(files[l], active)
          BY <1>0, <1>4, <1>5, <2>3 DEF OrderOK
        <5>2. files[l].synced \in Nat /\ Len(files[l].frames) \in Nat /\ files[l].synced <= Len(files[l].frames)
          BY <1>4, FileFacts
        <5>3. j \in 1 .. Len(files[l].frames)
          BY <5>2
        <5>4. files[l].frames[j] \in Frame
          BY <1>4, <5>3, FileFacts
        <5>5. files[l].frames[j].lsn < active /\ files[l].frames[j].lsn \in Nat
          BY <4>2, <5>1, <5>3, <5>4, FrameFacts DEF Below
        <5> QED
          BY <1>4, <4>0, <4>2, <5>5
      <4> QED
        BY <2>1, <4>1, <4>2
    <3> QED
      BY <1>3, <1>11, <3>1 DEF Reaches
  <2> QED
    BY <2>2, <2>3
<1>17. TrustOK'
  <2> SUFFICES ASSUME log_durability = "Strict", NEW op \in trusted
               PROVE  Kept(written[op])' \/ Retired(written[op])'
    BY <1>3 DEF TrustOK, Kept, Retired
  <2>1. PICK e : e = written[op]
    OBVIOUS
  <2>2. e \in Entry /\ e.lsn \in Nat /\ e.lsn <= catalog_through /\ (Kept(e) \/ Retired(e))
    BY <1>0, <1>1, <1>3, <2>1, WrittenFacts DEF TrustOK, TrustedLsns, HistoryOK
  <2>3. e.lsn < m => \E n \in Listed' : e.lsn < n
    BY <1>4, <1>5, <1>11, <2>2
  <2>4. CASE Retired(e)
    <3>1. \E n \in Listed' : e.lsn < n
      BY <1>9, <2>3, <2>4 DEF Retired
    <3>2. \E a \in archived' : \E j \in 1 .. Len(a.frames) : Holds(a, j, e)
      BY <1>3, <2>4 DEF Retired
    <3> QED
      BY <1>3, <2>1, <2>2, <3>1, <3>2 DEF Retired
  <2>5. CASE Kept(e)
    <3>1. PICK l \in Listed : /\ \E j \in 1 .. files[l].synced : Holds(files[l], j, e)
                              /\ \A n \in Listed : l < n => e.lsn < n
      BY <2>5 DEF Kept
    <3>2. CASE l # m
      <4>1. l \in Listed' /\ files'[l] = files[l]
        BY <1>9, <1>10, <3>2
      <4>2. \A n \in Listed' : l < n => e.lsn < n
        BY <1>9, <3>1
      <4>3. \E j \in 1 .. files'[l].synced : Holds(files'[l], j, e)
        BY <3>1, <4>1
      <4> QED
        BY <1>3, <2>1, <4>1, <4>2, <4>3 DEF Kept
    <3>3. CASE l = m
      <4>1. e.lsn < active
        BY <1>4, <1>5, <3>1, <3>3
      <4>2. PICK j \in 1 .. files[m].synced : Holds(files[m], j, e)
        BY <3>1, <3>3
      <4>3. j \in 1 .. Len(files[m].frames) /\ files[m] \in archived'
        BY <1>3, <4>2 DEF Holds
      <4> QED
        BY <1>3, <1>11, <2>1, <2>2, <4>1, <4>2, <4>3 DEF Retired
    <3> QED
      BY <3>2, <3>3
  <2> QED
    BY <2>2, <2>4, <2>5
<1>18. TrustedLsns'
  BY <1>1, <1>3 DEF TrustedLsns
<1>19. WaitingOK'
  BY <1>0, <1>3 DEF WaitingOK, StageOK
<1>20. ArchiveOK'
  <2>1. files[m] \in FileType
    BY <1>4, <1>5 DEF FileOK
  <2> QED
    BY <1>1, <1>3, <2>1 DEF ArchiveOK
<1>21. GroupOK'
  BY <1>1, <1>3, <1>6, <1>11 DEF GroupOK, Unsynced
<1> QED
  BY <1>8, <1>12, <1>13, <1>14, <1>15, <1>16, <1>17, <1>18, <1>19, <1>20, <1>21 DEF LogIInv

\* A discard that fails, and the end of a checkpoint.
LEMMA CheckpointEndStep ==
    ASSUME LogAssumption, LogIInv, discard_fails \/ checkpointed
    PROVE  LogIInv'
<1>0. FilesOK /\ NumbersOK /\ HistoryOK /\ SegmentsOK /\ StageOK /\ OrderOK
  BY DEF LogIInv
<1>1. CheckpointOK /\ TrustOK /\ TrustedLsns /\ WaitingOK /\ ArchiveOK /\ GroupOK
  BY DEF LogIInv
<1>2. /\ up /\ stage = "discard" /\ stage' = "idle" /\ doomed' = {}
      /\ \/ faults' = TRUE /\ start_lsn' = start_lsn
         \/ faults' = faults /\ start_lsn' = Min(segs)
      /\ log_durability' = log_durability /\ files' = files /\ archived' = archived /\ segs' = segs
      /\ next_lsn' = next_lsn /\ pending' = pending /\ up' = up /\ flushed' = flushed
      /\ catalog_through' = catalog_through /\ waiting' = waiting
      /\ acked' = acked /\ trusted' = trusted /\ written' = written
  BY DEF discard_fails, checkpointed
<1>3. /\ active' = active /\ active \in segs /\ segs \in SUBSET Nat /\ active \in Nat
  BY <1>0, <1>2, ActiveFacts DEF active
<1>4. Min(segs) \in Nat /\ Min(segs) <= active
  BY <1>3, MinMax
<1>5. NumbersOK'
  <2>0. active <= next_lsn /\ next_lsn \in Nat /\ start_lsn \in Nat /\ start_lsn <= next_lsn /\ faults \in BOOLEAN
    BY <1>0 DEF NumbersOK, SegmentsOK
  <2>1. start_lsn' \in Nat /\ start_lsn' <= next_lsn' /\ faults' \in BOOLEAN
    <3>1. Min(segs) <= next_lsn
      BY <1>3, <1>4, <2>0
    <3>2. CASE faults' = TRUE /\ start_lsn' = start_lsn
      BY <1>2, <2>0, <3>2
    <3>3. CASE faults' = faults /\ start_lsn' = Min(segs)
      BY <1>2, <1>4, <2>0, <3>1, <3>3
    <3> QED
      BY <1>2, <3>2, <3>3
  <2> QED
    BY <1>0, <1>2, <2>1 DEF NumbersOK
<1>6. FilesOK' /\ Listed' = Listed /\ HistoryOK' /\ ArchiveOK'
  BY <1>0, <1>1, <1>2 DEF FilesOK, Listed, HistoryOK, ArchiveOK
<1>7. StageOK'
  BY <1>0, <1>2 DEF StageOK
<1>8. SegmentsOK'
  BY <1>0, <1>2, <1>3, <1>6 DEF SegmentsOK, Below
<1>9. ~ faults' => ~ faults
  BY <1>2
<1>10. OrderOK'
  BY <1>0, <1>2, <1>3, <1>6, <1>9 DEF OrderOK, Sealed, Whole, Below
<1>11. CheckpointOK'
  BY <1>1, <1>2, <1>6, <1>9 DEF CheckpointOK, Reaches
<1>12. TrustOK' /\ TrustedLsns'
  BY <1>1, <1>2, <1>6 DEF TrustOK, TrustedLsns, Kept, Retired
<1>13. WaitingOK'
  BY <1>1, <1>2, <1>6, <1>9 DEF WaitingOK
<1>14. GroupOK'
  BY <1>1, <1>2, <1>3, <1>9 DEF GroupOK, Unsynced
<1> QED
  BY <1>5, <1>6, <1>7, <1>8, <1>10, <1>11, <1>12, <1>13, <1>14 DEF LogIInv

-----------------------------------------------------------------------------
(* Crashes                                                                   *)

\* One readable file is replaced by another that keeps what was stable in it.
LEMMA Replaced ==
    ASSUME LogAssumption, FilesOK, NEW l \in Listed, NEW g, FileOK(l, g), g.header, Keeps(files[l], g),
           DOMAIN files' = DOMAIN files, files'[l] = g, \A n \in DOMAIN files : n # l => files'[n] = files[n]
    PROVE  FilesOK' /\ Carried /\ Listed' = Listed
<1>1. /\ l \in DOMAIN files /\ files[l].header /\ Listed \subseteq DOMAIN files
      /\ \A n \in DOMAIN files : n \in Nat /\ FileOK(n, files[n])
  BY DEF FilesOK, Listed, list_segments
<1>2. \A n \in DOMAIN files : FileOK(n, files'[n])
  BY <1>1
<1>3. FilesOK'
  BY <1>2 DEF FilesOK
<1>4. Listed' = Listed
  <2>1. \A n \in DOMAIN files : files'[n].header <=> files[n].header
    BY <1>1
  <2>2. Listed' = {n \in DOMAIN files : files'[n].header} /\ Listed = {n \in DOMAIN files : files[n].header}
    BY DEF Listed, list_segments
  <2> QED
    BY <2>1, <2>2
<1>5. ASSUME NEW n \in Listed PROVE Keeps(files[n], files'[n])
  <2>1. CASE n = l
    BY <2>1
  <2>2. CASE n # l
    <3>1. files'[n] = files[n] /\ files[n].synced \in Nat
      BY <1>1, <2>2, FileFacts
    <3> QED
      BY <3>1 DEF Keeps
  <2> QED
    BY <2>1, <2>2
<1> QED
  BY <1>3, <1>4, <1>5 DEF Carried

LEMMA CrashStep ==
    ASSUME LogAssumption, LogIInv, crash
    PROVE  LogIInv'
<1>0. FilesOK /\ NumbersOK /\ HistoryOK /\ SegmentsOK /\ StageOK /\ OrderOK
  BY DEF LogIInv
<1>1. CheckpointOK /\ TrustOK /\ TrustedLsns /\ WaitingOK /\ ArchiveOK /\ GroupOK
  BY DEF LogIInv
<1>2. /\ up /\ up' = FALSE /\ waiting' = {} /\ stage' = "idle" /\ flushed' = 0 /\ doomed' = {}
      /\ \E keep \in files[active].synced .. Len(files[active].frames), torn \in BOOLEAN :
           /\ torn => keep < Len(files[active].frames)
           /\ LET left == SubSeq(files[active].frames, 1, keep) \o (IF torn THEN <<Torn>> ELSE <<>>)
              IN  files' = [files EXCEPT ![active] = File(left, Len(left))]
      /\ log_durability' = log_durability /\ archived' = archived /\ segs' = segs /\ next_lsn' = next_lsn
      /\ start_lsn' = start_lsn /\ pending' = pending /\ catalog_through' = catalog_through
      /\ acked' = acked /\ trusted' = trusted /\ written' = written /\ faults' = faults
  BY DEF crash
<1>3. /\ active' = active /\ active \in DOMAIN files /\ active \in Listed /\ active \in Nat
      /\ FileOK(active, files[active]) /\ files[active].header
      /\ Listed \subseteq DOMAIN files /\ segs \subseteq Listed
  <2>1. active' = active
    BY <1>2 DEF active
  <2>2. segs \subseteq Listed
    BY <1>0 DEF SegmentsOK
  <2> QED
    BY <1>0, <2>1, <2>2, ActiveFacts
<1>4. PICK keep \in files[active].synced .. Len(files[active].frames), tail \in {<<>>, <<Torn>>} :
        \E left : /\ left = SubSeq(files[active].frames, 1, keep) \o tail
                  /\ files' = [files EXCEPT ![active] = File(left, Len(left))]
  <2>1. PICK keep \in files[active].synced .. Len(files[active].frames), torn \in BOOLEAN :
           LET left == SubSeq(files[active].frames, 1, keep) \o (IF torn THEN <<Torn>> ELSE <<>>)
           IN  files' = [files EXCEPT ![active] = File(left, Len(left))]
    BY <1>2
  <2>2. PICK tail \in {<<>>, <<Torn>>} : tail = IF torn THEN <<Torn>> ELSE <<>>
    OBVIOUS
  <2> QED
    BY <2>1, <2>2
<1>5. PICK left : /\ left = SubSeq(files[active].frames, 1, keep) \o tail
                  /\ files' = [files EXCEPT ![active] = File(left, Len(left))]
  BY <1>4
<1>6. /\ files[active].synced \in Nat /\ Len(files[active].frames) \in Nat
      /\ files[active].synced <= Len(files[active].frames)
  BY <1>3, FileFacts
<1>7. keep \in 0 .. Len(files[active].frames) /\ \A j \in 1 .. files[active].synced : j <= keep
  BY <1>6
<1> DEFINE g == File(left, Len(left))
<1>8. FileOK(active, g) /\ Keeps(files[active], g)
  BY <1>3, <1>5, <1>7, FileCut
<1>9. /\ DOMAIN files' = DOMAIN files /\ files'[active] = g
      /\ \A n \in DOMAIN files : n # active => files'[n] = files[n]
  BY <1>3, <1>5
<1>10. g.header
  BY DEF File
<1>11. FilesOK' /\ Carried /\ Listed' = Listed
  <2> HIDE DEF g
  <2> QED
    BY <1>0, <1>3, <1>8, <1>9, <1>10, Replaced
<1>12. NumbersOK' /\ HistoryOK'
  BY <1>0, <1>2 DEF NumbersOK, HistoryOK
<1>13. StageOK' /\ ArchiveOK' /\ WaitingOK'
  BY <1>1, <1>2 DEF StageOK, ArchiveOK, WaitingOK
<1>14. SegmentsOK'
  BY <1>0, <1>2, <1>3, <1>11 DEF SegmentsOK
<1>15. OrderOK'
  <2> SUFFICES ASSUME ~ faults, NEW l \in Listed, NEW n \in Listed, l < n
               PROVE  Sealed(files'[l]) /\ Below(files'[l], n)
    BY <1>2, <1>11 DEF OrderOK, Sealed, Whole, Below
  <2>1. l <= active /\ n <= active /\ l \in Nat /\ n \in Nat
    BY <1>0, <1>2, BeforeActive, ActiveFacts
  <2>2. l # active
    BY <1>3, <2>1
  <2>3. files'[l] = files[l]
    BY <1>3, <1>9, <2>2
  <2>4. Sealed(files[l]) /\ Below(files[l], n)
    BY <1>0 DEF OrderOK
  <2> QED
    BY <2>3, <2>4
<1>16. CheckpointOK'
  <2> SUFFICES ASSUME ~ faults PROVE Reaches(catalog_through)'
    BY <1>2 DEF CheckpointOK
  <2>1. PICK n : n = catalog_through
    OBVIOUS
  <2>2. n \in Nat /\ Reaches(n)
    BY <1>0, <1>1, <2>1 DEF CheckpointOK, NumbersOK
  <2>3. Reaches(n)'
    BY <1>0, <1>11, <2>2, ReachesCarries
  <2> QED
    BY <1>2, <2>1, <2>3 DEF Reaches
<1>17. TrustOK'
  BY <1>0, <1>1, <1>2, <1>11, TrustCarries
<1>18. TrustedLsns' /\ GroupOK'
  BY <1>2 DEF TrustedLsns, GroupOK
<1> QED
  BY <1>11, <1>12, <1>13, <1>14, <1>15, <1>16, <1>17, <1>18 DEF LogIInv

LEMMA OpenStep ==
    ASSUME LogAssumption, LogIInv, open_log
    PROVE  LogIInv'
<1>0. FilesOK /\ NumbersOK /\ HistoryOK /\ SegmentsOK /\ StageOK /\ OrderOK
  BY DEF LogIInv
<1>1. CheckpointOK /\ TrustOK /\ TrustedLsns /\ WaitingOK /\ ArchiveOK /\ GroupOK
  BY DEF LogIInv
<1>2. PICK M, good, lsn :
        /\ M = Max(Listed) /\ good = Intact(files[M].frames) /\ lsn = lsn_after(M, good)
  OBVIOUS
<1>3. /\ ~ up /\ up' = TRUE /\ segs' = Listed
      /\ files' = With(files, M, File(good, Len(good)))
      /\ next_lsn' = lsn
      /\ start_lsn' = IF Min(Listed) <= 1 THEN 0 ELSE Min(Listed)
      /\ pending' = 0
      /\ log_durability' = log_durability /\ archived' = archived /\ flushed' = flushed /\ stage' = stage
      /\ doomed' = doomed /\ catalog_through' = catalog_through /\ waiting' = waiting
      /\ acked' = acked /\ trusted' = trusted /\ written' = written /\ faults' = faults
  BY <1>2 DEF open_log, Listed
<1>4. /\ Listed \in SUBSET Nat /\ Listed # {} /\ Listed \subseteq DOMAIN files
      /\ \A l \in DOMAIN files : l \in Nat /\ FileOK(l, files[l])
      /\ \A l \in Listed : files[l].header
  BY <1>0, ActiveFacts
<1>5. M \in Listed /\ \A l \in Listed : l <= M
  <2>1. PICK m \in Nat : \A l \in DOMAIN files : l <= m
    BY <1>0 DEF FilesOK
  <2> QED
    BY <1>2, <1>4, <2>1, MinMax
<1>6. M \in Nat /\ M \in DOMAIN files /\ FileOK(M, files[M]) /\ files[M].header
  BY <1>4, <1>5
<1> DEFINE g == File(good, Len(good))
<1>7. /\ FileOK(M, g) /\ Keeps(files[M], g) /\ Sealed(g)
      /\ lsn \in Nat /\ M <= lsn /\ Below(g, lsn)
  BY <1>2, <1>6, FileReopened
<1>8. /\ DOMAIN files' = DOMAIN files /\ files'[M] = g
      /\ \A n \in DOMAIN files : n # M => files'[n] = files[n]
  BY <1>3, <1>6 DEF With
<1>9. g.header
  BY DEF File
<1> HIDE DEF g
<1>10. FilesOK' /\ Carried /\ Listed' = Listed
  BY <1>0, <1>5, <1>7, <1>8, <1>9, Replaced
<1>11. active' = M
  <2>1. Max(segs') = M
    BY <1>2, <1>3
  <2> QED
    BY <2>1 DEF active
<1>12. stage = "idle" /\ waiting = {} /\ doomed = {}
  BY <1>0, <1>3 DEF StageOK
<1>13. Min(Listed) \in Nat /\ Min(Listed) <= M
  BY <1>4, <1>5, MinMax
<1>14. NumbersOK'
  <2>1. M # 0
    BY <1>0, <1>6 DEF FilesOK
  <2>2. lsn \in Nat \ {0}
    BY <1>6, <1>7, <2>1
  <2>3. start_lsn' \in Nat /\ start_lsn' <= lsn
    <3>1. Min(Listed) <= lsn
      BY <1>6, <1>7, <1>13
    <3> QED
      BY <1>3, <1>7, <1>13, <3>1
  <2> QED
    BY <1>0, <1>3, <2>2, <2>3 DEF NumbersOK
<1>15. HistoryOK' /\ ArchiveOK'
  BY <1>0, <1>1, <1>3 DEF HistoryOK, ArchiveOK
<1>16. StageOK' /\ WaitingOK'
  BY <1>3, <1>12 DEF StageOK, WaitingOK
<1>17. SegmentsOK'
  <2>1. \A l \in Listed' : l <= next_lsn'
    BY <1>3, <1>4, <1>5, <1>6, <1>7, <1>10
  <2>2. Below(files[active], next_lsn)'
    BY <1>3, <1>7, <1>8, <1>11 DEF Below
  <2>3. segs' # {} /\ segs' \subseteq Listed' /\ active' <= next_lsn' /\ doomed' = {}
    BY <1>3, <1>4, <1>7, <1>10, <1>11, <1>12
  <2> QED
    BY <2>1, <2>2, <2>3 DEF SegmentsOK
<1>18. OrderOK'
  <2> SUFFICES ASSUME ~ faults
               PROVE  /\ \A l, n \in Listed : l < n => Sealed(files'[l]) /\ Below(files'[l], n)
                      /\ Whole(files'[M])
    BY <1>3, <1>10, <1>11 DEF OrderOK, Sealed, Whole, Below
  <2>1. ASSUME NEW l \in Listed, NEW n \in Listed, l < n
        PROVE  Sealed(files'[l]) /\ Below(files'[l], n)
    <3>1. l # M
      BY <1>4, <1>5, <2>1
    <3>2. files'[l] = files[l]
      BY <1>4, <1>8, <3>1
    <3>3. Sealed(files[l]) /\ Below(files[l], n)
      BY <1>0, <2>1 DEF OrderOK
    <3> QED
      BY <3>2, <3>3
  <2>2. Whole(files'[M])
    BY <1>7, <1>8 DEF Sealed
  <2> QED
    BY <2>1, <2>2
<1>19. CheckpointOK'
  <2> SUFFICES ASSUME ~ faults PROVE Reaches(catalog_through)'
    BY <1>3, <1>12 DEF CheckpointOK
  <2>1. PICK n : n = catalog_through
    OBVIOUS
  <2>2. n \in Nat /\ Reaches(n)
    BY <1>0, <1>1, <1>3, <2>1 DEF CheckpointOK, NumbersOK
  <2>3. Reaches(n)'
    BY <1>0, <1>10, <2>2, ReachesCarries
  <2> QED
    BY <1>3, <2>1, <2>3 DEF Reaches
<1>20. TrustOK'
  BY <1>0, <1>1, <1>3, <1>10, TrustCarries
<1>21. TrustedLsns'
  <2> SUFFICES ASSUME log_durability = "Strict", NEW CONSTANT op, op \in trusted
               PROVE  written[op].lsn < next_lsn'
    BY <1>3, <1>12 DEF TrustedLsns
  <2>1. PICK e : e = written[op]
    OBVIOUS
  <2>2. e \in Entry /\ e.lsn \in Nat
    BY <1>0, <2>1, WrittenFacts DEF HistoryOK
  <2>3. Kept(e)' \/ Retired(e)'
    BY <1>3, <1>20, <2>1 DEF TrustOK
  <2>4. CASE Retired(e)'
    <3>1. PICK n \in Listed : e.lsn < n
      BY <1>10, <2>4 DEF Retired
    <3>2. n <= M /\ n \in Nat
      BY <1>4, <1>5
    <3> QED
      BY <1>3, <1>6, <1>7, <2>1, <2>2, <3>1, <3>2
  <2>5. CASE Kept(e)'
    <3>1. PICK l \in Listed : /\ \E j \in 1 .. files'[l].synced : Holds(files'[l], j, e)
                              /\ \A n \in Listed : l < n => e.lsn < n
      BY <1>10, <2>5 DEF Kept, Holds
    <3>2. CASE l = M
      <4>1. PICK j \in 1 .. Len(g.frames) : g.frames[j] = e /\ \A i \in 1 .. j : IsEntry(g.frames[i])
        BY <1>8, <3>1, <3>2 DEF Holds
      <4>2. IsEntry(g.frames[j])
        <5>1. Len(g.frames) \in Nat
          BY <1>6, <1>7, FileFacts
        <5>2. j \in 1 .. j
          BY <5>1
        <5> QED
          BY <4>1, <5>2
      <4> QED
        BY <1>3, <1>7, <2>1, <4>1, <4>2 DEF Below
    <3>3. CASE l # M
      <4>1. l < M
        BY <1>4, <1>5, <1>6, <3>3
      <4>2. e.lsn < M
        BY <1>5, <3>1, <4>1
      <4> QED
        BY <1>3, <1>6, <1>7, <2>1, <2>2, <4>2
    <3> QED
      BY <3>2, <3>3
  <2> QED
    BY <2>3, <2>4, <2>5
<1>22. GroupOK'
  <2>1. files'[active'].synced = Len(files'[active'].frames)
    BY <1>7, <1>8, <1>11 DEF Sealed
  <2>2. Len(files'[active'].frames) \in Nat
    BY <1>6, <1>7, <1>8, <1>11, FileFacts
  <2> QED
    BY <1>14, <2>1, <2>2, GroupEmpty
<1> QED
  BY <1>10, <1>14, <1>15, <1>16, <1>17, <1>18, <1>19, <1>20, <1>21, <1>22 DEF LogIInv

-----------------------------------------------------------------------------
(* The theorem                                                               *)

LEMMA InvariantInitially ==
    ASSUME LogAssumption, LogInit
    PROVE  LogIInv
<1>1. /\ files = [x \in {1} |-> File(<<>>, 0)] /\ segs = {1} /\ archived = {} /\ next_lsn = 1
      /\ start_lsn = 0 /\ pending = 0 /\ up = TRUE /\ flushed = 0 /\ stage = "idle" /\ doomed = {}
      /\ catalog_through = 0 /\ waiting = {} /\ acked = {} /\ trusted = {} /\ written = <<>> /\ faults = FALSE
  BY DEF LogInit
<1>2. /\ files[1] \in FileType /\ files[1].header /\ files[1].frames = <<>> /\ files[1].synced = 0
      /\ Len(files[1].frames) = 0
  BY <1>1 DEF File, FileType
<1>3. FileOK(1, files[1]) /\ Whole(files[1]) /\ Below(files[1], next_lsn)
  BY <1>2 DEF FileOK, Whole, Below
<1>4. FilesOK /\ Listed = {1}
  BY <1>1, <1>2, <1>3 DEF FilesOK, Listed, list_segments
<1>5. active = 1
  <2>1. {1} \in SUBSET Nat /\ 1 \in {1} /\ \A y \in {1} : y <= 1
    OBVIOUS
  <2>2. Max({1}) = 1
    BY <2>1, MaxIs
  <2> QED
    BY <1>1, <2>2 DEF active
<1>6. NumbersOK /\ HistoryOK /\ StageOK /\ ArchiveOK /\ WaitingOK /\ TrustOK /\ TrustedLsns
  <2>1. NumbersOK /\ StageOK /\ ArchiveOK
    <3>1. up \in BOOLEAN /\ faults \in BOOLEAN
      BY <1>1
    <3>2. NumbersOK
      BY <1>1, <3>1 DEF NumbersOK
    <3>3. StageOK
      BY <1>1 DEF StageOK
    <3>4. ArchiveOK
      BY <1>1 DEF ArchiveOK
    <3> QED
      BY <3>2, <3>3, <3>4
  <2>2. HistoryOK
    <3>1. written \in Seq(Entry) /\ Len(written) = 0
      BY <1>1
    <3> QED
      BY <1>1, <3>1 DEF HistoryOK
  <2>3. WaitingOK /\ TrustOK /\ TrustedLsns
    BY <1>1 DEF WaitingOK, TrustOK, TrustedLsns
  <2> QED
    BY <2>1, <2>2, <2>3
<1>7. SegmentsOK /\ OrderOK
  BY <1>1, <1>3, <1>4, <1>5 DEF SegmentsOK, OrderOK
<1>8. CheckpointOK
  <2>1. Reaches(0)
    BY <1>4 DEF Reaches
  <2> QED
    BY <1>1, <2>1 DEF CheckpointOK, Reaches
<1>9. GroupOK
  <2>1. Unsynced(files[active]) = {}
    BY <1>1 DEF Unsynced
  <2>2. Cardinality(Unsynced(files[active])) = 0
    BY <2>1, FS_EmptySet
  <2> QED
    BY <1>1, <1>2, <1>5, <2>2 DEF GroupOK, LogAssumption
<1> QED
  BY <1>4, <1>6, <1>7, <1>8, <1>9 DEF LogIInv

LEMMA InvariantStep ==
    ASSUME LogAssumption, LogIInv, [LogNext]_walVars
    PROVE  LogIInv'
<1>1. CASE append
  BY <1>1, AppendStep
<1>2. CASE append_fails
  BY <1>2, AppendFailsStep
<1>3. CASE rotate_fails
  <2>1. half_rotated /\ up' = up /\ faults' = TRUE
    BY <1>3 DEF rotate_fails
  <2> QED
    BY <2>1, HalfRotatedStep
<1>4. CASE crash_in_rotate
  <2>1. half_rotated /\ up' = FALSE /\ faults' = faults
    BY <1>4 DEF crash_in_rotate
  <2> QED
    BY <2>1, HalfRotatedStep
<1>5. CASE commit
  BY <1>5, CommitStep
<1>6. CASE commit_fails
  BY <1>6, CommitFailsStep
<1>7. CASE checkpoint
  BY <1>7, CheckpointStep
<1>8. CASE catalog_written
  BY <1>8, CatalogStep
<1>9. CASE discard_one
  BY <1>9, DiscardStep
<1>10. CASE discard_fails \/ checkpointed
  BY <1>10, CheckpointEndStep
<1>11. CASE crash
  BY <1>11, CrashStep
<1>12. CASE open_log
  BY <1>12, OpenStep
<1>13. CASE UNCHANGED walVars
  BY <1>13, CommitFailsStep
<1> QED
  BY <1>1, <1>2, <1>3, <1>4, <1>5, <1>6, <1>7, <1>8, <1>9, <1>10, <1>11, <1>12, <1>13 DEF LogNext

\* The invariant of the log, inductive, holds of every reachable state.
THEOREM LogInductive ==
    ASSUME LogAssumption
    PROVE  LogSpec => []LogIInv
<1>1. LogInit => LogIInv
  BY InvariantInitially
<1>2. LogIInv /\ [LogNext]_walVars => LogIInv'
  BY InvariantStep
<1> QED
  BY <1>1, <1>2, PTL DEF LogSpec

\* Whatever is appended, rotated, checkpointed and discarded, wherever the machine stops
\* and whichever writes fail, an entry acknowledged under Strict before the first failure
\* is covered by the checkpoint or found by recovery, the archive and the log hold it,
\* and a crash under GroupCommit loses less than a group (Wal::append, commit,
\* discard_below, open_log).
THEOREM LogKeepsWhatItAcknowledged ==
    ASSUME LogAssumption
    PROVE  LogSpec => []LogInvariant
<1>1. LogSpec => []LogIInv
  BY LogInductive
<1>2. LogIInv => LogInvariant
  BY InvariantOfLog
<1> QED
  BY <1>1, <1>2, PTL


-----------------------------------------------------------------------------
(* Directories: the inductive invariant                                      *)

Stages == {"none", "flushed", "cataloged", "derive", "copy", "copy_catalog", "copy_unique"}
Copying == {"copy_catalog", "copy_unique"}
EntryType == [op : {"put", "field", "index", "checkpoint"}, id : Ids \cup Nat, v : Cells]
FilesType ==
    [identity : Nat, heap : RowsType, log : Seq(EntryType), first : Nat \ {0},
     catalog : CatalogType \cup {Nothing}, derived : CacheType \cup {Nothing}, unique : BOOLEAN]
OpenType ==
    [dir : Dirs, rows : RowsType, index : RowsType, field : BOOLEAN, indexed : BOOLEAN,
     unique : BOOLEAN, short : BOOLEAN, stage : Stages, dest : Dirs \cup {Nothing}, through : Nat]
ToldType == [rows : RowsType, field : BOOLEAN, unique : BOOLEAN, indexed : BOOLEAN]

DirsTyped ==
    /\ dirs \in [Dirs -> FilesType] /\ db \in OpenType \cup {Closed} /\ minted \in Nat
    /\ want \in [Dirs -> ToldType] /\ past \in [Dirs -> Seq(RowsType)]
    /\ murky \subseteq Dirs /\ foreign \subseteq Dirs
    /\ opens \in 0 .. MaxOpens /\ copies \in 0 .. MaxCopies

\* Files f of a directory, whose log has the past p.
Sensible(f, p) ==
    /\ f.identity = 0 => f = NoDir
    /\ Len(f.log) <= MaxDirLog /\ Len(p) = Len(f.log) /\ f.first <= Len(f.log) + 1
    /\ Catalog(f) # Nothing => Catalog(f).through < Len(f.log)
    /\ \A l \in DOMAIN f.log : f.log[l].op = "checkpoint" => f.log[l].id = l - 1

\* The cache is of this database, and of this moment.
Own(f) == f.derived # Nothing /\ f.derived.stamp.identity = f.identity
Current(f) == Own(f) /\ f.derived.stamp.lsn = Len(f.log) + 1

\* The log ends in a checkpoint; and the catalog that a checkpoint writes stands.
Checkpointed(f) == Len(f.log) > 0 /\ f.log[Len(f.log)].op = "checkpoint"
Cataloged(f) == Catalog(f) # Nothing /\ Catalog(f).through + 1 = Len(f.log)

\* A cache is never ahead of the log, and one that is of this moment holds what is in
\* the pages, over which nothing will be replayed.
ExactCache(f) ==
    /\ Own(f) => f.derived.stamp.lsn <= Len(f.log) + 1
    /\ Current(f) => Checkpointed(f) /\ Cataloged(f) /\ f.heap = f.derived.index

\* The database o is open on the files f, idle or in some stage of a checkpoint.
Serves(o, f) ==
    /\ f.identity # 0 /\ o.index = o.rows /\ o.unique = f.unique
    /\ Current(f) => o.rows = f.heap
    /\ o.dest # o.dir
    /\ o.stage \in {"none", "derive"} => o.dest = Nothing
    /\ o.stage # "none" => Checkpointed(f) /\ o.through + 1 = Len(f.log) /\ f.heap = o.rows
    /\ o.stage \notin {"none", "flushed"} => Cataloged(f)
    /\ o.stage \in {"copy"} \cup Copying => o.dest # Nothing

\* g is what has been copied of f so far.
CopyOf(at, f, g) ==
    /\ g.identity = f.identity /\ g.heap = f.heap /\ g.log = f.log /\ g.first = f.first
    /\ g.unique = FALSE /\ g.derived = Nothing
    /\ g.catalog = IF at = "copy_unique" THEN f.catalog ELSE Nothing

\* What the open database o shows is what users were told.
Shows(o, w) == o.rows = w.rows /\ o.indexed = w.indexed

RowsOf(p, l) == IF l = 0 THEN Empty ELSE p[l]
IsPut(e, i) == e.op = "put" /\ e.id = i
After(e, rows) == [i \in Ids |-> IF IsPut(e, i) THEN e.v ELSE rows[i]]

\* Each entry of the log made the rows after it from the rows before it.
Replays(log, p) == \A l \in DOMAIN log : RowsOf(p, l) = After(log[l], RowsOf(p, l - 1))

HasIndex(log, n) == \E l \in DOMAIN log : l <= n /\ log[l].op = "index"

\* Every write of i above the catalog lies below a checkpoint.
Covered(f, i) ==
    \A l \in DOMAIN f.log : l > from_lsn(f) /\ IsPut(f.log[l], i) =>
        \E c \in DOMAIN f.log : l < c /\ f.log[c].op = "checkpoint"

\* The files f hold what users were told, w.
Retained(f, p, w) ==
    /\ f.first <= from_lsn(f) + 1
    /\ w.rows = RowsOf(p, Len(f.log)) /\ w.unique = f.unique
    /\ w.indexed = HasIndex(f.log, Len(f.log))
    /\ Catalog(f) # Nothing => Catalog(f).indexed = HasIndex(f.log, Catalog(f).through)
    /\ Replays(f.log, p)
    /\ \A i \in Ids : Covered(f, i) => f.heap[i] = w.rows[i]

DirsSensible ==
    \A d \in Dirs : dirs[d].identity <= minted /\ Sensible(dirs[d], past[d]) /\ ExactCache(dirs[d])

DirsKept == \A d \in Sound : Retained(dirs[d], past[d], want[d])

OpenSensible ==
    IsOpen =>
        /\ Serves(db, dirs[db.dir])
        /\ db.stage # "none" /\ db.short => db.dir \in murky
        /\ db.stage \in Copying =>
              /\ CopyOf(db.stage, dirs[db.dir], dirs[db.dest])
              /\ past[db.dest] = past[db.dir] /\ db.dest \in murky
        /\ db.dir \in Sound /\ ~db.short => Shows(db, want[db.dir])

RestoreIInv == DirsTyped /\ DirsSensible /\ DirsKept /\ OpenSensible

-----------------------------------------------------------------------------
(* Directories: what a log says                                              *)

\* What is written as nothing is not there, and what is open is open.
LEMMA Things ==
    /\ \A c \in CatalogType : c # Nothing
    /\ \A c \in CacheType : c # Nothing
    /\ \A d \in Dirs : d # Nothing
    /\ \A o \in OpenType : o # Closed /\ o.dir # Nothing
<1>1. \A o \in OpenType : o.dir \in Dirs
  BY DEF OpenType
<1>2. Closed.dir = Nothing
  BY DEF Closed
<1> QED
  BY <1>1, <1>2, NothingAssumption

\* The last of some entries of a log.
LEMMA LastIs ==
    ASSUME NEW n \in Nat, NEW S \in SUBSET (1 .. n), S # {}
    PROVE  LastOf(S) \in S /\ \A k \in S : k <= LastOf(S)
<1>1. \E l \in S : \A k \in S : k <= l
  <2>1. S \in SUBSET Nat /\ \A x \in S : x <= n
    OBVIOUS
  <2> QED
    BY <2>1, GreatestOf
<1> QED
  BY <1>1 DEF LastOf

\* Between two moments no write of i lies between, row i is the same.
LEMMA NoPutNoChange ==
    ASSUME NEW log \in Seq(EntryType), NEW p \in Seq(RowsType), Len(p) = Len(log), Replays(log, p),
           NEW i \in Ids, NEW a \in Nat, NEW b \in a .. Len(log),
           \A l \in a + 1 .. b : ~ IsPut(log[l], i)
    PROVE  RowsOf(p, b)[i] = RowsOf(p, a)[i]
<1> DEFINE S == {k \in a .. b : RowsOf(p, k)[i] # RowsOf(p, a)[i]}
<1>1. SUFFICES ASSUME S # {} PROVE FALSE
  OBVIOUS
<1>2. Len(log) \in Nat /\ DOMAIN log = 1 .. Len(log)
  BY LenProperties
<1>3. PICK k \in S : \A j \in S : k <= j
  <2>1. S \in SUBSET Nat
    BY <1>2
  <2> QED
    BY <1>1, <2>1, LeastOf
<1>4. k > a /\ k - 1 \in a .. b /\ k \in DOMAIN log /\ k \in a + 1 .. b
  BY <1>2, <1>3
<1>5. RowsOf(p, k - 1)[i] = RowsOf(p, a)[i]
  BY <1>3, <1>4
<1>6. RowsOf(p, k)[i] = RowsOf(p, k - 1)[i]
  BY <1>4 DEF Replays, After
<1> QED
  BY <1>3, <1>5, <1>6

\* Two histories of logs that begin alike begin alike.
LEMMA SamePast ==
    ASSUME NEW log \in Seq(EntryType), NEW p \in Seq(RowsType), Len(p) = Len(log), Replays(log, p),
           NEW more \in Seq(EntryType), NEW q \in Seq(RowsType), Len(q) = Len(more), Replays(more, q),
           NEW n \in 0 .. Len(log), n <= Len(more), \A l \in 1 .. n : log[l] = more[l]
    PROVE  RowsOf(p, n) = RowsOf(q, n)
<1> DEFINE S == {k \in 0 .. n : RowsOf(p, k) # RowsOf(q, k)}
<1>1. SUFFICES ASSUME S # {} PROVE FALSE
  OBVIOUS
<1>2. Len(log) \in Nat /\ DOMAIN log = 1 .. Len(log) /\ Len(more) \in Nat /\ DOMAIN more = 1 .. Len(more)
  BY LenProperties
<1>3. PICK k \in S : \A j \in S : k <= j
  <2>1. S \in SUBSET Nat
    BY <1>2
  <2> QED
    BY <1>1, <2>1, LeastOf
<1>4. k > 0 /\ k - 1 \in 0 .. n /\ k \in DOMAIN log /\ k \in DOMAIN more /\ k \in 1 .. n
  BY <1>2, <1>3 DEF RowsOf
<1>5. RowsOf(p, k - 1) = RowsOf(q, k - 1)
  BY <1>3, <1>4
<1>6. RowsOf(p, k) = RowsOf(q, k)
  BY <1>4, <1>5 DEF Replays
<1> QED
  BY <1>3, <1>6

-----------------------------------------------------------------------------
(* Directories: what opening makes of the files                              *)

\* Catalogs, marks and writes that an opening up to t looks at.
LEMMA Sights ==
    ASSUME NEW f \in FilesType, NEW p, Sensible(f, p), NEW t \in Nat
    PROVE  /\ Len(f.log) \in Nat /\ DOMAIN f.log = 1 .. Len(f.log)
           /\ Seen(f, t) \subseteq 1 .. Len(f.log)
           /\ from_lsn(f) \in 0 .. Len(f.log)
           /\ Catalog(f) \in CatalogType \cup {Nothing}
           /\ f.first <= from_lsn(f) + 1 =>
                Seen(f, t) = {l \in DOMAIN f.log : l > from_lsn(f) /\ l <= t}
<1>1. Len(f.log) \in Nat /\ DOMAIN f.log = 1 .. Len(f.log)
  BY LenProperties DEF FilesType
<1>2. Catalog(f) \in CatalogType \cup {Nothing}
  BY DEF Catalog, FilesType
<1>3. from_lsn(f) \in 0 .. Len(f.log)
  BY <1>1, <1>2, Things DEF from_lsn, Sensible, CatalogType
<1>4. f.first \in Nat
  BY DEF FilesType
<1> QED
  BY <1>1, <1>2, <1>3, <1>4 DEF Seen

\* The mark up to which recovery trusts the pages.
LEMMA Mark ==
    ASSUME NEW f \in FilesType, NEW p, Sensible(f, p), NEW t \in Nat
    PROVE  /\ flushed_lsn(f, t) \in Nat
           /\ flushed_lsn(f, t) # 0 =>
                flushed_lsn(f, t) + 1 \in Seen(f, t) /\ f.log[flushed_lsn(f, t) + 1].op = "checkpoint"
           /\ \A c \in Seen(f, t) : f.log[c].op = "checkpoint" => c <= flushed_lsn(f, t) + 1
<1> DEFINE marks == {l \in Seen(f, t) : f.log[l].op = "checkpoint"}
<1>1. CASE marks = {}
  BY <1>1 DEF flushed_lsn
<1>2. CASE marks # {}
  <2>1. LastOf(marks) \in marks /\ \A k \in marks : k <= LastOf(marks)
    BY <1>2, Sights, LastIs
  <2>2. flushed_lsn(f, t) = f.log[LastOf(marks)].id
    BY <1>2 DEF flushed_lsn
  <2>3. f.log[LastOf(marks)].id = LastOf(marks) - 1 /\ LastOf(marks) \in 1 .. Len(f.log)
    BY <2>1, Sights DEF Sensible
  <2>4. \A c \in Seen(f, t) : c \in Nat
    BY Sights
  <2>5. LastOf(marks) \in Nat \ {0} /\ flushed_lsn(f, t) = LastOf(marks) - 1
    BY <2>2, <2>3, Sights
  <2>6. LastOf(marks) \in Seen(f, t) /\ f.log[LastOf(marks)].op = "checkpoint"
    BY <2>1
  <2>7. ASSUME NEW c \in Seen(f, t), f.log[c].op = "checkpoint" PROVE c <= LastOf(marks)
    BY <2>1, <2>7
  <2> HIDE DEF marks
  <2> QED
    BY <2>4, <2>5, <2>6, <2>7
<1> QED
  BY <1>1, <1>2

\* What a row is recovered as: the last write above the mark, or what the pages hold.
LEMMA RowRecovered ==
    ASSUME NEW f \in FilesType, NEW p, Sensible(f, p), NEW t \in Nat, NEW i \in Ids
    PROVE  \/ /\ RecoveredRows(f, t)[i] = f.heap[i]
              /\ \A l \in Seen(f, t) : l > flushed_lsn(f, t) => ~ IsPut(f.log[l], i)
           \/ \E l \in Seen(f, t) :
                /\ l > flushed_lsn(f, t) /\ IsPut(f.log[l], i)
                /\ RecoveredRows(f, t)[i] = f.log[l].v
                /\ \A k \in Seen(f, t) : k > l => ~ IsPut(f.log[k], i)
<1> DEFINE puts == {l \in Seen(f, t) : /\ l > flushed_lsn(f, t)
                                       /\ f.log[l].op = "put" /\ f.log[l].id = i}
<1>1. RecoveredRows(f, t)[i] = IF puts = {} THEN f.heap[i] ELSE f.log[LastOf(puts)].v
  BY DEF RecoveredRows
<1>2. CASE puts = {}
  BY <1>1, <1>2 DEF IsPut
<1>3. CASE puts # {}
  <2>0. flushed_lsn(f, t) \in Nat /\ \A l \in Seen(f, t) : l \in Nat
    BY Sights, Mark
  <2>1. LastOf(puts) \in puts /\ \A k \in puts : k <= LastOf(puts)
    BY <1>3, Sights, LastIs
  <2>2. ASSUME NEW k \in Seen(f, t), k > LastOf(puts) PROVE ~ IsPut(f.log[k], i)
    <3>1. LastOf(puts) \in Nat /\ k \in Nat /\ LastOf(puts) > flushed_lsn(f, t)
      BY <2>0, <2>1
    <3>3. k \notin puts
      <4> HIDE DEF puts
      <4> QED
        BY <2>1, <2>2, <3>1
    <3>2. k > flushed_lsn(f, t)
      <4> HIDE DEF puts
      <4> QED
        BY <2>0, <2>2, <3>1
    <3> QED
      BY <3>2, <3>3 DEF IsPut
  <2> QED
    BY <1>1, <1>3, <2>1, <2>2 DEF IsPut
<1> QED
  BY <1>2, <1>3

LEMMA RecoveredTyped ==
    ASSUME NEW f \in FilesType, NEW p, Sensible(f, p), NEW t \in Nat
    PROVE  RecoveredRows(f, t) \in RowsType
<1>1. ASSUME NEW i \in Ids PROVE RecoveredRows(f, t)[i] \in Cells
  <2>1. f.heap[i] \in Cells
    BY DEF FilesType, RowsType
  <2>2. ASSUME NEW l \in Seen(f, t) PROVE f.log[l].v \in Cells
    <3>1. l \in 1 .. Len(f.log) /\ f.log \in Seq(EntryType)
      BY Sights DEF FilesType
    <3>2. f.log[l] \in EntryType
      BY <3>1
    <3> QED
      BY <3>2 DEF EntryType
  <2> QED
    BY <2>1, <2>2, RowRecovered
<1>2. RecoveredRows(f, t) = [i \in Ids |-> RecoveredRows(f, t)[i]]
  BY DEF RecoveredRows
<1> QED
  BY <1>1, <1>2 DEF RowsType

\* Over a log that ends in a checkpoint, with its catalog, nothing is replayed.
LEMMA NothingReplayed ==
    ASSUME NEW f \in FilesType, NEW p, Sensible(f, p), NEW t \in Nat, Checkpointed(f), Cataloged(f)
    PROVE  RecoveredRows(f, t) = f.heap
<1>1. from_lsn(f) = Len(f.log) - 1 /\ Len(f.log) \in Nat
  BY Sights, Things DEF Cataloged, from_lsn, CatalogType
<1>2. Seen(f, t) \subseteq {Len(f.log)}
  BY <1>1, Sights DEF Seen
<1>3. ASSUME NEW i \in Ids PROVE RecoveredRows(f, t)[i] = f.heap[i]
  BY <1>2, RowRecovered DEF Checkpointed, IsPut
<1>4. f.heap = [i \in Ids |-> f.heap[i]] /\ RecoveredRows(f, t) = [i \in Ids |-> RecoveredRows(f, t)[i]]
  BY DEF RecoveredRows, FilesType, RowsType
<1> QED
  BY <1>3, <1>4

LEMMA RowsTyped ==
    ASSUME NEW p \in Seq(RowsType), NEW l \in 0 .. Len(p)
    PROVE  RowsOf(p, l) \in RowsType
BY DEF RowsOf, Empty, RowsType, Cells

\* The row a write leaves is what it wrote, until the next write of it.
LEMMA LastPut ==
    ASSUME NEW log \in Seq(EntryType), NEW p \in Seq(RowsType), Len(p) = Len(log), Replays(log, p),
           NEW i \in Ids, NEW l \in 1 .. Len(log), IsPut(log[l], i),
           NEW t \in l .. Len(log), \A k \in l + 1 .. t : ~ IsPut(log[k], i)
    PROVE  RowsOf(p, t)[i] = log[l].v
<1>1. Len(log) \in Nat /\ DOMAIN log = 1 .. Len(log)
  BY LenProperties
<1>2. RowsOf(p, t)[i] = RowsOf(p, l)[i]
  BY <1>1, NoPutNoChange
<1>3. RowsOf(p, l) = After(log[l], RowsOf(p, l - 1))
  BY <1>1 DEF Replays
<1> QED
  BY <1>2, <1>3 DEF After

\* Over pages that hold what recovery takes them to hold, opening at t gives the rows after t.
LEMMA StopsAt ==
    ASSUME NEW f \in FilesType, NEW p \in Seq(RowsType), Sensible(f, p), Replays(f.log, p),
           f.first <= from_lsn(f) + 1,
           NEW t \in 0 .. Len(f.log), from_lsn(f) <= t, NEW m,
           m = IF flushed_lsn(f, t) > from_lsn(f) THEN flushed_lsn(f, t) ELSE from_lsn(f),
           f.heap = RowsOf(p, m)
    PROVE  RecoveredRows(f, t) = RowsOf(p, t)
<1>1. Len(f.log) \in Nat /\ Len(p) = Len(f.log) /\ f.log \in Seq(EntryType) /\ t \in Nat
  BY LenProperties DEF FilesType, Sensible
<1>2. /\ from_lsn(f) \in Nat
      /\ Seen(f, t) = {l \in 1 .. Len(f.log) : l > from_lsn(f) /\ l <= t}
  BY <1>1, Sights
<1>3. /\ flushed_lsn(f, t) \in Nat
      /\ flushed_lsn(f, t) # 0 => flushed_lsn(f, t) + 1 \in Seen(f, t)
  BY <1>1, Mark
<1>4. m \in Nat /\ m <= t /\ from_lsn(f) <= m /\ flushed_lsn(f, t) <= m
  BY <1>1, <1>2, <1>3
<1>5. ASSUME NEW i \in Ids PROVE RecoveredRows(f, t)[i] = RowsOf(p, t)[i]
  <2>1. CASE /\ RecoveredRows(f, t)[i] = f.heap[i]
             /\ \A l \in Seen(f, t) : l > flushed_lsn(f, t) => ~ IsPut(f.log[l], i)
    <3>1. ASSUME NEW l \in m + 1 .. t PROVE ~ IsPut(f.log[l], i)
      <4>1. l \in Seen(f, t) /\ l > flushed_lsn(f, t)
        BY <1>1, <1>2, <1>3, <1>4
      <4> QED
        BY <2>1, <4>1
    <3>2. t \in m .. Len(f.log)
      BY <1>1, <1>4
    <3>3. RowsOf(p, t)[i] = RowsOf(p, m)[i]
      BY <1>1, <1>4, <3>1, <3>2, NoPutNoChange
    <3> QED
      BY <2>1, <3>3
  <2>2. ASSUME NEW l \in Seen(f, t), l > flushed_lsn(f, t), IsPut(f.log[l], i),
               RecoveredRows(f, t)[i] = f.log[l].v,
               \A k \in Seen(f, t) : k > l => ~ IsPut(f.log[k], i)
        PROVE  RecoveredRows(f, t)[i] = RowsOf(p, t)[i]
    <3>1. l \in 1 .. Len(f.log) /\ t \in l .. Len(f.log)
      BY <1>1, <1>2
    <3>2. ASSUME NEW k \in l + 1 .. t PROVE ~ IsPut(f.log[k], i)
      <4>1. k \in Seen(f, t) /\ k > l
        BY <1>1, <1>2, <3>1
      <4> QED
        BY <2>2, <4>1
    <3>3. RowsOf(p, t)[i] = f.log[l].v
      BY <1>1, <2>2, <3>1, <3>2, LastPut
    <3> QED
      BY <2>2, <3>3
  <2> QED
    BY <1>1, <2>1, <2>2, RowRecovered
<1>6. RecoveredRows(f, t) \in RowsType /\ RowsOf(p, t) \in RowsType
  BY <1>1, RecoveredTyped, RowsTyped
<1> QED
  BY <1>5, <1>6 DEF RowsType

\* What opening the whole log shows is what was told.
LEMMA OpenTells ==
    ASSUME NEW f \in FilesType, NEW p \in Seq(RowsType), NEW w \in ToldType,
           Sensible(f, p), Retained(f, p, w)
    PROVE  /\ RecoveredRows(f, Len(f.log)) = w.rows
           /\ Indexed(f, Len(f.log)) = w.indexed
<1> DEFINE t == Len(f.log)
<1>1. t \in Nat /\ Len(p) = t /\ f.log \in Seq(EntryType) /\ DOMAIN f.log = 1 .. t
  BY LenProperties DEF FilesType, Sensible
<1>2. /\ from_lsn(f) \in 0 .. t /\ Catalog(f) \in CatalogType \cup {Nothing}
      /\ Seen(f, t) = {l \in 1 .. t : l > from_lsn(f)}
  BY <1>1, Sights DEF Retained
<1>3. /\ flushed_lsn(f, t) \in Nat
      /\ flushed_lsn(f, t) # 0 =>
           flushed_lsn(f, t) + 1 \in Seen(f, t) /\ f.log[flushed_lsn(f, t) + 1].op = "checkpoint"
  BY <1>1, Mark
<1>4. ASSUME NEW i \in Ids PROVE RecoveredRows(f, t)[i] = w.rows[i]
  <2>1. CASE /\ RecoveredRows(f, t)[i] = f.heap[i]
             /\ \A l \in Seen(f, t) : l > flushed_lsn(f, t) => ~ IsPut(f.log[l], i)
    <3>1. ASSUME NEW l \in DOMAIN f.log, l > from_lsn(f), IsPut(f.log[l], i)
          PROVE  \E c \in DOMAIN f.log : l < c /\ f.log[c].op = "checkpoint"
      <4>1. l \in Seen(f, t) /\ l \in Nat
        BY <1>1, <1>2, <3>1
      <4>2. l <= flushed_lsn(f, t)
        BY <1>3, <2>1, <3>1, <4>1
      <4>3. flushed_lsn(f, t) # 0 /\ l < flushed_lsn(f, t) + 1
        BY <1>1, <1>3, <3>1, <4>2
      <4> QED
        BY <1>1, <1>2, <1>3, <4>3
    <3>2. Covered(f, i)
      BY <3>1 DEF Covered
    <3> QED
      BY <2>1, <3>2 DEF Retained
  <2>2. ASSUME NEW l \in Seen(f, t), IsPut(f.log[l], i), RecoveredRows(f, t)[i] = f.log[l].v,
               \A k \in Seen(f, t) : k > l => ~ IsPut(f.log[k], i)
        PROVE  RecoveredRows(f, t)[i] = w.rows[i]
    <3>1. l \in 1 .. Len(f.log) /\ t \in l .. Len(f.log)
      BY <1>1, <1>2
    <3>2. ASSUME NEW k \in l + 1 .. t PROVE ~ IsPut(f.log[k], i)
      <4>1. k \in Seen(f, t) /\ k > l
        BY <1>1, <1>2, <3>1
      <4> QED
        BY <2>2, <4>1
    <3>3. RowsOf(p, t)[i] = f.log[l].v
      BY <1>1, <2>2, <3>1, <3>2, LastPut DEF Retained
    <3> QED
      BY <2>2, <3>3 DEF Retained
  <2> QED
    BY <1>1, <2>1, <2>2, RowRecovered
<1>5. RecoveredRows(f, t) = w.rows
  <2>1. RecoveredRows(f, t) \in RowsType /\ w.rows \in RowsType
    BY <1>1, RecoveredTyped DEF ToldType
  <2> QED
    BY <1>4, <2>1 DEF RowsType
<1>6. Indexed(f, t) = w.indexed
  <2>1. Indexed(f, t) <=> \/ Catalog(f) # Nothing /\ Catalog(f).indexed
                         \/ \E l \in 1 .. t : l > from_lsn(f) /\ f.log[l].op = "index"
    BY <1>2 DEF Indexed
  <2>2. w.indexed = \E l \in 1 .. t : f.log[l].op = "index"
    BY <1>1 DEF Retained, HasIndex
  <2>3. CASE Catalog(f) = Nothing
    BY <1>1, <2>1, <2>2, <2>3 DEF from_lsn, Indexed
  <2>4. CASE Catalog(f) # Nothing
    <3>1. from_lsn(f) = Catalog(f).through
      BY <2>4 DEF from_lsn
    <3>2. Catalog(f).indexed = \E l \in 1 .. t : l <= from_lsn(f) /\ f.log[l].op = "index"
      BY <1>1, <2>4, <3>1 DEF Retained, HasIndex
    <3> QED
      BY <1>1, <1>2, <2>1, <2>2, <2>4, <3>2 DEF Indexed
  <2> QED
    BY <2>3, <2>4
<1> QED
  BY <1>5, <1>6

\* What recovery makes of sensible files is a database that serves them: an index that
\* was adopted from the cache is the one of the rows.
LEMMA OpenedServes ==
    ASSUME NEW d \in Dirs, NEW f \in FilesType, NEW p, Sensible(f, p), ExactCache(f),
           f.identity # 0, NEW t \in Nat
    PROVE  Opened(d, f, t) \in OpenType /\ Serves(Opened(d, f, t), f)
<1> DEFINE rows == RecoveredRows(f, t)
           o == Opened(d, f, t)
<1>1. rows \in RowsType
  BY RecoveredTyped
<1>2. Current(f) => rows = f.heap
  BY NothingReplayed DEF ExactCache
<1>3. Adopted(f, rows) = rows
  <2>1. CASE f.derived # Nothing /\ f.derived.stamp = state_stamp(f, rows)
    <3>1. f.derived.stamp.identity = f.identity /\ f.derived.stamp.lsn = Len(f.log) + 1
      BY <2>1 DEF state_stamp, next_lsn_of
    <3>2. Current(f)
      BY <2>1, <3>1 DEF Current, Own
    <3> QED
      BY <1>2, <2>1, <3>2 DEF Adopted, ExactCache
  <2> QED
    BY <2>1 DEF Adopted
<1>4. Indexed(f, t) \in BOOLEAN /\ DeclaredField(f, t) \in BOOLEAN /\ f.unique \in BOOLEAN
  BY DEF Indexed, DeclaredField, FilesType
<1>5. /\ o.dir = d /\ o.rows = rows /\ o.index = rows /\ o.unique = f.unique
      /\ o.stage = "none" /\ o.dest = Nothing
  BY <1>3 DEF Opened, Constraints
<1>6. o \in OpenType
  <2> HIDE DEF rows
  <2>1. (t < Len(f.log)) \in BOOLEAN
    OBVIOUS
  <2> QED
    BY <1>1, <1>3, <1>4, <2>1 DEF Opened, Constraints, OpenType, Stages, rows
<1>7. Serves(o, f)
  <2> HIDE DEF o, rows
  <2> QED
    BY <1>2, <1>5, Things DEF Serves, Copying
<1> QED
  BY <1>6, <1>7

\* The files f with one more entry e in the log, and other pages and constraints.
WithEntry(f, e, h, u) == [f EXCEPT !.log = Append(f.log, e), !.heap = h, !.unique = u]

\* The files of a directory after one more entry of its log.
LEMMA GrownSensible ==
    ASSUME NEW f \in FilesType, NEW p \in Seq(RowsType), Sensible(f, p), ExactCache(f),
           f.identity # 0, Len(f.log) < MaxDirLog,
           NEW e \in EntryType, e.op = "checkpoint" => e.id = Len(f.log),
           NEW h \in RowsType, NEW u \in BOOLEAN, NEW r \in RowsType,
           NEW g, g = WithEntry(f, e, h, u)
    PROVE  /\ g \in FilesType /\ Append(p, r) \in Seq(RowsType) /\ Sensible(g, Append(p, r))
           /\ ExactCache(g) /\ ~ Current(g)
           /\ Len(g.log) = Len(f.log) + 1 /\ Catalog(g) = Catalog(f) /\ from_lsn(g) = from_lsn(f)
<1>1. /\ Len(f.log) \in Nat /\ f.log \in Seq(EntryType) /\ DOMAIN f.log = 1 .. Len(f.log)
      /\ Len(p) = Len(f.log)
  BY LenProperties DEF FilesType, Sensible
<1>2. /\ Append(f.log, e) \in Seq(EntryType) /\ Len(Append(f.log, e)) = Len(f.log) + 1
      /\ Append(p, r) \in Seq(RowsType) /\ Len(Append(p, r)) = Len(p) + 1
      /\ \A l \in 1 .. Len(f.log) : Append(f.log, e)[l] = f.log[l]
      /\ Append(f.log, e)[Len(f.log) + 1] = e
      /\ DOMAIN Append(f.log, e) = 1 .. Len(f.log) + 1
  BY <1>1, AppendProperties, LenProperties
<1>3. /\ g.log = Append(f.log, e) /\ g.heap = h /\ g.unique = u /\ g.identity = f.identity
      /\ g.first = f.first /\ g.catalog = f.catalog /\ g.derived = f.derived
  BY DEF FilesType, WithEntry
<1>4. g \in FilesType
  BY <1>2 DEF FilesType, WithEntry
<1>5. Catalog(g) = Catalog(f) /\ from_lsn(g) = from_lsn(f)
  BY <1>3 DEF Catalog, from_lsn
<1>6. Sensible(g, Append(p, r))
  <2>1. Catalog(g) # Nothing => Catalog(g).through < Len(g.log)
    <3>1. Catalog(f) # Nothing => Catalog(f).through \in Nat
      BY Sights DEF CatalogType
    <3> QED
      BY <1>1, <1>2, <1>3, <1>5, <3>1 DEF Sensible
  <2>2. ASSUME NEW l \in DOMAIN g.log, g.log[l].op = "checkpoint" PROVE g.log[l].id = l - 1
    <3>1. CASE l \in 1 .. Len(f.log)
      BY <1>1, <1>2, <1>3, <2>2, <3>1 DEF Sensible
    <3>2. CASE l = Len(f.log) + 1
      BY <1>1, <1>2, <1>3, <2>2, <3>2
    <3> QED
      BY <1>1, <1>2, <1>3, <3>1, <3>2
  <2>3. MaxDirLog \in Nat /\ f.first \in Nat
    BY RestoreAssumption DEF FilesType
  <2> QED
    BY <1>1, <1>2, <1>3, <2>1, <2>2, <2>3 DEF Sensible
<1>7. ExactCache(g) /\ ~ Current(g)
  <2>1. Own(f) => f.derived.stamp.lsn \in Nat
    BY DEF Own, FilesType, CacheType
  <2> QED
    BY <1>1, <1>2, <1>3, <2>1 DEF ExactCache, Current, Own
<1> QED
  BY <1>2, <1>3, <1>4, <1>5, <1>6, <1>7

\* ... and they hold what is told once the entry is written; a checkpoint writes the pages.
LEMMA GrownKept ==
    ASSUME NEW f \in FilesType, NEW p \in Seq(RowsType), Sensible(f, p), ExactCache(f),
           f.identity # 0, Len(f.log) < MaxDirLog,
           NEW e \in EntryType, e.op = "checkpoint" => e.id = Len(f.log),
           NEW h \in RowsType, NEW u \in BOOLEAN, NEW w \in ToldType, Retained(f, p, w),
           NEW g, g = WithEntry(f, e, h, u),
           h = IF e.op = "checkpoint" THEN w.rows ELSE f.heap,
           NEW v \in ToldType, v.rows = After(e, w.rows), v.unique = u,
           v.indexed = (w.indexed \/ e.op = "index")
    PROVE  Retained(g, Append(p, v.rows), v)
<1> DEFINE n == Len(f.log)
           q == Append(p, v.rows)
<1>1. /\ n \in Nat /\ f.log \in Seq(EntryType) /\ DOMAIN f.log = 1 .. n /\ Len(p) = n
      /\ v.rows \in RowsType /\ w.rows \in RowsType
  BY LenProperties DEF FilesType, Sensible, ToldType
<1>2. /\ g.log = Append(f.log, e) /\ g.heap = h /\ g.unique = u /\ g.first = f.first
      /\ Len(g.log) = n + 1 /\ Catalog(g) = Catalog(f) /\ from_lsn(g) = from_lsn(f)
  <2>1. /\ g.log = Append(f.log, e) /\ g.heap = h /\ g.unique = u /\ g.first = f.first
        /\ g.catalog = f.catalog /\ g.identity = f.identity
    BY DEF FilesType, WithEntry
  <2>2. Len(g.log) = n + 1
    BY <1>1, <2>1, AppendProperties
  <2> QED
    BY <2>1, <2>2 DEF Catalog, from_lsn
<1>3. /\ \A l \in 1 .. n : g.log[l] = f.log[l]
      /\ g.log[n + 1] = e /\ DOMAIN g.log = 1 .. n + 1
  BY <1>1, <1>2, AppendProperties, LenProperties
<1>4. q[n + 1] = v.rows /\ \A l \in 0 .. n : RowsOf(q, l) = RowsOf(p, l)
  BY <1>1, AppendProperties DEF RowsOf
<1>5. from_lsn(f) \in 0 .. n /\ (Catalog(f) # Nothing => Catalog(f).through \in 0 .. n - 1)
  <2>1. Catalog(f) # Nothing => Catalog(f).through \in Nat
    BY Sights DEF CatalogType
  <2> QED
    BY <1>1, <2>1, Sights DEF Sensible
<1> HIDE DEF n, q
<1>6. RowsOf(q, n + 1) = v.rows /\ RowsOf(q, n) = w.rows
  BY <1>1, <1>4 DEF RowsOf, Retained, n
<1>7. Replays(g.log, q)
  <2>1. ASSUME NEW l \in 1 .. n PROVE RowsOf(q, l) = After(g.log[l], RowsOf(q, l - 1))
    <3>1. l \in 0 .. n /\ l - 1 \in 0 .. n
      BY <1>1
    <3>2. RowsOf(p, l) = After(f.log[l], RowsOf(p, l - 1))
      BY <1>1 DEF Retained, Replays
    <3> QED
      BY <1>3, <1>4, <3>1, <3>2
  <2>2. RowsOf(q, n + 1) = After(g.log[n + 1], RowsOf(q, n + 1 - 1))
    BY <1>1, <1>3, <1>6
  <2> QED
    BY <1>1, <1>3, <2>1, <2>2 DEF Replays
<1>8. v.indexed = HasIndex(g.log, n + 1)
  <2>1. w.indexed = \E l \in 1 .. n : f.log[l].op = "index"
    BY <1>1 DEF Retained, HasIndex, n
  <2>2. HasIndex(g.log, n + 1) <=> (\E l \in 1 .. n : f.log[l].op = "index") \/ e.op = "index"
    BY <1>1, <1>3 DEF HasIndex
  <2> QED
    BY <2>1, <2>2 DEF HasIndex
<1>9. Catalog(g) # Nothing => Catalog(g).indexed = HasIndex(g.log, Catalog(g).through)
  <2>1. Catalog(f) # Nothing => HasIndex(g.log, Catalog(f).through) = HasIndex(f.log, Catalog(f).through)
    <3>1. ASSUME NEW k \in 0 .. n - 1 PROVE HasIndex(g.log, k) = HasIndex(f.log, k)
      <4>1. HasIndex(g.log, k) <=> \E l \in 1 .. n : l <= k /\ f.log[l].op = "index"
        BY <1>1, <1>3 DEF HasIndex
      <4>2. HasIndex(f.log, k) <=> \E l \in 1 .. n : l <= k /\ f.log[l].op = "index"
        BY <1>1 DEF HasIndex
      <4> QED
        BY <4>1, <4>2 DEF HasIndex
    <3> QED
      BY <1>5, <3>1
  <2> QED
    BY <1>2, <2>1 DEF Retained
<1>10. ASSUME NEW i \in Ids, Covered(g, i) PROVE g.heap[i] = v.rows[i]
  <2>1. CASE e.op = "checkpoint"
    BY <1>1, <1>2, <2>1 DEF After, IsPut
  <2>2. CASE IsPut(e, i)
    <3>1. n + 1 \in DOMAIN g.log /\ n + 1 > from_lsn(g) /\ IsPut(g.log[n + 1], i)
      BY <1>1, <1>2, <1>3, <1>5, <2>2
    <3>2. PICK c \in DOMAIN g.log : n + 1 < c
      BY <1>10, <3>1 DEF Covered
    <3> QED
      BY <1>1, <1>3, <3>2
  <2>3. CASE e.op # "checkpoint" /\ ~ IsPut(e, i)
    <3>1. ASSUME NEW l \in DOMAIN f.log, l > from_lsn(f), IsPut(f.log[l], i)
          PROVE  \E c \in DOMAIN f.log : l < c /\ f.log[c].op = "checkpoint"
      <4>1. l \in DOMAIN g.log /\ l > from_lsn(g) /\ IsPut(g.log[l], i)
        BY <1>1, <1>2, <1>3, <3>1
      <4>2. PICK c \in DOMAIN g.log : l < c /\ g.log[c].op = "checkpoint"
        BY <1>10, <4>1 DEF Covered
      <4>3. c # n + 1
        BY <1>3, <2>3, <4>2
      <4> QED
        BY <1>1, <1>3, <4>2, <4>3
    <3>2. f.heap[i] = w.rows[i]
      BY <3>1 DEF Covered, Retained
    <3> QED
      BY <1>2, <2>3, <3>2 DEF After
  <2> QED
    BY <2>1, <2>2, <2>3
<1> QED
  BY <1>2, <1>6, <1>7, <1>8, <1>9, <1>10 DEF Retained, q

\* Files that agree in all but the cache and the identity hold the same.
LEMMA KeptAlike ==
    ASSUME NEW f, NEW g, NEW p, NEW w, Retained(f, p, w),
           g.log = f.log, g.heap = f.heap, g.first = f.first, g.unique = f.unique,
           Catalog(g) = Catalog(f)
    PROVE  Retained(g, p, w)
<1>1. from_lsn(g) = from_lsn(f)
  BY DEF from_lsn
<1> QED
  BY <1>1 DEF Retained, Covered

-----------------------------------------------------------------------------
(* Directories: the invariant is inductive                                   *)

\* An open database, its directory and its files.
LEMMA Opens ==
    ASSUME RestoreIInv, IsOpen
    PROVE  /\ db \in OpenType /\ db.dir \in Dirs /\ dirs[db.dir] \in FilesType
           /\ past[db.dir] \in Seq(RowsType) /\ want[db.dir] \in ToldType
           /\ Sensible(dirs[db.dir], past[db.dir]) /\ ExactCache(dirs[db.dir])
           /\ Serves(db, dirs[db.dir]) /\ dirs[db.dir].identity # 0
           /\ Len(dirs[db.dir].log) \in Nat
<1>1. db \in OpenType /\ db.dir \in Dirs
  BY DEF RestoreIInv, DirsTyped, IsOpen, OpenType
<1>2. dirs[db.dir] \in FilesType /\ past[db.dir] \in Seq(RowsType) /\ want[db.dir] \in ToldType
  BY <1>1 DEF RestoreIInv, DirsTyped
<1>3. Sensible(dirs[db.dir], past[db.dir]) /\ ExactCache(dirs[db.dir]) /\ Serves(db, dirs[db.dir])
  BY <1>1 DEF RestoreIInv, DirsSensible, OpenSensible
<1>4. Len(dirs[db.dir].log) \in Nat
  BY <1>2, LenProperties DEF FilesType
<1> QED
  BY <1>1, <1>2, <1>3, <1>4 DEF Serves

\* A step of an open database on the files of its directory alone: it leaves them sensible
\* and serves them, and what it was to keep it keeps.
LEMMA OwnStep ==
    ASSUME RestoreIInv, IsOpen,
           NEW f \in FilesType, NEW p \in Seq(RowsType), NEW w \in ToldType, NEW o \in OpenType,
           dirs' = [dirs EXCEPT ![db.dir] = f], past' = [past EXCEPT ![db.dir] = p],
           want' = [want EXCEPT ![db.dir] = w], db' = o, o.dir = db.dir, o.short = db.short,
           murky' \in {murky, murky \cup {db.dir}}, UNCHANGED <<minted, foreign, bounds>>,
           f.identity = dirs[db.dir].identity, Sensible(f, p), ExactCache(f), Serves(o, f),
           o.stage \notin Copying, o.stage # "none" /\ db.short => db.dir \in murky',
           db.dir \in Sound' /\ Retained(dirs[db.dir], past[db.dir], want[db.dir])
             /\ (~ db.short => Shows(db, want[db.dir]))
             => Retained(f, p, w) /\ (~ db.short => Shows(o, w))
    PROVE  RestoreIInv'
<1>1. db' \in OpenType /\ IsOpen' /\ db'.dir = db.dir /\ db.dir \in Dirs
  BY Opens, Things DEF IsOpen
<1>2. DirsTyped'
  <2>1. opens' = opens /\ copies' = copies /\ murky' \subseteq Dirs
    BY <1>1 DEF RestoreIInv, DirsTyped, bounds
  <2> QED
    BY <1>1, <2>1 DEF RestoreIInv, DirsTyped
<1>3. /\ dirs'[db.dir] = f /\ past'[db.dir] = p /\ want'[db.dir] = w
      /\ \A d \in Dirs \ {db.dir} : dirs'[d] = dirs[d] /\ past'[d] = past[d] /\ want'[d] = want[d]
  BY <1>1 DEF RestoreIInv, DirsTyped
<1>4. DirsSensible'
  BY <1>1, <1>3 DEF RestoreIInv, DirsSensible
<1>5. Sound' \subseteq Sound
  BY DEF Sound
<1>6. db.dir \in Sound' => Retained(f, p, w) /\ (~ db.short => Shows(o, w))
  <2>1. db.dir \in Sound => Retained(dirs[db.dir], past[db.dir], want[db.dir])
    BY DEF RestoreIInv, DirsKept
  <2>2. db.dir \in Sound /\ ~ db.short => Shows(db, want[db.dir])
    BY DEF RestoreIInv, OpenSensible
  <2> QED
    BY <1>5, <2>1, <2>2
<1>7. DirsKept'
  <2>1. ASSUME NEW d \in Sound' PROVE Retained(dirs'[d], past'[d], want'[d])
    <3>1. CASE d = db.dir
      BY <1>3, <1>6, <2>1, <3>1
    <3>2. CASE d # db.dir
      BY <1>3, <1>5, <2>1, <3>2 DEF RestoreIInv, DirsKept, Sound
    <3> QED
      BY <3>1, <3>2
  <2> QED
    BY <2>1 DEF DirsKept
<1>8. OpenSensible'
  BY <1>1, <1>3, <1>6 DEF OpenSensible
<1> QED
  BY <1>2, <1>4, <1>7, <1>8 DEF RestoreIInv

\* A call that writes an entry and then tells what it has done.
LEMMA LoggedStep ==
    ASSUME RestoreIInv, IsOpen, Len(dirs[db.dir].log) < MaxDirLog,
           NEW e \in EntryType, e.op = "checkpoint" => e.id = Len(dirs[db.dir].log),
           NEW h \in RowsType, NEW u \in BOOLEAN,
           dirs' = [dirs EXCEPT ![db.dir] = WithEntry(dirs[db.dir], e, h, u)],
           h = IF e.op = "checkpoint" THEN db.rows ELSE dirs[db.dir].heap,
           NEW o \in OpenType, db' = o, o.dir = db.dir, o.short = db.short, o.unique = u,
           o.rows = After(e, db.rows), o.index = o.rows, o.indexed = (db.indexed \/ e.op = "index"),
           IF e.op = "checkpoint"
             THEN o.stage = "flushed" /\ o.through = Len(dirs[db.dir].log) /\ o.dest # db.dir
             ELSE o.stage = "none" /\ o.dest = Nothing,
           Told, UNCHANGED <<minted, foreign, bounds>>
    PROVE  RestoreIInv'
<1> DEFINE d == db.dir
           f == dirs[d]
           g == WithEntry(f, e, h, u)
           w == [rows |-> o.rows, field |-> o.field, unique |-> o.unique, indexed |-> o.indexed]
           p == Append(past[d], o.rows)
<1>1. /\ d \in Dirs /\ f \in FilesType /\ past[d] \in Seq(RowsType) /\ want[d] \in ToldType
      /\ Sensible(f, past[d]) /\ ExactCache(f) /\ f.identity # 0 /\ Len(f.log) \in Nat
      /\ Len(f.log) < MaxDirLog /\ (e.op = "checkpoint" => e.id = Len(f.log))
      /\ h = IF e.op = "checkpoint" THEN db.rows ELSE f.heap
      /\ o.dir = d /\ Serves(db, f)
  BY Opens
<1>2. w \in ToldType /\ o.rows \in RowsType
  BY DEF OpenType, ToldType
<1> HIDE DEF d
<1>3. /\ g \in FilesType /\ p \in Seq(RowsType) /\ Sensible(g, p) /\ ExactCache(g) /\ ~ Current(g)
      /\ Len(g.log) = Len(f.log) + 1
  <2> HIDE DEF f
  <2> QED
    BY <1>1, <1>2, GrownSensible
<1>4. /\ dirs'[d] = g /\ db' = o /\ murky' = (IF db.short THEN murky \cup {d} ELSE murky)
      /\ want' = [want EXCEPT ![d] = w] /\ past' = [past EXCEPT ![d] = p]
  <2>1. dirs'[d] = g
    BY <1>1 DEF RestoreIInv, DirsTyped, d
  <2>2. Len(past[d]) = Len(f.log) /\ Len(dirs'[d].log) # Len(past[d])
    <3> HIDE DEF f, g, p
    <3> QED
      BY <1>1, <1>3, <2>1 DEF Sensible
  <2> HIDE DEF f, g
  <2> QED
    BY <1>1, <2>1, <2>2 DEF Told, RestoreIInv, DirsTyped, d
<1>5. g.log = Append(f.log, e) /\ g.heap = h /\ g.unique = u /\ g.identity = f.identity
  BY <1>1 DEF FilesType, WithEntry
<1>6. g.log[Len(g.log)] = e
  <2>1. f.log \in Seq(EntryType)
    BY <1>1 DEF FilesType
  <2> HIDE DEF f, g
  <2> QED
    BY <1>1, <1>3, <1>5, <2>1, AppendProperties
<1>7. Serves(o, g)
  <2>1. e.op = "checkpoint" => Checkpointed(g) /\ o.through + 1 = Len(g.log) /\ g.heap = o.rows
    <3>1. e.op = "checkpoint" => After(e, db.rows) = db.rows
      BY Opens DEF After, IsPut, OpenType, RowsType
    <3>2. e.op = "checkpoint" => o.through = Len(f.log)
      BY DEF d
    <3> HIDE DEF f, g
    <3> QED
      BY <1>1, <1>3, <1>5, <1>6, <3>1, <3>2 DEF Checkpointed
  <2>2. g.identity # 0 /\ o.unique = g.unique /\ ~ Current(g) /\ o.dest # o.dir
    <3>1. o.dest # o.dir
      BY <1>1, Things DEF d
    <3> HIDE DEF f, g
    <3> QED
      BY <1>1, <1>3, <1>5, <3>1
  <2> HIDE DEF f, g
  <2> QED
    BY <2>1, <2>2 DEF Serves, Copying
<1>8. ASSUME d \in Sound', Retained(f, past[d], want[d]), ~ db.short => Shows(db, want[d])
      PROVE  Retained(g, p, w) /\ (~ db.short => Shows(o, w))
  <2>1. ~ db.short
    BY <1>1, <1>4, <1>8 DEF Sound
  <2>2. db.rows = want[d].rows /\ db.indexed = want[d].indexed
    BY <1>8, <2>1 DEF Shows
  <2> HIDE DEF f
  <2>3. w.rows = After(e, want[d].rows) /\ w.unique = u /\ w.indexed = (want[d].indexed \/ e.op = "index")
    BY <2>2
  <2>4. h = IF e.op = "checkpoint" THEN want[d].rows ELSE f.heap
    BY <1>1, <2>2
  <2>5. p = Append(past[d], w.rows)
    OBVIOUS
  <2>6. Retained(g, p, w)
    <3> HIDE DEF f, w, p
    <3> QED
      BY <1>1, <1>2, <1>8, <2>3, <2>4, <2>5, GrownKept DEF g
  <2> QED
    BY <2>6 DEF Shows
<1>9. o.stage # "none" /\ db.short => d \in murky'
  BY <1>4
<1> QED
  <2>1. dirs' = [dirs EXCEPT ![d] = g] /\ o.stage \notin Copying /\ g.identity = dirs[d].identity
    BY <1>5 DEF Copying, d
  <2>2. /\ murky' \in {murky, murky \cup {d}}
        /\ d \in Sound' /\ Retained(dirs[d], past[d], want[d]) /\ (~ db.short => Shows(db, want[d]))
             => Retained(g, p, w) /\ (~ db.short => Shows(o, w))
    BY <1>4, <1>8
  <2> HIDE DEF f, g, w, p
  <2> QED
    BY <1>1, <1>2, <1>3, <1>4, <1>7, <1>9, <2>1, <2>2, OwnStep DEF d

\* What a call leaves of the bounds, and that its marks and writes are entries.
LEMMA Marks ==
    /\ \A n \in Nat : /\ MarkEntry("field", n) \in EntryType /\ MarkEntry("checkpoint", n) \in EntryType
                      /\ MarkEntry("index", n) \in EntryType
    /\ \A i \in Ids, v \in Cells : PutEntry(i, v) \in EntryType
    /\ \A op, x : MarkEntry(op, x).op = op /\ MarkEntry(op, x).id = x
    /\ \A i, v : PutEntry(i, v).op = "put" /\ PutEntry(i, v).id = i /\ PutEntry(i, v).v = v
BY DEF MarkEntry, PutEntry, EntryType, Cells

LEMMA PutKeepsInv ==
    ASSUME RestoreIInv, NEW i \in Ids, NEW v \in Cells, put(i, v) PROVE RestoreIInv'
<1> DEFINE f == dirs[db.dir]
           o == [db EXCEPT !.rows[i] = v, !.index[i] = v]
<1>1. IsOpen /\ db.stage = "none" /\ Len(f.log) < MaxDirLog
  BY DEF put, Free, Room
<1>2. f \in FilesType /\ db \in OpenType /\ db.dir \in Dirs /\ Serves(db, f)
  BY <1>1, Opens
<1>3. f.heap \in RowsType /\ f.unique \in BOOLEAN
  BY <1>2 DEF FilesType
<1>4. dirs' = [dirs EXCEPT ![db.dir] = WithEntry(f, PutEntry(i, v), f.heap, f.unique)]
  <2>1. dirs \in [Dirs -> FilesType]
    BY DEF RestoreIInv, DirsTyped
  <2>2. [f EXCEPT !.log = Append(f.log, PutEntry(i, v))] = WithEntry(f, PutEntry(i, v), f.heap, f.unique)
    BY <1>2 DEF WithEntry, FilesType
  <2> QED
    BY <2>1, <2>2 DEF put, Logged
<1>5. PutEntry(i, v) \in EntryType /\ PutEntry(i, v).op = "put"
  BY Marks
<1>6. /\ o \in OpenType /\ o.dir = db.dir /\ o.short = db.short /\ o.unique = db.unique
      /\ o.indexed = db.indexed /\ o.stage = db.stage /\ o.dest = db.dest
      /\ o.rows = [db.rows EXCEPT ![i] = v] /\ o.index = [db.index EXCEPT ![i] = v]
  BY <1>2 DEF OpenType, RowsType
<1>7. o.rows = After(PutEntry(i, v), db.rows) /\ o.index = o.rows
  <2>1. db.rows \in [Ids -> Cells] /\ db.index = db.rows
    BY <1>2 DEF OpenType, RowsType, Serves
  <2>2. \A j \in Ids : IsPut(PutEntry(i, v), j) <=> j = i
    BY DEF PutEntry, IsPut
  <2> QED
    BY <1>6, <2>1, <2>2, Marks DEF After
<1>8. db.dest = Nothing /\ db.unique = f.unique
  BY <1>1, <1>2 DEF Serves
<1>9. db' = o /\ Told /\ UNCHANGED <<minted, foreign, bounds>>
  BY DEF put
<1>10. /\ PutEntry(i, v).op = "checkpoint" => PutEntry(i, v).id = Len(f.log)
       /\ f.heap = IF PutEntry(i, v).op = "checkpoint" THEN db.rows ELSE f.heap
       /\ o.indexed = (db.indexed \/ PutEntry(i, v).op = "index")
       /\ IF PutEntry(i, v).op = "checkpoint"
            THEN o.stage = "flushed" /\ o.through = Len(f.log) /\ o.dest # db.dir
            ELSE o.stage = "none" /\ o.dest = Nothing
  <2>1. db.indexed \in BOOLEAN
    BY <1>2 DEF OpenType
  <2> HIDE DEF o, f
  <2> QED
    BY <1>1, <1>5, <1>6, <1>8, <2>1
<1>11. o.unique = f.unique
  BY <1>6, <1>8
<1> HIDE DEF o
<1> QED
  BY <1>1, <1>3, <1>4, <1>5, <1>6, <1>7, <1>9, <1>10, <1>11, LoggedStep

LEMMA DeclareKeepsInv ==
    ASSUME RestoreIInv, NEW on \in BOOLEAN, declare_cluster_field(on) PROVE RestoreIInv'
<1> DEFINE f == dirs[db.dir]
           o == [db EXCEPT !.field = on]
           e == MarkEntry("field", IF on THEN 1 ELSE 0)
<1>1. IsOpen /\ db.stage = "none" /\ Len(f.log) < MaxDirLog
  BY DEF declare_cluster_field, Free, Room
<1>2. f \in FilesType /\ db \in OpenType /\ db.dir \in Dirs /\ Serves(db, f)
  BY <1>1, Opens
<1>3. f.heap \in RowsType /\ f.unique \in BOOLEAN
  BY <1>2 DEF FilesType
<1>4. dirs' = [dirs EXCEPT ![db.dir] = WithEntry(f, e, f.heap, f.unique)]
  <2>1. dirs \in [Dirs -> FilesType]
    BY DEF RestoreIInv, DirsTyped
  <2> HIDE DEF e
  <2>2. [f EXCEPT !.log = Append(f.log, e)] = WithEntry(f, e, f.heap, f.unique)
    BY <1>2 DEF WithEntry, FilesType
  <2>3. Logged(e)
    BY DEF declare_cluster_field, e
  <2> QED
    BY <2>1, <2>2, <2>3 DEF Logged
<1>5. e \in EntryType /\ e.op = "field"
  BY Marks
<1>6. /\ o \in OpenType /\ o.dir = db.dir /\ o.short = db.short /\ o.unique = db.unique
      /\ o.indexed = db.indexed /\ o.stage = db.stage /\ o.dest = db.dest
      /\ o.rows = db.rows /\ o.index = db.index
  BY <1>2 DEF OpenType
<1>7. o.rows = After(e, db.rows) /\ o.index = o.rows
  <2>1. db.rows \in [Ids -> Cells] /\ db.index = db.rows
    BY <1>2 DEF OpenType, RowsType, Serves
  <2> QED
    BY <1>5, <1>6, <2>1 DEF After, IsPut
<1>8. db.dest = Nothing /\ db.unique = f.unique
  BY <1>1, <1>2 DEF Serves
<1>9. db' = o /\ Told /\ UNCHANGED <<minted, foreign, bounds>>
  BY DEF declare_cluster_field
<1>10. /\ e.op = "checkpoint" => e.id = Len(f.log)
       /\ f.heap = IF e.op = "checkpoint" THEN db.rows ELSE f.heap
       /\ o.indexed = (db.indexed \/ e.op = "index")
       /\ IF e.op = "checkpoint"
            THEN o.stage = "flushed" /\ o.through = Len(f.log) /\ o.dest # db.dir
            ELSE o.stage = "none" /\ o.dest = Nothing
  <2>1. db.indexed \in BOOLEAN
    BY <1>2 DEF OpenType
  <2> HIDE DEF o, f, e
  <2> QED
    BY <1>1, <1>5, <1>6, <1>8, <2>1
<1>11. o.unique = f.unique
  BY <1>6, <1>8
<1> HIDE DEF o, e
<1> QED
  BY <1>1, <1>3, <1>4, <1>5, <1>6, <1>7, <1>9, <1>10, <1>11, LoggedStep

LEMMA BeginKeepsInv ==
    ASSUME RestoreIInv, NEW dest \in Dirs \cup {Nothing}, dest # db.dir, begin_checkpoint(dest)
    PROVE  RestoreIInv'
<1> DEFINE f == dirs[db.dir]
           e == MarkEntry("checkpoint", Len(f.log))
           o == [db EXCEPT !.stage = "flushed", !.dest = dest, !.through = Len(f.log)]
<1>1. IsOpen /\ db.stage = "none" /\ Len(f.log) < MaxDirLog
  BY DEF begin_checkpoint, Free, Room
<1>2. f \in FilesType /\ db \in OpenType /\ db.dir \in Dirs /\ Serves(db, f) /\ Len(f.log) \in Nat
  BY <1>1, Opens
<1>3. db.rows \in RowsType /\ f.unique \in BOOLEAN
  BY <1>2 DEF FilesType, OpenType
<1>4. dirs' = [dirs EXCEPT ![db.dir] = WithEntry(f, e, db.rows, f.unique)]
  <2>1. dirs \in [Dirs -> FilesType]
    BY DEF RestoreIInv, DirsTyped
  <2>2. dirs' = [dirs EXCEPT ![db.dir].heap = db.rows, ![db.dir].log = Append(@, e)]
    BY DEF begin_checkpoint
  <2> HIDE DEF e
  <2>3. [f EXCEPT !.heap = db.rows, !.log = Append(f.log, e)] = WithEntry(f, e, db.rows, f.unique)
    BY <1>2 DEF WithEntry, FilesType
  <2>4. dirs' = [dirs EXCEPT ![db.dir] = [f EXCEPT !.heap = db.rows, !.log = Append(f.log, e)]]
    BY <1>2, <2>1, <2>2 DEF FilesType
  <2> QED
    BY <2>3, <2>4
<1>5. e \in EntryType /\ e.op = "checkpoint" /\ e.id = Len(f.log)
  BY <1>2, Marks
<1>6. /\ o \in OpenType /\ o.dir = db.dir /\ o.short = db.short /\ o.unique = db.unique
      /\ o.indexed = db.indexed /\ o.stage = "flushed" /\ o.dest = dest /\ o.through = Len(f.log)
      /\ o.rows = db.rows /\ o.index = db.index
  BY <1>2 DEF OpenType, Stages
<1>7. o.rows = After(e, db.rows) /\ o.index = o.rows
  <2>1. db.rows \in [Ids -> Cells] /\ db.index = db.rows
    BY <1>2 DEF OpenType, RowsType, Serves
  <2> QED
    BY <1>5, <1>6, <2>1 DEF After, IsPut
<1>8. db.unique = f.unique
  BY <1>1, <1>2 DEF Serves
<1>9. db' = o /\ Told /\ UNCHANGED <<minted, foreign, bounds>>
  BY DEF begin_checkpoint
<1>10. /\ e.op = "checkpoint" => e.id = Len(f.log)
       /\ db.rows = IF e.op = "checkpoint" THEN db.rows ELSE f.heap
       /\ o.indexed = (db.indexed \/ e.op = "index")
       /\ IF e.op = "checkpoint"
            THEN o.stage = "flushed" /\ o.through = Len(f.log) /\ o.dest # db.dir
            ELSE o.stage = "none" /\ o.dest = Nothing
  <2>1. db.indexed \in BOOLEAN
    BY <1>2 DEF OpenType
  <2> HIDE DEF o, f, e
  <2> QED
    BY <1>1, <1>5, <1>6, <1>8, <2>1
<1>11. o.unique = f.unique
  BY <1>6, <1>8
<1> HIDE DEF o, e
<1> QED
  BY <1>1, <1>3, <1>4, <1>5, <1>6, <1>7, <1>9, <1>10, <1>11, LoggedStep

\* A call that changes the constraints alone and tells of it.
LEMMA UniqueStep ==
    ASSUME RestoreIInv, Free, NEW u \in BOOLEAN,
           dirs' = [dirs EXCEPT ![db.dir] = write_constraints(dirs[db.dir], u)],
           db' = [db EXCEPT !.unique = u], Told, UNCHANGED <<minted, foreign, bounds>>
    PROVE  RestoreIInv'
<1> DEFINE d == db.dir
           f == dirs[d]
           g == write_constraints(f, u)
           o == [db EXCEPT !.unique = u]
           w == [rows |-> o.rows, field |-> o.field, unique |-> o.unique, indexed |-> o.indexed]
<1>1. /\ IsOpen /\ db.stage = "none" /\ db \in OpenType /\ d \in Dirs /\ f \in FilesType
      /\ past[d] \in Seq(RowsType) /\ Sensible(f, past[d]) /\ ExactCache(f) /\ Serves(db, f)
  BY Opens DEF Free
<1>2. /\ o \in OpenType /\ o.dir = d /\ o.short = db.short /\ o.unique = u /\ o.rows = db.rows
      /\ o.index = db.index /\ o.indexed = db.indexed /\ o.stage = "none" /\ o.dest = db.dest
  BY <1>1 DEF OpenType
<1>3. w \in ToldType
  BY <1>2 DEF OpenType, ToldType
<1>4. /\ g \in FilesType /\ g.log = f.log /\ g.heap = f.heap /\ g.first = f.first /\ g.unique = u
      /\ g.catalog = f.catalog /\ g.derived = f.derived /\ g.identity = f.identity
  BY <1>1 DEF FilesType, write_constraints
<1> HIDE DEF g, o
<1>5. Catalog(g) = Catalog(f) /\ (Current(g) <=> Current(f)) /\ (Own(g) <=> Own(f))
  BY <1>4 DEF Catalog, Current, Own
<1>6. Sensible(g, past[d])
  <2>1. f.identity # 0
    BY <1>1 DEF Serves
  <2> QED
    BY <1>1, <1>4, <1>5, <2>1 DEF Sensible
<1>7. ExactCache(g)
  BY <1>1, <1>4, <1>5 DEF ExactCache, Checkpointed, Cataloged
<1>8. Serves(o, g)
  BY <1>1, <1>2, <1>4, <1>5 DEF Serves, Copying
<1>9. /\ dirs' = [dirs EXCEPT ![d] = g] /\ db' = o /\ murky' = (IF db.short THEN murky \cup {d} ELSE murky)
      /\ want' = [want EXCEPT ![d] = w] /\ past' = [past EXCEPT ![d] = past[d]]
  <2>1. dirs' = [dirs EXCEPT ![d] = g] /\ db' = o
    BY DEF g, o
  <2>2. dirs'[d] = g
    BY <1>1, <2>1 DEF RestoreIInv, DirsTyped
  <2>3. Len(dirs'[d].log) = Len(past[d])
    BY <1>1, <1>4, <2>2 DEF Sensible
  <2> QED
    BY <1>1, <2>1, <2>3 DEF Told, RestoreIInv, DirsTyped
<1>10. ASSUME d \in Sound', Retained(f, past[d], want[d]), ~ db.short => Shows(db, want[d])
       PROVE  Retained(g, past[d], w) /\ (~ db.short => Shows(o, w))
  <2>1. ~ db.short
    BY <1>1, <1>9, <1>10 DEF Sound
  <2>2. w.rows = want[d].rows /\ w.indexed = want[d].indexed /\ w.unique = u
    BY <1>2, <1>10, <2>1 DEF Shows
  <2>3. from_lsn(g) = from_lsn(f)
    BY <1>5 DEF from_lsn
  <2> HIDE DEF f, w
  <2> QED
    BY <1>2, <1>4, <1>5, <1>10, <2>2, <2>3 DEF Retained, Shows, Covered, w
<1>11. murky' \in {murky, murky \cup {d}} /\ o.stage \notin Copying
  BY <1>2, <1>9 DEF Copying
<1> HIDE DEF w
<1> QED
  BY <1>1, <1>2, <1>3, <1>4, <1>6, <1>7, <1>8, <1>9, <1>10, <1>11, OwnStep

LEMMA DropKeepsInv == ASSUME RestoreIInv, drop_unique_constraint PROVE RestoreIInv'
<1>1. Free /\ db.dir \in Dirs
  BY Opens DEF drop_unique_constraint, Free
<1>2. dirs' = [dirs EXCEPT ![db.dir] = write_constraints(dirs[db.dir], FALSE)]
  BY <1>1 DEF drop_unique_constraint, RestoreIInv, DirsTyped
<1> QED
  BY <1>1, <1>2, UniqueStep DEF drop_unique_constraint

LEMMA AddKeepsInv == ASSUME RestoreIInv, add_unique_constraint PROVE RestoreIInv'
<1> DEFINE f == dirs[db.dir]
           e == MarkEntry("index", 0)
           o == [db EXCEPT !.unique = TRUE, !.indexed = TRUE]
<1>1. Free /\ IsOpen /\ db.stage = "none" /\ db' = o /\ Told /\ UNCHANGED <<minted, foreign, bounds>>
  BY DEF add_unique_constraint, Free
<1>2. f \in FilesType /\ db \in OpenType /\ db.dir \in Dirs /\ Serves(db, f)
  BY <1>1, Opens
<1>3. /\ o \in OpenType /\ o.dir = db.dir /\ o.short = db.short /\ o.unique = TRUE
      /\ o.indexed = TRUE /\ o.stage = "none" /\ o.dest = db.dest
      /\ o.rows = db.rows /\ o.index = db.index
  BY <1>1, <1>2 DEF OpenType
<1>4. CASE db.indexed
  <2>1. dirs' = [dirs EXCEPT ![db.dir] = write_constraints(dirs[db.dir], TRUE)]
    BY <1>4 DEF add_unique_constraint
  <2>2. o = [db EXCEPT !.unique = TRUE]
    BY <1>2, <1>4 DEF OpenType
  <2> QED
    BY <1>1, <2>1, <2>2, UniqueStep
<1>5. CASE ~ db.indexed
  <2>1. f.heap \in RowsType /\ Len(f.log) < MaxDirLog
    BY <1>2, <1>5 DEF FilesType, add_unique_constraint, Room
  <2>2. dirs' = [dirs EXCEPT ![db.dir] = WithEntry(f, e, f.heap, TRUE)]
    <3>1. dirs' = [dirs EXCEPT ![db.dir] = write_constraints([f EXCEPT !.log = Append(@, e)], TRUE)]
      BY <1>5 DEF add_unique_constraint
    <3> HIDE DEF e
    <3>2. write_constraints([f EXCEPT !.log = Append(f.log, e)], TRUE) = WithEntry(f, e, f.heap, TRUE)
      BY <1>2 DEF WithEntry, write_constraints, FilesType
    <3> QED
      BY <1>2, <3>1, <3>2 DEF FilesType
  <2>3. e \in EntryType /\ e.op = "index"
    BY Marks
  <2>4. o.rows = After(e, db.rows) /\ o.index = o.rows
    <3>1. db.rows \in [Ids -> Cells] /\ db.index = db.rows
      BY <1>2 DEF OpenType, RowsType, Serves
    <3> QED
      BY <1>3, <2>3, <3>1 DEF After, IsPut
  <2>5. /\ e.op = "checkpoint" => e.id = Len(f.log)
        /\ f.heap = IF e.op = "checkpoint" THEN db.rows ELSE f.heap
        /\ o.indexed = (db.indexed \/ e.op = "index")
        /\ IF e.op = "checkpoint"
             THEN o.stage = "flushed" /\ o.through = Len(f.log) /\ o.dest # db.dir
             ELSE o.stage = "none" /\ o.dest = Nothing
    <3>1. db.dest = Nothing
      BY <1>1, <1>2 DEF Serves
    <3> HIDE DEF o, e, f
    <3> QED
      BY <1>3, <2>3, <3>1
  <2> HIDE DEF o, e
  <2> QED
    BY <1>1, <1>3, <2>1, <2>2, <2>3, <2>4, <2>5, LoggedStep
<1> QED
  BY <1>4, <1>5

\* Steps that tell nobody anything: what is told stays as it is.
LEMMA QuietStep ==
    ASSUME RestoreIInv, IsOpen, NEW g \in FilesType, NEW o \in OpenType,
           dirs' = [dirs EXCEPT ![db.dir] = g], db' = o,
           murky' \in {murky, murky \cup {db.dir}},
           UNCHANGED <<minted, want, past, foreign, bounds>>,
           g.identity = dirs[db.dir].identity, Sensible(g, past[db.dir]), ExactCache(g), Serves(o, g),
           o.dir = db.dir, o.short = db.short, o.rows = db.rows, o.indexed = db.indexed,
           o.stage \notin Copying, o.stage # "none" /\ db.short => db.dir \in murky',
           db.dir \in Sound' /\ Retained(dirs[db.dir], past[db.dir], want[db.dir])
             /\ (~ db.short => Shows(db, want[db.dir]))
             => Retained(g, past[db.dir], want[db.dir])
    PROVE  RestoreIInv'
<1>1. /\ past[db.dir] \in Seq(RowsType) /\ want[db.dir] \in ToldType
      /\ past' = [past EXCEPT ![db.dir] = past[db.dir]]
      /\ want' = [want EXCEPT ![db.dir] = want[db.dir]]
  BY Opens DEF RestoreIInv, DirsTyped
<1>2. Shows(db, want[db.dir]) => Shows(o, want[db.dir])
  BY DEF Shows
<1> QED
  BY <1>1, <1>2, OwnStep

LEMMA EvictKeepsInv == ASSUME RestoreIInv, NEW i \in Ids, evict(i) PROVE RestoreIInv'
<1> DEFINE d == db.dir
           f == dirs[d]
           g == [f EXCEPT !.heap[i] = db.rows[i]]
<1>1. /\ IsOpen /\ db \in OpenType /\ d \in Dirs /\ f \in FilesType /\ f.heap[i] # db.rows[i]
      /\ Sensible(f, past[d]) /\ ExactCache(f) /\ Serves(db, f)
  BY Opens DEF evict
<1>2. /\ g \in FilesType /\ g.log = f.log /\ g.first = f.first /\ g.unique = f.unique
      /\ g.catalog = f.catalog /\ g.derived = f.derived /\ g.identity = f.identity
      /\ g.heap = [f.heap EXCEPT ![i] = db.rows[i]]
  BY <1>1 DEF FilesType, OpenType, RowsType
<1>3. dirs' = [dirs EXCEPT ![d] = g]
  BY <1>1 DEF evict, RestoreIInv, DirsTyped
<1>4. ~ Current(f) /\ db.stage = "none"
  BY <1>1 DEF Serves
<1> HIDE DEF g
<1>5. Catalog(g) = Catalog(f) /\ ~ Current(g) /\ (Own(g) <=> Own(f)) /\ from_lsn(g) = from_lsn(f)
  BY <1>2, <1>4 DEF Catalog, Current, Own, from_lsn
<1>6. Sensible(g, past[d]) /\ ExactCache(g) /\ Serves(db, g)
  <2>1. f.identity # 0
    BY <1>1 DEF Serves
  <2>2. Sensible(g, past[d])
    BY <1>1, <1>2, <1>5, <2>1 DEF Sensible
  <2>3. ExactCache(g)
    BY <1>1, <1>2, <1>5 DEF ExactCache
  <2>4. Serves(db, g)
    BY <1>1, <1>2, <1>4, <1>5 DEF Serves, Copying
  <2> QED
    BY <2>2, <2>3, <2>4
<1>7. ASSUME d \in Sound', Retained(f, past[d], want[d]), ~ db.short => Shows(db, want[d])
      PROVE  Retained(g, past[d], want[d])
  <2>1. db.rows = want[d].rows
    BY <1>1, <1>7 DEF evict, Sound, Shows
  <2>2. \A j \in Ids : g.heap[j] = f.heap[j] \/ g.heap[j] = want[d].rows[j]
    BY <1>1, <1>2, <2>1 DEF FilesType, RowsType
  <2> HIDE DEF f, d
  <2> QED
    BY <1>2, <1>5, <1>7, <2>2 DEF Retained, Covered
<1>8. /\ murky' \in {murky, murky \cup {d}} /\ db' = db /\ db.stage \notin Copying
      /\ UNCHANGED <<minted, want, past, foreign, bounds>>
  BY <1>4 DEF evict, Copying
<1> QED
  BY <1>1, <1>2, <1>3, <1>4, <1>6, <1>7, <1>8, QuietStep

LEMMA CatalogKeepsInv == ASSUME RestoreIInv, write_catalog PROVE RestoreIInv'
<1> DEFINE d == db.dir
           f == dirs[d]
           c == catalog_snapshot(db.through)
           g == [f EXCEPT !.catalog = c]
           o == [db EXCEPT !.stage = "cataloged"]
<1>1. /\ IsOpen /\ db \in OpenType /\ d \in Dirs /\ f \in FilesType /\ db.stage = "flushed"
      /\ Sensible(f, past[d]) /\ ExactCache(f) /\ Serves(db, f) /\ Len(f.log) \in Nat
  BY Opens DEF write_catalog
<1>2. /\ c \in CatalogType /\ c.identity = f.identity /\ c.through = db.through /\ c.indexed = db.indexed
  BY <1>1 DEF catalog_snapshot, CatalogType, FilesType, OpenType
<1>3. /\ g \in FilesType /\ g.log = f.log /\ g.first = f.first /\ g.unique = f.unique
      /\ g.catalog = c /\ g.derived = f.derived /\ g.identity = f.identity /\ g.heap = f.heap
  BY <1>1, <1>2 DEF FilesType
<1>4. /\ o \in OpenType /\ o.dir = d /\ o.short = db.short /\ o.rows = db.rows /\ o.index = db.index
      /\ o.indexed = db.indexed /\ o.unique = db.unique /\ o.stage = "cataloged" /\ o.dest = db.dest
      /\ o.through = db.through
  BY <1>1 DEF OpenType, Stages
<1>5. dirs' = [dirs EXCEPT ![d] = g] /\ db' = o
  BY <1>1 DEF write_catalog, RestoreIInv, DirsTyped
<1> HIDE DEF c, g, o
<1>6. Checkpointed(f) /\ db.through + 1 = Len(f.log) /\ f.heap = db.rows /\ f.identity # 0
  BY <1>1 DEF Serves
<1>7. /\ Catalog(g) = c /\ c # Nothing /\ from_lsn(g) = db.through /\ db.through \in Nat
      /\ (Current(g) <=> Current(f)) /\ (Own(g) <=> Own(f))
  BY <1>1, <1>2, <1>3, Things DEF Catalog, Current, Own, from_lsn, OpenType
<1>8. Checkpointed(g) /\ Cataloged(g)
  BY <1>2, <1>3, <1>6, <1>7 DEF Checkpointed, Cataloged
<1>9. Sensible(g, past[d]) /\ ExactCache(g) /\ Serves(o, g)
  <2>1. Sensible(g, past[d])
    <3>1. c.through < Len(g.log)
      BY <1>1, <1>2, <1>3, <1>6, <1>7
    <3> QED
      BY <1>1, <1>3, <1>6, <1>7, <3>1 DEF Sensible
  <2>2. ExactCache(g)
    BY <1>1, <1>3, <1>7, <1>8 DEF ExactCache
  <2>3. Serves(o, g)
    BY <1>1, <1>3, <1>4, <1>6, <1>7, <1>8 DEF Serves, Copying
  <2> QED
    BY <2>1, <2>2, <2>3
<1>10. ASSUME d \in Sound', Retained(f, past[d], want[d]), ~ db.short => Shows(db, want[d])
       PROVE  Retained(g, past[d], want[d])
  <2>1. ~ db.short
    BY <1>1, <1>10 DEF RestoreIInv, OpenSensible, Sound, write_catalog, ghosts
  <2>2. db.rows = want[d].rows /\ db.indexed = want[d].indexed
    BY <1>10, <2>1 DEF Shows
  <2>3. db.indexed = HasIndex(f.log, db.through)
    <3>1. DOMAIN f.log = 1 .. Len(f.log)
      BY <1>1, LenProperties DEF FilesType
    <3>2. HasIndex(f.log, Len(f.log)) <=> \E l \in 1 .. Len(f.log) : f.log[l].op = "index"
      BY <1>1, <3>1 DEF HasIndex
    <3>3. HasIndex(f.log, db.through) <=> \E l \in 1 .. Len(f.log) : l < Len(f.log) /\ f.log[l].op = "index"
      BY <1>1, <1>6, <1>7, <3>1 DEF HasIndex
    <3>4. HasIndex(f.log, Len(f.log)) = HasIndex(f.log, db.through)
      <4>1. f.log[Len(f.log)].op # "index"
        BY <1>6 DEF Checkpointed
      <4>2. \A l \in 1 .. Len(f.log) : f.log[l].op = "index" => l < Len(f.log)
        BY <1>1, <4>1
      <4> QED
        BY <3>2, <3>3, <4>2 DEF HasIndex
    <3> QED
      BY <1>10, <2>2, <3>4 DEF Retained
  <2>4. g.first <= from_lsn(g) + 1
    <3>1. f.first \in Nat
      BY <1>1 DEF FilesType
    <3>2. f.first <= Len(f.log) + 1 /\ f.first <= from_lsn(f) + 1 /\ from_lsn(f) <= db.through
      <4>1. Catalog(f) # Nothing => Catalog(f).through \in Nat
        BY <1>1, Sights DEF CatalogType
      <4> QED
        BY <1>1, <1>6, <1>7, <1>10, <4>1 DEF Sensible, Retained, from_lsn
    <3>3. from_lsn(f) \in Nat
      BY <1>1, Sights
    <3> QED
      BY <1>3, <1>7, <3>1, <3>2, <3>3
  <2>5. Catalog(g).indexed = HasIndex(g.log, Catalog(g).through)
    BY <1>2, <1>3, <1>7, <2>3
  <2>6. \A i \in Ids : g.heap[i] = want[d].rows[i]
    BY <1>3, <1>6, <2>2
  <2> HIDE DEF f, d
  <2> QED
    BY <1>3, <1>10, <2>4, <2>5, <2>6 DEF Retained
<1>11. /\ murky' = murky /\ o.stage \notin Copying /\ UNCHANGED <<minted, want, past, foreign, bounds>>
       /\ o.stage # "none" /\ db.short => d \in murky'
  BY <1>1, <1>4 DEF write_catalog, ghosts, Copying, RestoreIInv, OpenSensible
<1> QED
  BY <1>1, <1>3, <1>4, <1>5, <1>9, <1>10, <1>11, QuietStep

LEMMA DiscardKeepsInv == ASSUME RestoreIInv, discard_segments PROVE RestoreIInv'
<1> DEFINE d == db.dir
           f == dirs[d]
           o == [db EXCEPT !.stage = IF db.dest = Nothing THEN "derive" ELSE "copy"]
<1>1. /\ IsOpen /\ db \in OpenType /\ d \in Dirs /\ f \in FilesType /\ db.stage = "cataloged"
      /\ Sensible(f, past[d]) /\ ExactCache(f) /\ Serves(db, f) /\ Len(f.log) \in Nat
  BY Opens DEF discard_segments
<1>2. PICK first \in {f.first, db.through + 1} : dirs' = [dirs EXCEPT ![d].first = first]
  BY DEF discard_segments
<1> DEFINE g == [f EXCEPT !.first = first]
<1>3. Checkpointed(f) /\ Cataloged(f) /\ db.through + 1 = Len(f.log) /\ f.heap = db.rows /\ f.identity # 0
  BY <1>1 DEF Serves
<1>4. first \in Nat \ {0} /\ first <= Len(f.log) + 1
  <2>1. db.through \in Nat /\ f.first \in Nat \ {0}
    BY <1>1 DEF OpenType, FilesType
  <2> QED
    BY <1>1, <1>2, <1>3, <2>1 DEF Sensible
<1>5. /\ g \in FilesType /\ g.log = f.log /\ g.first = first /\ g.unique = f.unique
      /\ g.catalog = f.catalog /\ g.derived = f.derived /\ g.identity = f.identity /\ g.heap = f.heap
  BY <1>1, <1>4 DEF FilesType
<1>6. /\ o \in OpenType /\ o.dir = d /\ o.short = db.short /\ o.rows = db.rows /\ o.index = db.index
      /\ o.indexed = db.indexed /\ o.unique = db.unique /\ o.dest = db.dest /\ o.through = db.through
      /\ o.stage = IF db.dest = Nothing THEN "derive" ELSE "copy"
  BY <1>1 DEF OpenType, Stages
<1>7. dirs' = [dirs EXCEPT ![d] = g] /\ db' = o
  BY <1>1, <1>2 DEF discard_segments, RestoreIInv, DirsTyped
<1> HIDE DEF g, o
<1>8. Catalog(g) = Catalog(f) /\ (Current(g) <=> Current(f)) /\ (Own(g) <=> Own(f)) /\ from_lsn(g) = from_lsn(f)
  BY <1>5 DEF Catalog, Current, Own, from_lsn
<1>9. Sensible(g, past[d]) /\ ExactCache(g) /\ Serves(o, g)
  <2>1. Sensible(g, past[d])
    BY <1>1, <1>3, <1>4, <1>5, <1>8 DEF Sensible
  <2>2. Checkpointed(g) /\ Cataloged(g)
    BY <1>3, <1>5, <1>8 DEF Checkpointed, Cataloged
  <2>3. ExactCache(g)
    BY <1>1, <1>5, <1>8, <2>2 DEF ExactCache
  <2>4. Serves(o, g)
    BY <1>1, <1>3, <1>5, <1>6, <1>8, <2>2 DEF Serves, Copying
  <2> QED
    BY <2>1, <2>3, <2>4
<1>10. ASSUME Retained(f, past[d], want[d]) PROVE Retained(g, past[d], want[d])
  <2>1. first <= from_lsn(g) + 1
    <3>1. from_lsn(f) = db.through /\ db.through \in Nat
      <4>1. Catalog(f).through \in Nat /\ db.through \in Nat
        BY <1>1, <1>3, Sights DEF Cataloged, CatalogType, OpenType
      <4> QED
        BY <1>3, <4>1 DEF Cataloged, from_lsn
    <3> QED
      BY <1>2, <1>8, <1>10, <3>1 DEF Retained
  <2> HIDE DEF f, d
  <2> QED
    BY <1>5, <1>8, <1>10, <2>1 DEF Retained, Covered
<1>11. /\ murky' = murky /\ o.stage \notin Copying /\ UNCHANGED <<minted, want, past, foreign, bounds>>
       /\ o.stage # "none" /\ db.short => d \in murky'
  BY <1>1, <1>6 DEF discard_segments, ghosts, Copying, RestoreIInv, OpenSensible
<1> QED
  BY <1>1, <1>5, <1>6, <1>7, <1>9, <1>10, <1>11, QuietStep

LEMMA DeriveKeepsInv == ASSUME RestoreIInv, save_derived PROVE RestoreIInv'
<1> DEFINE d == db.dir
           f == dirs[d]
           s == state_stamp(f, db.rows)
           c == [stamp |-> s, index |-> db.index]
           g == [f EXCEPT !.derived = c]
           o == [db EXCEPT !.stage = "none"]
<1>1. /\ IsOpen /\ db \in OpenType /\ d \in Dirs /\ f \in FilesType /\ db.stage = "derive"
      /\ Sensible(f, past[d]) /\ ExactCache(f) /\ Serves(db, f) /\ Len(f.log) \in Nat
  BY Opens DEF save_derived
<1>2. c \in CacheType /\ c.stamp.identity = f.identity /\ c.stamp.lsn = Len(f.log) + 1 /\ c.index = db.rows
  <2>1. Cardinality({i \in Ids : db.rows[i] # Nothing}) \in Nat
    BY RestoreAssumption, FS_Subset, FS_CardinalityType
  <2>2. f.identity \in Nat /\ db.index \in RowsType /\ db.index = db.rows
    BY <1>1 DEF FilesType, OpenType, Serves
  <2> QED
    BY <1>1, <2>1, <2>2 DEF state_stamp, next_lsn_of, CacheType
<1>3. /\ g \in FilesType /\ g.log = f.log /\ g.first = f.first /\ g.unique = f.unique
      /\ g.catalog = f.catalog /\ g.derived = c /\ g.identity = f.identity /\ g.heap = f.heap
  BY <1>1, <1>2 DEF FilesType
<1>4. /\ o \in OpenType /\ o.dir = d /\ o.short = db.short /\ o.rows = db.rows /\ o.index = db.index
      /\ o.indexed = db.indexed /\ o.unique = db.unique /\ o.stage = "none" /\ o.dest = db.dest
  BY <1>1 DEF OpenType, Stages
<1>5. dirs' = [dirs EXCEPT ![d] = g] /\ db' = o
  BY <1>1 DEF save_derived, RestoreIInv, DirsTyped
<1>6. /\ Checkpointed(f) /\ Cataloged(f) /\ f.heap = db.rows /\ f.identity # 0
      /\ db.dest = Nothing /\ db.index = db.rows /\ db.unique = f.unique
  BY <1>1 DEF Serves
<1> HIDE DEF s, c, g, o
<1>7. Catalog(g) = Catalog(f) /\ from_lsn(g) = from_lsn(f)
  BY <1>3 DEF Catalog, from_lsn
<1>8. Sensible(g, past[d]) /\ ExactCache(g) /\ Serves(o, g)
  <2>1. Sensible(g, past[d])
    BY <1>1, <1>3, <1>6, <1>7 DEF Sensible
  <2>2. ExactCache(g)
    BY <1>1, <1>2, <1>3, <1>6, <1>7 DEF ExactCache, Checkpointed, Cataloged
  <2>3. Serves(o, g)
    BY <1>3, <1>4, <1>6, <1>1, Things DEF Serves, Copying
  <2> QED
    BY <2>1, <2>2, <2>3
<1>9. ASSUME Retained(f, past[d], want[d]) PROVE Retained(g, past[d], want[d])
  <2> HIDE DEF f
  <2> QED
    BY <1>3, <1>7, <1>9, KeptAlike
<1>10. /\ murky' = murky /\ o.stage \notin Copying /\ o.stage = "none"
       /\ UNCHANGED <<minted, want, past, foreign, bounds>>
  BY <1>4 DEF save_derived, ghosts, Copying
<1> QED
  BY <1>1, <1>3, <1>4, <1>5, <1>8, <1>9, <1>10, QuietStep

\* A step that writes one directory t, which nobody has open.
LEMMA OtherStep ==
    ASSUME RestoreIInv, NEW t \in Dirs, NEW g \in FilesType, NEW p \in Seq(RowsType), NEW w \in ToldType,
           dirs' = [dirs EXCEPT ![t] = g], past' = [past EXCEPT ![t] = p],
           want' = [want EXCEPT ![t] = w], minted' = minted, opens' = opens,
           db' \in OpenType \cup {Closed}, copies' \in 0 .. MaxCopies,
           murky' \subseteq Dirs, foreign' \subseteq Dirs,
           g.identity <= minted, Sensible(g, p), ExactCache(g),
           t \in Sound' => Retained(g, p, w), \A d \in Sound' \ {t} : d \in Sound,
           OpenSensible'
    PROVE  RestoreIInv'
<1>1. DirsTyped'
  BY DEF RestoreIInv, DirsTyped
<1>2. /\ dirs'[t] = g /\ past'[t] = p /\ want'[t] = w
      /\ \A d \in Dirs \ {t} : dirs'[d] = dirs[d] /\ past'[d] = past[d] /\ want'[d] = want[d]
  BY DEF RestoreIInv, DirsTyped
<1>3. DirsSensible'
  BY <1>2 DEF RestoreIInv, DirsSensible
<1>4. DirsKept'
  <2>1. ASSUME NEW d \in Sound' PROVE Retained(dirs'[d], past'[d], want'[d])
    <3>1. CASE d = t
      BY <1>2, <2>1, <3>1
    <3>2. CASE d # t
      BY <1>2, <2>1, <3>2 DEF RestoreIInv, DirsKept, Sound
    <3> QED
      BY <3>1, <3>2
  <2> QED
    BY <2>1 DEF DirsKept
<1> QED
  BY <1>1, <1>3, <1>4 DEF RestoreIInv

\* An open database that a step leaves alone, with its files and those it is copying.
LEMMA OpenUntouched ==
    ASSUME RestoreIInv, db' = db, murky \subseteq murky', foreign \subseteq foreign',
           IsOpen => /\ dirs'[db.dir] = dirs[db.dir] /\ past'[db.dir] = past[db.dir]
                     /\ want'[db.dir] = want[db.dir],
           IsOpen /\ db.stage \in Copying =>
                     dirs'[db.dest] = dirs[db.dest] /\ past'[db.dest] = past[db.dest]
    PROVE  OpenSensible'
<1>1. SUFFICES ASSUME IsOpen PROVE OpenSensible'
  BY DEF OpenSensible, IsOpen
<1>2. db.dir \in Sound' => db.dir \in Sound
  BY DEF Sound
<1>3. OpenSensible
  BY DEF RestoreIInv
<1>4. Serves(db', dirs'[db.dir])
  BY <1>1, <1>3 DEF OpenSensible
<1>5. db.stage \in Copying =>
        /\ CopyOf(db.stage, dirs'[db.dir], dirs'[db.dest])
        /\ past'[db.dest] = past'[db.dir] /\ db.dest \in murky'
  BY <1>1, <1>3 DEF OpenSensible
<1>6. /\ db.stage # "none" /\ db.short => db.dir \in murky'
      /\ db.dir \in Sound' /\ ~ db.short => Shows(db', want'[db.dir])
  BY <1>1, <1>2, <1>3 DEF OpenSensible
<1> QED
  BY <1>4, <1>5, <1>6 DEF OpenSensible

LEMMA CopyStoreKeepsInv == ASSUME RestoreIInv, copy_store PROVE RestoreIInv'
<1> DEFINE d == db.dir
           t == db.dest
           f == dirs[d]
           g == [NoDir EXCEPT !.identity = f.identity, !.heap = f.heap, !.log = f.log, !.first = f.first]
           o == [db EXCEPT !.stage = "copy_catalog"]
<1>1. /\ IsOpen /\ db \in OpenType /\ d \in Dirs /\ f \in FilesType /\ db.stage = "copy"
      /\ past[d] \in Seq(RowsType) /\ f.identity # 0
      /\ Sensible(f, past[d]) /\ ExactCache(f) /\ Serves(db, f) /\ Len(f.log) \in Nat
  BY Opens DEF copy_store
<1>2. t \in Dirs /\ t # d
  BY <1>1 DEF Serves, OpenType, Copying
<1>3. want[t] \in ToldType /\ f.identity <= minted
  BY <1>1, <1>2 DEF RestoreIInv, DirsTyped, DirsSensible
<1>4. /\ g \in FilesType /\ g.log = f.log /\ g.first = f.first /\ g.unique = FALSE
      /\ g.catalog = Nothing /\ g.derived = Nothing /\ g.identity = f.identity /\ g.heap = f.heap
  BY <1>1 DEF FilesType, NoDir
<1>5. /\ o \in OpenType /\ o.dir = d /\ o.short = db.short /\ o.rows = db.rows /\ o.index = db.index
      /\ o.indexed = db.indexed /\ o.unique = db.unique /\ o.stage = "copy_catalog" /\ o.dest = t
      /\ o.through = db.through
  BY <1>1 DEF OpenType, Stages
<1>6. /\ dirs' = [dirs EXCEPT ![t] = g] /\ past' = [past EXCEPT ![t] = past[d]] /\ db' = o
      /\ want' = [want EXCEPT ![t] = want[t]] /\ murky' = murky \cup {t} /\ foreign' = foreign
      /\ minted' = minted /\ opens' = opens /\ copies' = copies /\ want' = want
  BY DEF copy_store, bounds, RestoreIInv, DirsTyped
<1> HIDE DEF g, o
<1>7. Sensible(g, past[d]) /\ ExactCache(g)
  <2>1. Catalog(g) = Nothing /\ ~ Own(g)
    BY <1>4 DEF Catalog, Own
  <2>2. Sensible(g, past[d])
    BY <1>1, <1>4, <2>1 DEF Sensible
  <2> QED
    BY <2>1, <2>2 DEF ExactCache, Current
<1>8. dirs'[d] = f /\ dirs'[t] = g /\ past'[d] = past[d] /\ past'[t] = past[d]
  BY <1>1, <1>2, <1>6 DEF RestoreIInv, DirsTyped
<1>9. OpenSensible'
  <2>1. Serves(o, f)
    BY <1>1, <1>5 DEF Serves, Copying
  <2>2. CopyOf("copy_catalog", f, g)
    BY <1>4 DEF CopyOf
  <2>3. /\ db.short => d \in murky'
        /\ d \in Sound' /\ ~ db.short => Shows(o, want[d])
    BY <1>1, <1>5, <1>6 DEF RestoreIInv, OpenSensible, Sound, Shows
  <2> HIDE DEF d, t, f
  <2> QED
    BY <1>5, <1>6, <1>8, <2>1, <2>2, <2>3 DEF OpenSensible, Copying
<1>10. t \notin Sound' /\ (\A x \in Sound' \ {t} : x \in Sound) /\ murky' \subseteq Dirs /\ foreign' \subseteq Dirs
  BY <1>2, <1>6 DEF Sound, RestoreIInv, DirsTyped
<1>11. copies' \in 0 .. MaxCopies /\ db' \in OpenType \cup {Closed} /\ g.identity <= minted
  BY <1>3, <1>4, <1>5, <1>6 DEF RestoreIInv, DirsTyped
<1> QED
  BY <1>1, <1>2, <1>3, <1>4, <1>6, <1>7, <1>9, <1>10, <1>11, OtherStep

\* A directory that is being copied to.
LEMMA Copies ==
    ASSUME RestoreIInv, IsOpen, db.stage \in Copying
    PROVE  /\ db.dest \in Dirs /\ db.dest # db.dir /\ db.dest \in murky
           /\ dirs[db.dest] \in FilesType /\ want[db.dest] \in ToldType
           /\ CopyOf(db.stage, dirs[db.dir], dirs[db.dest]) /\ past[db.dest] = past[db.dir]
           /\ dirs[db.dir].identity <= minted
<1>1. db.dest \in Dirs /\ db.dest # db.dir
  BY Opens DEF Serves, OpenType
<1> QED
  BY <1>1, Opens DEF RestoreIInv, DirsTyped, OpenSensible, DirsSensible

\* The copy of a sensible directory is sensible, and its cache is not its own: it has none.
LEMMA CopySensible ==
    ASSUME NEW f \in FilesType, NEW p, Sensible(f, p), f.identity # 0,
           NEW g \in FilesType, g.identity = f.identity, g.log = f.log, g.first = f.first,
           g.catalog \in {f.catalog, Nothing}, g.derived = Nothing
    PROVE  Sensible(g, p) /\ ExactCache(g)
<1>1. ~ Own(g)
  BY DEF Own
<1>2. Catalog(g) \in {Catalog(f), Nothing}
  BY DEF Catalog
<1>3. Sensible(g, p)
  BY <1>2 DEF Sensible
<1> QED
  BY <1>1, <1>3 DEF ExactCache, Current

LEMMA CopyCatalogKeepsInv == ASSUME RestoreIInv, copy_catalog PROVE RestoreIInv'
<1> DEFINE d == db.dir
           t == db.dest
           f == dirs[d]
           h == dirs[t]
           g == [h EXCEPT !.catalog = f.catalog]
           o == [db EXCEPT !.stage = "copy_unique"]
<1>1. /\ IsOpen /\ db \in OpenType /\ d \in Dirs /\ f \in FilesType /\ db.stage = "copy_catalog"
      /\ past[d] \in Seq(RowsType) /\ f.identity # 0
      /\ Sensible(f, past[d]) /\ ExactCache(f) /\ Serves(db, f)
  BY Opens DEF copy_catalog
<1>2. /\ t \in Dirs /\ t # d /\ t \in murky /\ h \in FilesType /\ want[t] \in ToldType
      /\ CopyOf("copy_catalog", f, h) /\ past[t] = past[d] /\ f.identity <= minted
  BY <1>1, Copies DEF Copying
<1>3. /\ h.log = f.log /\ h.first = f.first /\ h.unique = FALSE
      /\ h.derived = Nothing /\ h.identity = f.identity /\ h.heap = f.heap
  BY <1>2 DEF CopyOf
<1>4. /\ g \in FilesType /\ g.log = f.log /\ g.first = f.first /\ g.unique = FALSE
      /\ g.catalog = f.catalog /\ g.derived = Nothing /\ g.identity = f.identity /\ g.heap = f.heap
  BY <1>1, <1>2, <1>3 DEF FilesType
<1>5. /\ o \in OpenType /\ o.dir = d /\ o.short = db.short /\ o.rows = db.rows /\ o.index = db.index
      /\ o.indexed = db.indexed /\ o.unique = db.unique /\ o.stage = "copy_unique" /\ o.dest = t
      /\ o.through = db.through
  BY <1>1 DEF OpenType, Stages
<1>6. /\ dirs' = [dirs EXCEPT ![t] = g] /\ past' = [past EXCEPT ![t] = past[d]] /\ db' = o
      /\ want' = [want EXCEPT ![t] = want[t]] /\ murky' = murky /\ foreign' = foreign
      /\ minted' = minted /\ opens' = opens /\ copies' = copies /\ past' = past /\ want' = want
  BY <1>2 DEF copy_catalog, ghosts, bounds, RestoreIInv, DirsTyped
<1> HIDE DEF g, o
<1>7. Sensible(g, past[d]) /\ ExactCache(g)
  <2> HIDE DEF d, f
  <2> QED
    BY <1>1, <1>4, CopySensible
<1>8. dirs'[d] = f /\ dirs'[t] = g
  BY <1>1, <1>2, <1>6 DEF RestoreIInv, DirsTyped
<1>9. OpenSensible'
  <2>1. Serves(o, f)
    BY <1>1, <1>5 DEF Serves, Copying
  <2>2. CopyOf("copy_unique", f, g)
    BY <1>4 DEF CopyOf
  <2>3. /\ db.short => d \in murky'
        /\ d \in Sound' /\ ~ db.short => Shows(o, want[d])
    BY <1>1, <1>5, <1>6 DEF RestoreIInv, OpenSensible, Sound, Shows
  <2> HIDE DEF d, t, f, h
  <2> QED
    BY <1>2, <1>5, <1>6, <1>8, <2>1, <2>2, <2>3 DEF OpenSensible, Copying
<1>10. t \notin Sound' /\ (\A x \in Sound' \ {t} : x \in Sound) /\ murky' \subseteq Dirs /\ foreign' \subseteq Dirs
  BY <1>2, <1>6 DEF Sound, RestoreIInv, DirsTyped
<1>11. copies' \in 0 .. MaxCopies /\ db' \in OpenType \cup {Closed} /\ g.identity <= minted
  BY <1>2, <1>4, <1>5, <1>6 DEF RestoreIInv, DirsTyped
<1> HIDE DEF h
<1> QED
  BY <1>1, <1>2, <1>4, <1>6, <1>7, <1>9, <1>10, <1>11, OtherStep

LEMMA CopyUniqueKeepsInv == ASSUME RestoreIInv, copy_unique PROVE RestoreIInv'
<1> DEFINE d == db.dir
           t == db.dest
           f == dirs[d]
           h == dirs[t]
           g == IF db.unique THEN write_constraints(h, TRUE) ELSE h
           o == [db EXCEPT !.stage = "none", !.dest = Nothing]
<1>1. /\ IsOpen /\ db \in OpenType /\ d \in Dirs /\ f \in FilesType /\ db.stage = "copy_unique"
      /\ past[d] \in Seq(RowsType) /\ f.identity # 0 /\ want[d] \in ToldType
      /\ Sensible(f, past[d]) /\ ExactCache(f) /\ Serves(db, f)
  BY Opens DEF copy_unique
<1>2. /\ t \in Dirs /\ t # d /\ t \in murky /\ h \in FilesType
      /\ CopyOf("copy_unique", f, h) /\ past[t] = past[d] /\ f.identity <= minted
  BY <1>1, Copies DEF Copying
<1>3. /\ h.log = f.log /\ h.first = f.first /\ h.unique = FALSE /\ h.catalog = f.catalog
      /\ h.derived = Nothing /\ h.identity = f.identity /\ h.heap = f.heap
  BY <1>2 DEF CopyOf
<1>4. /\ g \in FilesType /\ g.log = f.log /\ g.first = f.first /\ g.unique = f.unique
      /\ g.catalog = f.catalog /\ g.derived = Nothing /\ g.identity = f.identity /\ g.heap = f.heap
  <2>1. db.unique = f.unique /\ f.unique \in BOOLEAN
    BY <1>1 DEF Serves, FilesType
  <2>2. CASE db.unique
    BY <1>2, <1>3, <2>1, <2>2 DEF FilesType, write_constraints
  <2>3. CASE ~ db.unique
    BY <1>2, <1>3, <2>1, <2>3
  <2> QED
    BY <2>2, <2>3
<1>5. /\ o \in OpenType /\ o.dir = d /\ o.short = db.short /\ o.rows = db.rows /\ o.index = db.index
      /\ o.indexed = db.indexed /\ o.unique = db.unique /\ o.stage = "none" /\ o.dest = Nothing
  BY <1>1 DEF OpenType, Stages
<1>6. /\ dirs' = [dirs EXCEPT ![t] = g] /\ past' = [past EXCEPT ![t] = past[d]] /\ db' = o
      /\ want' = [want EXCEPT ![t] = want[d]] /\ foreign' = foreign
      /\ murky' = (IF d \in murky \cup foreign THEN murky ELSE murky \ {t})
      /\ minted' = minted /\ opens' = opens /\ copies' = copies /\ past' = past
  BY <1>2 DEF copy_unique, bounds, RestoreIInv, DirsTyped
<1> HIDE DEF g, o
<1>7. Sensible(g, past[d]) /\ ExactCache(g)
  <2> HIDE DEF d, f
  <2> QED
    BY <1>1, <1>4, CopySensible
<1>8. dirs'[d] = f /\ want'[d] = want[d]
  BY <1>1, <1>2, <1>6 DEF RestoreIInv, DirsTyped
<1>9. OpenSensible'
  <2>1. Serves(o, f)
    BY <1>1, <1>5, Things DEF Serves, Copying
  <2>2. d \in Sound' /\ ~ db.short => Shows(o, want[d])
    BY <1>1, <1>2, <1>5, <1>6 DEF RestoreIInv, OpenSensible, Sound, Shows
  <2> HIDE DEF d, t, f, h
  <2> QED
    BY <1>5, <1>6, <1>8, <2>1, <2>2 DEF OpenSensible, Copying
<1>10. (\A x \in Sound' \ {t} : x \in Sound) /\ murky' \subseteq Dirs /\ foreign' \subseteq Dirs
  BY <1>2, <1>6 DEF Sound, RestoreIInv, DirsTyped
<1>11. copies' \in 0 .. MaxCopies /\ db' \in OpenType \cup {Closed} /\ g.identity <= minted
  BY <1>2, <1>4, <1>5, <1>6 DEF RestoreIInv, DirsTyped
<1>12. ASSUME t \in Sound' PROVE Retained(g, past[d], want[d])
  <2>1. d \in Sound
    BY <1>1, <1>2, <1>6, <1>12 DEF Sound
  <2>2. Retained(f, past[d], want[d])
    BY <2>1 DEF RestoreIInv, DirsKept
  <2>3. Catalog(g) = Catalog(f)
    BY <1>4 DEF Catalog
  <2> HIDE DEF d, f
  <2> QED
    BY <1>4, <2>2, <2>3, KeptAlike
<1> HIDE DEF h
<1> QED
  BY <1>1, <1>2, <1>4, <1>6, <1>7, <1>9, <1>10, <1>11, <1>12, OtherStep

LEMMA RestoreFromKeepsInv ==
    ASSUME RestoreIInv, NEW src \in Dirs, NEW dest \in Dirs, restore_from(src, dest) PROVE RestoreIInv'
<1> DEFINE g == dirs[src]
<1>1. /\ g \in FilesType /\ past[src] \in Seq(RowsType) /\ want[src] \in ToldType
      /\ g.identity <= minted /\ Sensible(g, past[src]) /\ ExactCache(g)
  BY DEF RestoreIInv, DirsTyped, DirsSensible
<1>2. /\ dirs' = [dirs EXCEPT ![dest] = g] /\ past' = [past EXCEPT ![dest] = past[src]]
      /\ want' = [want EXCEPT ![dest] = want[src]]
      /\ minted' = minted /\ opens' = opens /\ db' = db /\ dirs[dest] = NoDir
      /\ murky' = (IF src \in murky THEN murky \cup {dest} ELSE murky)
      /\ foreign' = (IF src \in foreign THEN foreign \cup {dest} ELSE foreign)
  BY DEF restore_from
<1>3. copies' \in 0 .. MaxCopies
  BY RestoreAssumption DEF restore_from, RestoreIInv, DirsTyped
<1>4. /\ murky \subseteq murky' /\ foreign \subseteq foreign' /\ murky' \subseteq Dirs
      /\ foreign' \subseteq Dirs /\ db' \in OpenType \cup {Closed}
  BY <1>2 DEF RestoreIInv, DirsTyped
<1>5. dest \in Sound' => Retained(g, past[src], want[src])
  BY <1>2 DEF Sound, RestoreIInv, DirsKept
<1>6. \A d \in Sound' \ {dest} : d \in Sound
  BY <1>4 DEF Sound
<1>7. OpenSensible'
  <2>1. IsOpen => db.dir # dest
    BY <1>2, Opens DEF NoDir
  <2>2. IsOpen /\ db.stage \in Copying => db.dest # dest
    <3>1. SUFFICES ASSUME IsOpen, db.stage \in Copying, db.dest = dest PROVE FALSE
      OBVIOUS
    <3>2. dirs[dest].identity = dirs[db.dir].identity
      BY <3>1, Copies DEF CopyOf
    <3> QED
      BY <1>2, <3>1, <3>2, Opens DEF NoDir
  <2> QED
    BY <1>2, <1>4, <2>1, <2>2, Opens, Copies, OpenUntouched DEF RestoreIInv, DirsTyped
<1> QED
  BY <1>1, <1>2, <1>3, <1>4, <1>5, <1>6, <1>7, OtherStep

LEMMA CopyCacheKeepsInv ==
    ASSUME RestoreIInv, NEW src \in Dirs, NEW dest \in Dirs, copy_cache(src, dest) PROVE RestoreIInv'
<1> DEFINE h == dirs[dest]
           c == dirs[src].derived
           g == [h EXCEPT !.derived = c]
<1>1. /\ h \in FilesType /\ past[dest] \in Seq(RowsType) /\ want[dest] \in ToldType
      /\ h.identity <= minted /\ Sensible(h, past[dest]) /\ c \in CacheType \cup {Nothing}
  BY DEF RestoreIInv, DirsTyped, DirsSensible, FilesType
<1>2. /\ dirs' = [dirs EXCEPT ![dest] = g] /\ past' = [past EXCEPT ![dest] = past[dest]]
      /\ want' = [want EXCEPT ![dest] = want[dest]]
      /\ minted' = minted /\ opens' = opens /\ db' = db /\ ~ IsOpen
      /\ murky' = murky /\ foreign' = foreign
      /\ h.identity # 0 /\ c.stamp.identity # h.identity
  BY DEF copy_cache, RestoreIInv, DirsTyped, ghosts
<1>3. copies' \in 0 .. MaxCopies
  BY RestoreAssumption DEF copy_cache, RestoreIInv, DirsTyped
<1>4. /\ g \in FilesType /\ g.log = h.log /\ g.first = h.first /\ g.unique = h.unique
      /\ g.catalog = h.catalog /\ g.derived = c /\ g.identity = h.identity /\ g.heap = h.heap
  BY <1>1 DEF FilesType
<1>5. /\ murky' \subseteq Dirs /\ foreign' \subseteq Dirs /\ db' \in OpenType \cup {Closed}
      /\ Sound' = Sound
  BY <1>2 DEF RestoreIInv, DirsTyped, Sound
<1>6. OpenSensible'
  BY <1>2 DEF OpenSensible, IsOpen
<1> HIDE DEF c, g
<1>7. Catalog(g) = Catalog(h) /\ ~ Own(g)
  BY <1>2, <1>4 DEF Catalog, Own
<1>8. Sensible(g, past[dest]) /\ ExactCache(g)
  BY <1>1, <1>2, <1>4, <1>7 DEF Sensible, ExactCache, Current
<1>9. dest \in Sound' => Retained(g, past[dest], want[dest])
  <2>1. dest \in Sound' => Retained(h, past[dest], want[dest])
    BY <1>5 DEF RestoreIInv, DirsKept
  <2> HIDE DEF h
  <2> QED
    BY <1>4, <1>7, <2>1, KeptAlike
<1> HIDE DEF h
<1> QED
  BY <1>1, <1>2, <1>3, <1>4, <1>5, <1>6, <1>8, <1>9, OtherStep

\* Supplied segments without a checkpoint carry on from where the copy's own log ends.
LEMMA SuppliedKept ==
    ASSUME NEW f \in FilesType, NEW p \in Seq(RowsType), NEW v \in ToldType,
           Sensible(f, p), Retained(f, p, v),
           NEW h \in FilesType, NEW q \in Seq(RowsType), NEW w \in ToldType,
           Sensible(h, q), Retained(h, q, w),
           Len(h.log) < Len(f.log), h.log = SubSeq(f.log, 1, Len(h.log)),
           \A l \in Len(h.log) + 1 .. Len(f.log) : f.log[l].op # "checkpoint",
           NEW g, g = [h EXCEPT !.log = f.log]
    PROVE  Retained(g, p, [v EXCEPT !.unique = w.unique])
<1> DEFINE n == Len(h.log)
           m == Len(f.log)
           u == [v EXCEPT !.unique = w.unique]
<1>1. /\ n \in Nat /\ m \in Nat /\ n < m /\ DOMAIN h.log = 1 .. n /\ DOMAIN f.log = 1 .. m
      /\ f.log \in Seq(EntryType) /\ h.log \in Seq(EntryType)
  BY LenProperties DEF FilesType
<1>2. \A l \in 1 .. n : h.log[l] = f.log[l]
  BY <1>1
<1>3. /\ g.log = f.log /\ g.heap = h.heap /\ g.first = h.first /\ g.unique = h.unique
      /\ g.catalog = h.catalog /\ g.identity = h.identity
  BY DEF FilesType
<1>4. u.rows = v.rows /\ u.indexed = v.indexed /\ u.unique = w.unique
  BY DEF ToldType
<1>5. Catalog(g) = Catalog(h) /\ from_lsn(g) = from_lsn(h) /\ from_lsn(h) \in 0 .. n
      /\ (Catalog(h) # Nothing => Catalog(h).through \in 0 .. n - 1)
  <2>1. Catalog(g) = Catalog(h) /\ from_lsn(g) = from_lsn(h)
    BY <1>3 DEF Catalog, from_lsn
  <2>2. Catalog(h) # Nothing => Catalog(h).through \in Nat
    BY Sights DEF CatalogType
  <2>3. from_lsn(h) \in 0 .. n
    BY Sights
  <2>4. Catalog(h) # Nothing => Catalog(h).through < n
    BY DEF Sensible
  <2> HIDE DEF n
  <2> QED
    BY <1>1, <2>1, <2>2, <2>3, <2>4
<1> HIDE DEF u
<1>6. Catalog(g) # Nothing => Catalog(g).indexed = HasIndex(g.log, Catalog(g).through)
  <2>1. ASSUME NEW k \in 0 .. n - 1 PROVE HasIndex(f.log, k) = HasIndex(h.log, k)
    <3>1. HasIndex(f.log, k) <=> \E l \in 1 .. n : l <= k /\ h.log[l].op = "index"
      <4>1. \A l \in 1 .. m : l <= k => l \in 1 .. n
        BY <1>1
      <4>2. \A l \in 1 .. n : l \in 1 .. m
        BY <1>1
      <4> HIDE DEF n, m
      <4> QED
        BY <1>1, <1>2, <4>1, <4>2 DEF HasIndex
    <3>2. HasIndex(h.log, k) <=> \E l \in 1 .. n : l <= k /\ h.log[l].op = "index"
      BY <1>1 DEF HasIndex
    <3> QED
      BY <3>1, <3>2 DEF HasIndex
  <2> QED
    BY <1>3, <1>5, <2>1 DEF Retained
<1>7. ASSUME NEW i \in Ids, Covered(g, i) PROVE g.heap[i] = u.rows[i]
  <2>1. ASSUME NEW l \in 1 .. m, l > from_lsn(h), IsPut(f.log[l], i)
        PROVE  \E c \in 1 .. n : l < c /\ f.log[c].op = "checkpoint"
    <3>1. PICK c \in 1 .. m : l < c /\ f.log[c].op = "checkpoint"
      BY <1>1, <1>3, <1>5, <1>7, <2>1 DEF Covered
    <3> QED
      BY <1>1, <3>1
  <2>2. Covered(h, i)
    BY <1>1, <1>2, <2>1 DEF Covered
  <2>3. \A l \in n + 1 .. m : ~ IsPut(f.log[l], i)
    <3>1. ASSUME NEW l \in n + 1 .. m, IsPut(f.log[l], i) PROVE FALSE
      <4>1. l \in 1 .. m /\ l > from_lsn(h)
        BY <1>1, <1>5
      <4>2. PICK c \in 1 .. n : l < c
        BY <2>1, <3>1, <4>1
      <4> QED
        BY <1>1, <4>2
    <3> QED
      BY <3>1
  <2>4. RowsOf(q, n) = RowsOf(p, n)
    <3>1. Len(q) = n /\ Len(p) = m /\ Replays(h.log, q) /\ Replays(f.log, p) /\ n \in 0 .. n /\ n <= m
      BY <1>1 DEF Sensible, Retained
    <3> HIDE DEF n, m
    <3> QED
      BY <1>1, <1>2, <3>1, SamePast DEF n, m
  <2>5. RowsOf(p, m)[i] = RowsOf(p, n)[i]
    <3>1. Len(p) = m /\ Replays(f.log, p) /\ m \in n .. m
      BY <1>1 DEF Sensible, Retained
    <3> QED
      BY <1>1, <2>3, <3>1, NoPutNoChange
  <2>6. h.heap[i] = w.rows[i] /\ w.rows = RowsOf(q, n) /\ v.rows = RowsOf(p, m)
    BY <2>2 DEF Retained
  <2> QED
    BY <1>3, <1>4, <2>4, <2>5, <2>6
<1> QED
  BY <1>3, <1>4, <1>5, <1>6, <1>7 DEF Retained, u

LEMMA SupplyKeepsInv ==
    ASSUME RestoreIInv, NEW src \in Dirs, NEW dest \in Dirs, supply_log(src, dest) PROVE RestoreIInv'
<1> DEFINE f == dirs[src]
           h == dirs[dest]
           g == [h EXCEPT !.log = f.log]
           w == [want[src] EXCEPT !.unique = want[dest].unique]
<1>1. /\ f \in FilesType /\ past[src] \in Seq(RowsType) /\ want[src] \in ToldType
      /\ Sensible(f, past[src])
      /\ h \in FilesType /\ past[dest] \in Seq(RowsType) /\ want[dest] \in ToldType
      /\ h.identity <= minted /\ Sensible(h, past[dest]) /\ ExactCache(h)
  BY DEF RestoreIInv, DirsTyped, DirsSensible
<1>2. /\ dirs' = [dirs EXCEPT ![dest] = g] /\ past' = [past EXCEPT ![dest] = past[src]]
      /\ want' = [want EXCEPT ![dest] = w]
      /\ minted' = minted /\ opens' = opens /\ db' = db
      /\ murky' = (IF src \in murky THEN murky \cup {dest} ELSE murky)
      /\ h.identity # 0 /\ Len(h.log) < Len(f.log) /\ h.log = SubSeq(f.log, 1, Len(h.log))
      /\ IsOpen => dest \notin {db.dir, db.dest}
  <2>1. dirs' = [dirs EXCEPT ![dest] = g]
    BY <1>1 DEF supply_log, RestoreIInv, DirsTyped
  <2> QED
    BY <2>1 DEF supply_log
<1>3. foreign' = (IF src \in foreign \/ \E l \in (Len(h.log) + 1) .. Len(f.log) : f.log[l].op = "checkpoint"
                    THEN foreign \cup {dest} ELSE foreign)
  BY DEF supply_log
<1>4. copies' \in 0 .. MaxCopies
  BY RestoreAssumption DEF supply_log, RestoreIInv, DirsTyped
<1>5. /\ murky \subseteq murky' /\ foreign \subseteq foreign' /\ murky' \subseteq Dirs
      /\ foreign' \subseteq Dirs /\ db' \in OpenType \cup {Closed}
  BY <1>2, <1>3 DEF RestoreIInv, DirsTyped
<1>6. /\ g \in FilesType /\ g.log = f.log /\ g.first = h.first /\ g.unique = h.unique
      /\ g.catalog = h.catalog /\ g.derived = h.derived /\ g.identity = h.identity /\ g.heap = h.heap
  BY <1>1 DEF FilesType
<1>7. w \in ToldType
  BY <1>1 DEF ToldType
<1>8. Catalog(g) = Catalog(h) /\ (Own(g) <=> Own(h)) /\ Len(h.log) \in Nat /\ Len(f.log) \in Nat
  BY <1>1, <1>6, Sights DEF Catalog, Own
<1> HIDE DEF g
<1>9. Sensible(g, past[src])
  <2>1. Catalog(g) # Nothing => Catalog(g).through < Len(g.log)
    <3>1. Catalog(h) # Nothing => Catalog(h).through \in Nat /\ Catalog(h).through < Len(h.log)
      BY <1>1, Sights DEF CatalogType, Sensible
    <3> HIDE DEF f, h
    <3> QED
      BY <1>2, <1>6, <1>8, <3>1
  <2>2. g.first <= Len(g.log) + 1
    <3>1. h.first \in Nat /\ h.first <= Len(h.log) + 1
      BY <1>1 DEF FilesType, Sensible
    <3> HIDE DEF f, h
    <3> QED
      BY <1>2, <1>6, <1>8, <3>1
  <2> QED
    BY <1>1, <1>2, <1>6, <2>1, <2>2 DEF Sensible
<1>10. ExactCache(g)
  <2>1. Own(h) => h.derived.stamp.lsn \in Nat /\ h.derived.stamp.lsn <= Len(h.log) + 1
    BY <1>1 DEF Own, FilesType, CacheType, ExactCache
  <2> HIDE DEF f, h
  <2> QED
    BY <1>2, <1>6, <1>8, <2>1 DEF ExactCache, Current
<1>11. ASSUME dest \in Sound' PROVE Retained(g, past[src], w)
  <2>1. src \in Sound /\ dest \in Sound
    BY <1>2, <1>3, <1>5, <1>11 DEF Sound
  <2>2. \A l \in Len(h.log) + 1 .. Len(f.log) : f.log[l].op # "checkpoint"
    BY <1>3, <1>11 DEF Sound
  <2>3. Retained(f, past[src], want[src]) /\ Retained(h, past[dest], want[dest])
    BY <2>1 DEF RestoreIInv, DirsKept
  <2> HIDE DEF f, h
  <2> QED
    BY <1>1, <1>2, <2>2, <2>3, SuppliedKept DEF g
<1>12. \A d \in Sound' \ {dest} : d \in Sound
  BY <1>5 DEF Sound
<1>13. OpenSensible'
  BY <1>2, <1>5, Opens, Copies, OpenUntouched DEF RestoreIInv, DirsTyped
<1> HIDE DEF f, h, w
<1> QED
  BY <1>1, <1>2, <1>4, <1>5, <1>6, <1>7, <1>9, <1>10, <1>11, <1>12, <1>13, OtherStep

LEMMA EndsKeepsInv == ASSUME RestoreIInv, ends PROVE RestoreIInv'
<1>1. /\ db' = Closed /\ dirs' = dirs /\ minted' = minted /\ want' = want /\ past' = past
      /\ murky' = murky /\ foreign' = foreign /\ opens' = opens /\ copies' = copies
  BY DEF ends, ghosts, bounds
<1>2. OpenSensible'
  BY <1>1 DEF OpenSensible, IsOpen
<1> QED
  BY <1>1, <1>2 DEF RestoreIInv, DirsTyped, DirsSensible, DirsKept, Sound

\* The files an opening finds, a superblock made for a directory that had none.
LEMMA Created ==
    ASSUME RestoreIInv, NEW d \in Dirs, NEW f, f = open_or_create(dirs[d])
    PROVE  /\ f \in FilesType /\ f.identity # 0 /\ f.identity <= minted + 1 /\ Sensible(f, past[d]) /\ ExactCache(f)
           /\ f.log = dirs[d].log /\ f.heap = dirs[d].heap /\ f.first = dirs[d].first
           /\ f.unique = dirs[d].unique /\ Catalog(f) = Catalog(dirs[d])
           /\ past[d] \in Seq(RowsType) /\ want[d] \in ToldType /\ minted \in Nat
<1> DEFINE h == dirs[d]
<1>1. /\ h \in FilesType /\ h.identity <= minted /\ Sensible(h, past[d]) /\ ExactCache(h) /\ minted \in Nat
      /\ past[d] \in Seq(RowsType) /\ want[d] \in ToldType
  BY DEF RestoreIInv, DirsTyped, DirsSensible
<1>2. CASE h.identity # 0
  <2>1. f = h /\ h.identity \in Nat
    BY <1>1, <1>2 DEF open_or_create, FilesType
  <2> HIDE DEF h
  <2> QED
    BY <1>1, <1>2, <2>1 DEF h
<1>3. CASE h.identity = 0
  <2>1. h = NoDir /\ f = [NoDir EXCEPT !.identity = minted + 1]
    BY <1>1, <1>3 DEF open_or_create, Sensible
  <2>2. /\ f.log = h.log /\ f.heap = h.heap /\ f.first = h.first /\ f.unique = h.unique
        /\ f.catalog = Nothing /\ h.catalog = Nothing /\ f.derived = Nothing /\ f.identity = minted + 1
    BY <2>1 DEF NoDir
  <2>3. f \in FilesType
    BY <1>1, <2>1 DEF FilesType
  <2>4. Catalog(f) = Nothing /\ Catalog(h) = Nothing /\ ~ Own(f)
    BY <2>2 DEF Catalog, Own
  <2>5. Sensible(f, past[d]) /\ ExactCache(f)
    BY <1>1, <2>2, <2>4 DEF Sensible, ExactCache, Current
  <2> HIDE DEF h
  <2> QED
    BY <1>1, <2>2, <2>3, <2>4, <2>5 DEF h
<1> QED
  BY <1>2, <1>3

LEMMA OpenAtKeepsInv ==
    ASSUME RestoreIInv, NEW d \in Dirs, NEW t \in 0 .. MaxDirLog, open_at(d, t) PROVE RestoreIInv'
<1> DEFINE f == open_or_create(dirs[d])
           o == Opened(d, f, t)
<1>1. /\ f \in FilesType /\ f.identity # 0 /\ f.identity <= minted + 1 /\ Sensible(f, past[d]) /\ ExactCache(f)
      /\ f.log = dirs[d].log /\ f.heap = dirs[d].heap /\ f.first = dirs[d].first
      /\ f.unique = dirs[d].unique /\ Catalog(f) = Catalog(dirs[d])
      /\ past[d] \in Seq(RowsType) /\ want[d] \in ToldType /\ minted \in Nat /\ f.identity \in Nat
  BY Created DEF FilesType
<1>2. /\ dirs' = [dirs EXCEPT ![d] = f] /\ db' = o
      /\ minted' = (IF f.identity > minted THEN f.identity ELSE minted)
      /\ want' = want /\ past' = past /\ murky' = murky /\ foreign' = foreign /\ copies' = copies
      /\ opens < MaxOpens /\ opens' = opens + 1 /\ t \in 0 .. Len(dirs[d].log)
  BY DEF open_at, ghosts
<1>3. t \in Nat /\ Len(f.log) \in Nat
  BY <1>1, RestoreAssumption, Sights
<1>4. o \in OpenType /\ Serves(o, f)
  <2> HIDE DEF f
  <2> QED
    BY <1>1, <1>3, OpenedServes
<1>5. o.dir = d /\ o.stage = "none" /\ o.short = (t < Len(f.log))
  BY DEF Opened
<1> HIDE DEF f
<1>6. minted' \in Nat /\ minted <= minted' /\ f.identity <= minted'
  BY <1>1, <1>2
<1>7. DirsTyped'
  <2>1. opens' \in 0 .. MaxOpens
    BY <1>2, RestoreAssumption DEF RestoreIInv, DirsTyped
  <2> QED
    BY <1>1, <1>2, <1>4, <1>6, <2>1 DEF RestoreIInv, DirsTyped
<1>8. dirs'[d] = f /\ \A x \in Dirs \ {d} : dirs'[x] = dirs[x]
  BY <1>2 DEF RestoreIInv, DirsTyped
<1>9. DirsSensible'
  <2>1. ASSUME NEW x \in Dirs
        PROVE  dirs'[x].identity <= minted' /\ Sensible(dirs'[x], past'[x]) /\ ExactCache(dirs'[x])
    <3>1. CASE x = d
      BY <1>1, <1>2, <1>6, <1>8, <3>1
    <3>2. CASE x # d
      <4>1. /\ dirs[x].identity <= minted /\ dirs[x].identity \in Nat
            /\ Sensible(dirs[x], past[x]) /\ ExactCache(dirs[x])
        BY DEF RestoreIInv, DirsSensible, DirsTyped, FilesType
      <4> QED
        BY <1>1, <1>2, <1>6, <1>8, <3>2, <4>1
    <3> QED
      BY <3>1, <3>2
  <2> QED
    BY <2>1 DEF DirsSensible
<1>10. ASSUME d \in Sound PROVE Retained(f, past[d], want[d])
  <2>1. Retained(dirs[d], past[d], want[d])
    BY <1>10 DEF RestoreIInv, DirsKept
  <2> QED
    BY <1>1, <2>1, KeptAlike
<1>11. Sound' = Sound
  BY <1>2 DEF Sound
<1>12. DirsKept'
  BY <1>2, <1>8, <1>10, <1>11 DEF RestoreIInv, DirsKept, Sound
<1>13. OpenSensible'
  <2>1. d \in Sound /\ ~ o.short => Shows(o, want[d])
    <3>1. SUFFICES ASSUME d \in Sound, ~ o.short PROVE Shows(o, want[d])
      OBVIOUS
    <3>2. t = Len(f.log)
      <4>1. t \in 0 .. Len(f.log)
        BY <1>1, <1>2
      <4>2. ~ (t < Len(f.log))
        BY <1>5, <3>1
      <4> QED
        BY <1>3, <4>1, <4>2
    <3>3. o.rows = RecoveredRows(f, Len(f.log)) /\ o.indexed = Indexed(f, Len(f.log))
      BY <3>2 DEF Opened
    <3> HIDE DEF o
    <3> QED
      BY <1>1, <1>10, <3>1, <3>3, OpenTells DEF Shows
  <2> HIDE DEF o
  <2> QED
    BY <1>2, <1>4, <1>5, <1>8, <1>11, <2>1 DEF OpenSensible, Copying
<1> QED
  BY <1>7, <1>9, <1>12, <1>13 DEF RestoreIInv

LEMMA RestoreInitially == ASSUME RestoreInit PROVE RestoreIInv
<1>1. NoDir \in FilesType /\ NoRows \in ToldType
  BY DEF NoDir, NoRows, FilesType, ToldType, Empty, RowsType, Cells
<1>2. DirsTyped
  <2>1. 0 \in 0 .. MaxOpens /\ 0 \in 0 .. MaxCopies
    BY RestoreAssumption
  <2> QED
    BY <1>1, <2>1 DEF RestoreInit, DirsTyped
<1>3. /\ NoDir.log = <<>> /\ NoDir.first = 1 /\ NoDir.identity = 0 /\ NoDir.heap = Empty
      /\ NoDir.catalog = Nothing /\ NoDir.derived = Nothing /\ NoDir.unique = FALSE
      /\ Len(<<>>) = 0 /\ DOMAIN <<>> = {}
  BY DEF NoDir
<1>4. Catalog(NoDir) = Nothing /\ ~ Own(NoDir) /\ from_lsn(NoDir) = 0
  BY <1>3 DEF Catalog, Own, from_lsn
<1>5. Sensible(NoDir, <<>>) /\ ExactCache(NoDir)
  BY <1>3, <1>4, RestoreAssumption DEF Sensible, ExactCache, Current
<1>6. Retained(NoDir, <<>>, NoRows)
  <2>1. HasIndex(<<>>, 0) = FALSE /\ Replays(<<>>, <<>>)
    BY <1>3 DEF HasIndex, Replays
  <2>2. NoRows.rows = Empty /\ NoRows.unique = FALSE /\ NoRows.indexed = FALSE
    BY DEF NoRows
  <2> QED
    <3>1. /\ 1 <= from_lsn(NoDir) + 1 /\ NoRows.rows = RowsOf(<<>>, 0)
          /\ \A i \in Ids : NoDir.heap[i] = NoRows.rows[i]
      BY <1>3, <1>4, <2>2 DEF RowsOf
    <3> QED
      BY <1>3, <1>4, <2>1, <2>2, <3>1, Zenon DEF Retained
<1>7. \A d \in Dirs : dirs[d] = NoDir /\ past[d] = <<>> /\ want[d] = NoRows /\ minted = 0
  BY DEF RestoreInit
<1>8. DirsSensible
  BY <1>3, <1>5, <1>7 DEF DirsSensible
<1>9. DirsKept
  BY <1>6, <1>7 DEF DirsKept, Sound
<1>10. OpenSensible
  BY DEF OpenSensible, IsOpen, RestoreInit
<1> QED
  BY <1>2, <1>8, <1>9, <1>10 DEF RestoreIInv

LEMMA RestoreStep == ASSUME RestoreIInv, RestoreNext PROVE RestoreIInv'
<1>1. CASE \E d \in Dirs, t \in 0 .. MaxDirLog : open_at(d, t)
  BY <1>1, OpenAtKeepsInv
<1>2. CASE ends
  BY <1>2, EndsKeepsInv
<1>3. CASE \E i \in Ids, v \in Cells : put(i, v)
  BY <1>3, PutKeepsInv
<1>4. CASE \E on \in BOOLEAN : declare_cluster_field(on)
  BY <1>4, DeclareKeepsInv
<1>5. CASE add_unique_constraint
  BY <1>5, AddKeepsInv
<1>6. CASE drop_unique_constraint
  BY <1>6, DropKeepsInv
<1>7. CASE \E i \in Ids : evict(i)
  BY <1>7, EvictKeepsInv
<1>8. CASE begin_checkpoint(Nothing)
  <2>1. Nothing # db.dir
    BY <1>8, Opens, Things DEF begin_checkpoint, Free
  <2> QED
    BY <1>8, <2>1, BeginKeepsInv
<1>9. CASE \E dest \in Dirs : backup_to(dest)
  BY <1>9, BeginKeepsInv DEF backup_to
<1>10. CASE write_catalog
  BY <1>10, CatalogKeepsInv
<1>11. CASE discard_segments
  BY <1>11, DiscardKeepsInv
<1>12. CASE save_derived
  BY <1>12, DeriveKeepsInv
<1>13. CASE copy_store
  BY <1>13, CopyStoreKeepsInv
<1>14. CASE copy_catalog
  BY <1>14, CopyCatalogKeepsInv
<1>15. CASE copy_unique
  BY <1>15, CopyUniqueKeepsInv
<1>16. CASE \E src, dest \in Dirs : restore_from(src, dest) \/ supply_log(src, dest) \/ copy_cache(src, dest)
  BY <1>16, RestoreFromKeepsInv, SupplyKeepsInv, CopyCacheKeepsInv
<1> QED
  BY <1>1, <1>2, <1>3, <1>4, <1>5, <1>6, <1>7, <1>8, <1>9, <1>10, <1>11, <1>12, <1>13, <1>14, <1>15, <1>16
     DEF RestoreNext

\* The directories' invariant holds in every state the database and its operators reach.
THEOREM RestoreInductive == RestoreSpec => []RestoreIInv
<1>1. RestoreInit => RestoreIInv
  BY RestoreInitially
<1>2. RestoreIInv /\ [RestoreNext]_restorevars => RestoreIInv'
  <2>1. SUFFICES ASSUME RestoreIInv, [RestoreNext]_restorevars PROVE RestoreIInv'
    OBVIOUS
  <2>2. CASE RestoreNext
    BY <2>1, <2>2, RestoreStep
  <2>3. CASE UNCHANGED restorevars
    BY <2>1, <2>3 DEF restorevars, RestoreIInv, DirsTyped, DirsSensible, DirsKept, Sound,
                      OpenSensible, IsOpen
  <2> QED
    BY <2>1, <2>2, <2>3
<1> QED
  BY <1>1, <1>2, PTL DEF RestoreSpec

\* Whatever is crashed, copied, restored or supplied, the files stay well-formed, an open
\* database's index describes its rows (adabt-storage derived.rs read), and every whole
\* directory can be opened (heap.rs recover).
THEOREM RestoreIsTrue == RestoreSpec => []RestoreInvariant
<1>1. RestoreIInv => RestoreInvariant
  <2>1. SUFFICES ASSUME RestoreIInv PROVE RestoreInvariant
    OBVIOUS
  <2>2. RestoreTypeOK
    <3>1. ASSUME NEW d \in Dirs
          PROVE  /\ dirs[d].identity \in 0 .. minted /\ Len(dirs[d].log) <= MaxDirLog
                 /\ Len(past[d]) = Len(dirs[d].log)
                 /\ dirs[d].first \in 1 .. (Len(dirs[d].log) + 1)
                 /\ from_lsn(dirs[d]) <= Len(dirs[d].log)
                 /\ dirs[d].heap \in RowsType
      <4>1. /\ dirs[d] \in FilesType /\ Sensible(dirs[d], past[d]) /\ dirs[d].identity <= minted
            /\ minted \in Nat
        BY <2>1 DEF RestoreIInv, DirsTyped, DirsSensible
      <4>2. /\ dirs[d].identity \in Nat /\ dirs[d].first \in Nat \ {0} /\ dirs[d].heap \in RowsType
            /\ Len(dirs[d].log) \in Nat
        BY <4>1, Sights DEF FilesType
      <4>3. from_lsn(dirs[d]) \in 0 .. Len(dirs[d].log)
        BY <4>1, Sights
      <4> QED
        BY <4>1, <4>2, <4>3 DEF Sensible
    <3>2. IsOpen => /\ db.dir \in Dirs /\ db.rows \in RowsType /\ db.stage \in Stages
                    /\ dirs[db.dir].identity # 0
      BY <2>1, Opens DEF OpenType
    <3>3. opens <= MaxOpens /\ copies <= MaxCopies
      BY <2>1, RestoreAssumption DEF RestoreIInv, DirsTyped
    <3> QED
      BY <3>1, <3>2, <3>3 DEF RestoreTypeOK, Stages
  <2>3. IndexMatchesRows
    BY <2>1, Opens DEF IndexMatchesRows, Serves
  <2>4. WholeDirectoriesOpen
    <3>1. ASSUME NEW d \in Sound, Refused(dirs[d], Len(dirs[d].log)) PROVE FALSE
      <4>1. /\ dirs[d] \in FilesType /\ Sensible(dirs[d], past[d]) /\ Retained(dirs[d], past[d], want[d])
        BY <2>1 DEF RestoreIInv, DirsTyped, DirsSensible, DirsKept, Sound
      <4>2. from_lsn(dirs[d]) \in 0 .. Len(dirs[d].log) /\ Len(dirs[d].log) \in Nat
        BY <4>1, Sights
      <4>3. Catalog(dirs[d]) = Nothing /\ start_lsn_of(dirs[d]) > 0
        BY <3>1, <4>2 DEF Refused
      <4>4. from_lsn(dirs[d]) = 0
        BY <4>3 DEF from_lsn
      <4>5. dirs[d].first <= 1
        BY <4>1, <4>4 DEF Retained
      <4> QED
        BY <4>3, <4>5 DEF start_lsn_of
    <3> QED
      BY <3>1 DEF WholeDirectoriesOpen
  <2> QED
    BY <2>2, <2>3, <2>4 DEF RestoreInvariant
<1> QED
  BY <1>1, RestoreInductive, PTL

\* Opening a whole directory shows what its last user was told; and over pages that hold
\* what recovery takes them to hold, opening at a moment gives the rows of that moment
\* (heap.rs recover, database.rs open_at).
THEOREM OpensExactly == RestoreSpec => OpensAreExact
<1>1. RestoreIInv => ShowsWhatWasTold
  <2>1. SUFFICES ASSUME RestoreIInv, NEW d \in Sound, open_at(d, Len(dirs[d].log))
                 PROVE  /\ db'.rows = want[d].rows /\ db'.indexed = want[d].indexed
                        /\ db'.unique = want[d].unique
    BY DEF ShowsWhatWasTold
  <2> DEFINE f == open_or_create(dirs[d])
             t == Len(dirs[d].log)
  <2>2. /\ f \in FilesType /\ Sensible(f, past[d]) /\ f.log = dirs[d].log /\ f.heap = dirs[d].heap
        /\ f.first = dirs[d].first /\ f.unique = dirs[d].unique /\ Catalog(f) = Catalog(dirs[d])
        /\ past[d] \in Seq(RowsType) /\ want[d] \in ToldType
    BY <2>1, Created DEF Sound
  <2>3. Retained(dirs[d], past[d], want[d])
    BY <2>1 DEF RestoreIInv, DirsKept
  <2>4. db' = Opened(d, f, t)
    BY <2>1 DEF open_at
  <2>5. db'.rows = RecoveredRows(f, t) /\ db'.indexed = Indexed(f, t) /\ db'.unique = f.unique
    BY <2>4 DEF Opened, Constraints
  <2> HIDE DEF f
  <2>6. Retained(f, past[d], want[d])
    BY <2>2, <2>3, KeptAlike
  <2>7. want[d].unique = f.unique
    BY <2>6 DEF Retained
  <2> QED
    BY <2>2, <2>5, <2>6, <2>7, OpenTells
<1>2. RestoreIInv => StopsExactly
  <2>1. SUFFICES ASSUME RestoreIInv, NEW d \in Sound, NEW t \in 0 .. MaxDirLog, open_at(d, t),
                        dirs[d].heap = RowsAt(d, FlushedBy(d, t))
                 PROVE  db'.rows = RowsAt(d, t)
    BY DEF StopsExactly
  <2> DEFINE f == open_or_create(dirs[d])
  <2>2. /\ f \in FilesType /\ Sensible(f, past[d]) /\ f.log = dirs[d].log /\ f.heap = dirs[d].heap
        /\ f.first = dirs[d].first /\ f.unique = dirs[d].unique /\ Catalog(f) = Catalog(dirs[d])
        /\ past[d] \in Seq(RowsType)
    BY <2>1, Created DEF Sound
  <2>3. Retained(dirs[d], past[d], want[d])
    BY <2>1 DEF RestoreIInv, DirsKept
  <2>4. db' = Opened(d, f, t) /\ t \in 0 .. Len(dirs[d].log) /\ ~ Refused(f, t)
    BY <2>1 DEF open_at
  <2>5. db'.rows = RecoveredRows(f, t)
    BY <2>4 DEF Opened
  <2> HIDE DEF f
  <2>6. Retained(f, past[d], want[d])
    BY <2>2, <2>3, KeptAlike
  <2>7. from_lsn(f) = from_lsn(dirs[d]) /\ flushed_lsn(f, t) = flushed_lsn(dirs[d], t)
    BY <2>2 DEF from_lsn, flushed_lsn, Seen
  <2>8. f.heap = RowsOf(past[d], IF flushed_lsn(f, t) > from_lsn(f) THEN flushed_lsn(f, t) ELSE from_lsn(f))
    BY <2>1, <2>2, <2>7 DEF RowsAt, RowsOf, FlushedBy
  <2>9. from_lsn(f) <= t
    <3>1. from_lsn(f) \in 0 .. Len(f.log) /\ Len(f.log) \in Nat
      BY <2>2, Sights
    <3> QED
      BY <2>2, <2>4, <3>1 DEF Refused
  <2>10. t \in 0 .. Len(f.log) /\ f.first <= from_lsn(f) + 1 /\ Replays(f.log, past[d])
    BY <2>2, <2>4, <2>6 DEF Retained
  <2>11. RecoveredRows(f, t) = RowsOf(past[d], t)
    BY <2>2, <2>8, <2>9, <2>10, StopsAt
  <2> QED
    BY <2>5, <2>11 DEF RowsAt, RowsOf
<1>3. RestoreIInv /\ [RestoreNext]_restorevars => [ShowsWhatWasTold /\ StopsExactly]_restorevars
  BY <1>1, <1>2
<1> QED
  BY <1>3, RestoreInductive, PTL DEF RestoreSpec, OpensAreExact
=============================================================================
