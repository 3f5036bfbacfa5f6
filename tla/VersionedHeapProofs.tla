------------------------ MODULE VersionedHeapProofs ------------------------
(***************************************************************************)
(* Theorems of VersionedHeap and HeapVacuum, for every value of their      *)
(* constants: what is invariant in a heap, that it implements              *)
(* SnapshotStore, that its reclamation counter covers what there is to     *)
(* reclaim, and that a vacuum goes unnoticed.                              *)
(***************************************************************************)
EXTENDS HeapVacuum, FiniteSetTheorems, SequenceTheorems,
        WellFoundedInduction, TLAPS

-----------------------------------------------------------------------------
(* Least and greatest elements: what the CHOOSEs of the model rest on. *)

\* A nonempty set of naturals has a least element.
LEMMA NatMin ==
    ASSUME NEW S \in SUBSET Nat, S # {}
    PROVE  \E x \in S : \A y \in S : x <= y
<1>1. PICK x \in S : \A y \in S : ~ (<<y, x>> \in OpToRel(<, Nat))
  BY NatLessThanWellFounded, WFMin
<1>2. \A y \in S : ~ (y < x)
  BY <1>1 DEF OpToRel
<1> QED
  BY <1>2

\* A nonempty set of naturals below a bound has a greatest element.
LEMMA NatMax ==
    ASSUME NEW n \in Nat, NEW S \in SUBSET (0 .. n), S # {}
    PROVE  \E x \in S : \A y \in S : y <= x
<1> DEFINE T == {n - x : x \in S}
<1>1. T \in SUBSET Nat
  OBVIOUS
<1>a. T # {}
  OBVIOUS
<1>2. PICK t \in T : \A u \in T : t <= u
  BY <1>1, <1>a, NatMin
<1>3. PICK x \in S : t = n - x
  OBVIOUS
<1>4. \A y \in S : n - y \in T
  OBVIOUS
<1> QED
  BY <1>2, <1>3, <1>4

-----------------------------------------------------------------------------
(* Version chains *)

Chains == Seq(Versions)

\* How many versions reclaim_to drains.
Cut(chain, horizon) ==
    IF LastUpTo(chain, horizon) = 0 THEN 0 ELSE LastUpTo(chain, horizon) - 1

\* A chain is a function from its positions to typed versions.
LEMMA ChainType ==
    ASSUME NEW c \in Chains
    PROVE  /\ Len(c) \in Nat
           /\ \A i \in 1 .. Len(c) :
                c[i] \in Versions /\ c[i].txn \in Nat /\ c[i].loc \in Locations \cup {None}
<1>1. Len(c) \in Nat /\ \A i \in 1 .. Len(c) : c[i] \in Versions
  BY LenProperties, ElementOfSeq DEF Chains
<1> QED
  BY <1>1 DEF Versions

\* rposition finds the last version stamped at or before `at`.
LEMMA LastUpToLast ==
    ASSUME NEW c \in Chains, NEW at \in Nat
    PROVE  /\ LastUpTo(c, at) \in 0 .. Len(c)
           /\ LastUpTo(c, at) # 0 => c[LastUpTo(c, at)].txn <= at
           /\ \A j \in 1 .. Len(c) : c[j].txn <= at => j <= LastUpTo(c, at)
<1>1. Len(c) \in Nat
  BY ChainType
<1>2. CASE UpTo(c, at) = {}
  BY <1>1, <1>2 DEF LastUpTo, UpTo
<1>3. CASE UpTo(c, at) # {}
  <2>1. UpTo(c, at) \in SUBSET (0 .. Len(c))
    BY <1>1 DEF UpTo
  <2>2. \E i \in UpTo(c, at) : \A j \in UpTo(c, at) : j <= i
    BY <1>1, <1>3, <2>1, NatMax
  <2>3. /\ LastUpTo(c, at) \in UpTo(c, at)
        /\ \A j \in UpTo(c, at) : j <= LastUpTo(c, at)
    BY <1>3, <2>2 DEF LastUpTo
  <2> QED
    BY <1>1, <2>3 DEF UpTo
<1> QED
  BY <1>2, <1>3

\* ... and nothing else is that position.
LEMMA LastUpToOnly ==
    ASSUME NEW c \in Chains, NEW at \in Nat, NEW k \in 0 .. Len(c),
           k # 0 => c[k].txn <= at,
           \A j \in 1 .. Len(c) : c[j].txn <= at => j <= k
    PROVE  LastUpTo(c, at) = k
<1>1. Len(c) \in Nat /\ \A j \in 1 .. Len(c) : c[j].txn \in Nat
  BY ChainType
<1> DEFINE m == LastUpTo(c, at)
<1>2. /\ m \in 0 .. Len(c)
      /\ m # 0 => c[m].txn <= at
      /\ \A j \in 1 .. Len(c) : c[j].txn <= at => j <= m
  BY LastUpToLast
<1> HIDE DEF m
<1>3. m <= k
  BY <1>1, <1>2
<1>4. k <= m
  BY <1>1, <1>2
<1>5. m = k
  BY <1>1, <1>2, <1>3, <1>4
<1> QED
  BY <1>5 DEF m

\* A version stamped after `at` is not what a reader at `at` sees.
LEMMA AppendInvisible ==
    ASSUME NEW c \in Chains, NEW v \in Versions, NEW at \in Nat, v.txn > at
    PROVE  visible_at(Append(c, v), at) = visible_at(c, at)
<1>1. /\ Append(c, v) \in Chains
      /\ Len(Append(c, v)) = Len(c) + 1
      /\ \A i \in 1 .. Len(c) : Append(c, v)[i] = c[i]
      /\ Append(c, v)[Len(c) + 1] = v
  BY AppendProperties DEF Chains
<1>2. Len(c) \in Nat /\ v.txn \in Nat
  BY ChainType DEF Versions
<1> DEFINE k == LastUpTo(c, at)
<1>3. /\ k \in 0 .. Len(c)
      /\ k # 0 => c[k].txn <= at
      /\ \A j \in 1 .. Len(c) : c[j].txn <= at => j <= k
  BY LastUpToLast
<1>4. /\ k \in 0 .. Len(Append(c, v))
      /\ k # 0 => Append(c, v)[k].txn <= at
      /\ \A j \in 1 .. Len(Append(c, v)) : Append(c, v)[j].txn <= at => j <= k
  BY <1>1, <1>2, <1>3
<1>5. LastUpTo(Append(c, v), at) = k
  <2> HIDE DEF k
  <2> QED
    BY <1>1, <1>4, LastUpToOnly
<1> QED
  BY <1>1, <1>2, <1>3, <1>5 DEF visible_at

\* reclaim_to keeps the versions from position Cut + 1 on.
LEMMA ReclaimToSuffix ==
    ASSUME NEW c \in Chains, NEW h \in Nat
    PROVE  /\ Cut(c, h) \in 0 .. Len(c)
           /\ c # <<>> => Cut(c, h) < Len(c)
           /\ reclaim_to(c, h) \in Chains
           /\ Len(reclaim_to(c, h)) = Len(c) - Cut(c, h)
           /\ \A i \in 1 .. Len(c) - Cut(c, h) :
                reclaim_to(c, h)[i] = c[i + Cut(c, h)]
           /\ Drained(c, h) = {i \in 1 .. Cut(c, h) : c[i].loc # None}
<1> DEFINE k == LastUpTo(c, h)
<1>1. /\ Len(c) \in Nat
      /\ \A i \in 1 .. Len(c) : c[i] \in Versions
      /\ c # <<>> => Len(c) > 0
  BY ChainType, EmptySeq DEF Chains
<1>2. k \in 0 .. Len(c)
  BY LastUpToLast
<1>3. Drained(c, h) = {i \in 1 .. Cut(c, h) : c[i].loc # None}
  BY <1>1, <1>2 DEF Drained, Cut
<1>4. CASE k = 0
  BY <1>1, <1>3, <1>4 DEF reclaim_to, Cut
<1>5. CASE k # 0
  <2>1. \A i \in k .. Len(c) : c[i] \in Versions
    BY <1>1, <1>2, <1>5
  <2>2. /\ SubSeq(c, k, Len(c)) \in Seq(Versions)
        /\ Len(SubSeq(c, k, Len(c))) = Len(c) - k + 1
        /\ \A i \in 1 .. Len(c) - k + 1 : SubSeq(c, k, Len(c))[i] = c[k + i - 1]
    <3> HIDE DEF k
    <3> QED
      BY <1>1, <1>2, <2>1, SubSeqProperties
  <2> QED
    BY <1>1, <1>2, <1>3, <1>5, <2>2 DEF reclaim_to, Cut, Chains
<1> QED
  BY <1>4, <1>5

\* Pruning removes nothing but a lone tombstone.
LEMMA PrunedChain ==
    ASSUME NEW c \in Chains
    PROVE  /\ Pruned(c) \in Chains
           /\ \/ Pruned(c) = c
              \/ Pruned(c) = <<>> /\ Len(c) = 1 /\ c[1].loc = None
<1>1. <<>> \in Chains
  BY EmptySeq DEF Chains
<1>2. Len(c) = 1 => c # <<>>
  BY EmptySeq
<1> QED
  BY <1>1, <1>2 DEF Pruned, is_absent, newest

\* Reclaiming up to a horizon no later than `at` does not change what a reader
\* at `at` is shown.
LEMMA ReclaimInvisible ==
    ASSUME NEW c \in Chains, NEW h \in Nat, NEW at \in Nat, h <= at
    PROVE  visible_at(Pruned(reclaim_to(c, h)), at) = visible_at(c, at)
<1> DEFINE d == reclaim_to(c, h)
           k == LastUpTo(c, at)
           o == Cut(c, h)
<1>1. /\ Len(c) \in Nat
      /\ \A i \in 1 .. Len(c) : c[i].txn \in Nat
  BY ChainType
<1>2. /\ o \in 0 .. Len(c)
      /\ d \in Chains
      /\ Len(d) = Len(c) - o
      /\ \A i \in 1 .. Len(c) - o : d[i] = c[i + o]
  BY ReclaimToSuffix
<1>3. /\ k \in 0 .. Len(c)
      /\ k # 0 => c[k].txn <= at
      /\ \A j \in 1 .. Len(c) : c[j].txn <= at => j <= k
  BY LastUpToLast
<1>4. IF k = 0 THEN o = 0 ELSE o < k
  <2>1. /\ LastUpTo(c, h) \in 0 .. Len(c)
        /\ LastUpTo(c, h) # 0 => c[LastUpTo(c, h)].txn <= h
    BY LastUpToLast
  <2>2. LastUpTo(c, h) <= k
    <3> HIDE DEF k
    <3> QED
      BY <1>1, <1>3, <2>1
  <2> QED
    BY <1>3, <2>1, <2>2 DEF Cut
<1>5. LastUpTo(d, at) = k - o
  <2> HIDE DEF d, k, o
  <2>1. k - o \in 0 .. Len(d)
    BY <1>1, <1>2, <1>3, <1>4
  <2>2. k - o # 0 => d[k - o].txn <= at
    BY SMTT(30), <1>1, <1>2, <1>3, <1>4
  <2>3. ASSUME NEW j \in 1 .. Len(d), d[j].txn <= at PROVE j <= k - o
    <3>1. j + o \in 1 .. Len(c) /\ c[j + o].txn <= at
      BY <1>1, <1>2, <2>3
    <3> QED
      BY <1>1, <1>2, <1>3, <3>1
  <2> QED
    BY <1>2, <2>1, <2>2, <2>3, LastUpToOnly
<1>6. visible_at(d, at) = visible_at(c, at)
  <2>1. CASE k = 0
    BY <1>4, <1>5, <2>1 DEF visible_at
  <2>2. CASE k # 0
    <3>1. d[k - o] = c[k] /\ k - o # 0
      <4> HIDE DEF d, k, o
      <4> QED
        BY <1>1, <1>2, <1>3, <1>4, <2>2
    <3> QED
      BY <1>5, <2>2, <3>1 DEF visible_at
  <2> QED
    BY <2>1, <2>2
<1>7. CASE Pruned(d) = d
  BY <1>6, <1>7
<1>8. CASE Pruned(d) = <<>> /\ Len(d) = 1 /\ d[1].loc = None
  <2>1. visible_at(<<>>, at) = None
    BY EmptySeq DEF visible_at, LastUpTo, UpTo
  <2>2. LastUpTo(d, at) \in {0, 1}
    BY SMTT(30), <1>2, <1>8, LastUpToLast
  <2>3. visible_at(d, at) = None
    BY <1>8, <2>2 DEF visible_at
  <2> QED
    BY <1>6, <1>8, <2>1, <2>3
<1> QED
  BY <1>2, <1>7, <1>8, PrunedChain

-----------------------------------------------------------------------------
(* The horizon *)

\* Reclamation never passes a registered snapshot.
LEMMA HorizonBound ==
    ASSUME open \in [Holders -> Nat \cup {None}], NEW n \in Nat
    PROVE  /\ reclaim_horizon(n) \in Nat
           /\ \A h \in Holders : open[h] # None => reclaim_horizon(n) <= open[h]
<1>1. CASE Registered = {}
  BY <1>1 DEF Registered, reclaim_horizon, CurrentAt
<1>2. CASE Registered # {}
  <2> DEFINE S == {open[h] : h \in Registered}
  <2>1. S \in SUBSET Nat
    BY DEF Registered
  <2>2. S # {}
    BY <1>2
  <2>3. PICK m \in S : \A y \in S : m <= y
    BY <2>1, <2>2, NatMin
  <2>4. \E h \in Registered : \A g \in Registered : open[h] <= open[g]
    BY <2>3
  <2> DEFINE w == CHOOSE h \in Registered : \A g \in Registered : open[h] <= open[g]
  <2>5. w \in Registered /\ \A g \in Registered : open[w] <= open[g]
    BY <2>4
  <2>6. reclaim_horizon(n) = open[w]
    BY <1>2 DEF reclaim_horizon
  <2> HIDE DEF w
  <2> QED
    BY <2>5, <2>6 DEF Registered
<1> QED
  BY <1>1, <1>2

\* The versions one reclamation frees are finitely many.
LEMMA FreedFinite ==
    ASSUME NEW dir \in [Records -> Chains], NEW h \in Nat
    PROVE  Cardinality(Freed(dir, h)) \in Nat
<1> DEFINE f == [id \in Records |-> {<<id, i>> : i \in Drained(dir[id], h)}]
           T == {f[id] : id \in Records}
<1>1. ASSUME NEW id \in Records PROVE IsFiniteSet(f[id])
  <2> DEFINE g == [i \in Drained(dir[id], h) |-> <<id, i>>]
  <2>1. IsFiniteSet(Drained(dir[id], h))
    <3>1. Len(dir[id]) \in Nat
      BY ChainType
    <3>2. Drained(dir[id], h) \in SUBSET (1 .. Len(dir[id]))
      BY DEF Drained
    <3>3. IsFiniteSet(1 .. Len(dir[id]))
      BY <3>1, FS_Interval
    <3> QED
      BY <3>2, <3>3, FS_Subset
  <2>2. g \in Surjection(Drained(dir[id], h), f[id])
    BY DEF Surjection
  <2> QED
    BY <2>1, <2>2, FS_Surjection
<1>2. IsFiniteSet(T)
  <2>1. f \in Surjection(Records, T)
    BY DEF Surjection
  <2> QED
    BY <2>1, FS_Surjection, ConstantsAssumption DEF ConstantsAssumption
<1>3. \A t \in T : IsFiniteSet(t)
  BY <1>1
<1>4. IsFiniteSet(UNION T)
  BY <1>2, <1>3, FS_UNION
<1>5. Freed(dir, h) = UNION T
  BY DEF Freed
<1> QED
  BY <1>4, <1>5, FS_CardinalityType

-----------------------------------------------------------------------------
(* The inductive invariant, as a predicate of a heap: the operations pass    *)
(* through a heap they have written and not yet reclaimed.                   *)

HeapTyped(dir, sl, off, ret, pages, lw) ==
    /\ dir \in [Records -> Chains]
    /\ sl \in [Locations -> Payloads \cup {Dead}]
    /\ pages \in 0 .. MaxPages
    /\ off \subseteq 0 .. pages - 1
    /\ ret \in Nat
    /\ lw \in [Records -> Nat]

HeapOwned(dir, sl, pages) ==
    /\ NamedSlotsLive(dir, sl, pages)
    /\ SlotsNamedOnce(dir)
    /\ LiveSlotsNamed(dir, sl)

\* Stamps lie in the past, and the newest one is that of the last write.
Stamped(dir, n, lw) ==
    \A id \in Records :
        /\ lw[id] < n
        /\ \A i \in 1 .. Len(dir[id]) : dir[id][i].txn < n
        /\ dir[id] # <<>> => dir[id][Len(dir[id])].txn = lw[id]

\* A record written after a reader's snapshot still has its entry, and a chain
\* that begins with a tombstone begins at or before every reader's snapshot.
ReadersServed(dir, lw) ==
    \A r \in Readers : Held(opening, open, r) # None =>
        \A id \in Records :
            /\ lw[id] > Held(opening, open, r) => dir[id] # <<>>
            /\ dir[id] # <<>> /\ dir[id][1].loc = None
                 => dir[id][1].txn <= Held(opening, open, r)

HeapInv(dir, sl, off, ret, pages, n, lw) ==
    /\ HeapTyped(dir, sl, off, ret, pages, lw)
    /\ HeapOwned(dir, sl, pages)
    /\ Stamped(dir, n, lw)
    /\ ReadersServed(dir, lw)

\* Snapshots are of the past.
TrackerInv ==
    /\ next \in Nat \ {0}
    /\ opening \in [Holders -> Nat \cup {None}]
    /\ open \in [Holders -> Nat \cup {None}]
    /\ \A h \in Holders : opening[h] # None => opening[h] < next
    /\ \A h \in Holders : open[h] # None => open[h] < next

IInv ==
    /\ TrackerInv
    /\ HeapInv(directory, slots, offered, retained, pageCount, next, lastWrite)

\* What every open snapshot of this store reads is the same in both heaps.
SameForReaders(dir1, sl1, dir2, sl2) ==
    \A r \in Readers : open[r] # None =>
        \A id \in Records :
            get_at(dir2, sl2, id, open[r]) = get_at(dir1, sl1, id, open[r])

\* What a reader is shown is a location its chain names.
LEMMA VisibleIsNamed ==
    ASSUME NEW c \in Chains, NEW at \in Nat, visible_at(c, at) # None
    PROVE  \E i \in 1 .. Len(c) : visible_at(c, at) = c[i].loc
<1>1. Len(c) \in Nat /\ LastUpTo(c, at) \in 0 .. Len(c)
  BY ChainType, LastUpToLast
<1> QED
  BY <1>1 DEF visible_at

\* Arithmetic the provers are slow at inside larger goals.
LEMMA PredecessorOfOne ==
    ASSUME NEW a \in Nat, NEW b \in Nat, a - b = 1
    PROVE  a = b + 1
OBVIOUS

\* What is left of a chain: a suffix of it, or nothing for a lone tombstone.
LEMMA KeptChain ==
    ASSUME NEW c \in Chains, NEW h \in Nat,
           NEW e, e = Pruned(reclaim_to(c, h))
    PROVE  /\ e \in Chains
           /\ Cut(c, h) \in 0 .. Len(c)
           /\ Cut(c, h) > 0 => c[Cut(c, h) + 1].txn <= h
           /\ c # <<>> => Cut(c, h) < Len(c)
           /\ \/ /\ e = <<>> /\ Len(e) = 0 /\ Len(c) = Cut(c, h) + 1
                 /\ c[Cut(c, h) + 1].loc = None
              \/ /\ Len(e) = Len(c) - Cut(c, h)
                 /\ \A i \in 1 .. Len(e) : e[i] = c[i + Cut(c, h)]
<1> DEFINE d == reclaim_to(c, h)
           o == Cut(c, h)
<1>1. /\ Len(c) \in Nat
      /\ o \in 0 .. Len(c)
      /\ c # <<>> => o < Len(c)
      /\ d \in Chains
      /\ Len(d) = Len(c) - o
      /\ \A i \in 1 .. Len(c) - o : d[i] = c[i + o]
  BY ChainType, ReclaimToSuffix
<1>2. o > 0 => c[o + 1].txn <= h
  <2>1. /\ LastUpTo(c, h) \in 0 .. Len(c)
        /\ LastUpTo(c, h) # 0 => c[LastUpTo(c, h)].txn <= h
    BY LastUpToLast
  <2> QED
    BY <1>1, <2>1 DEF Cut
<1>3. /\ Pruned(d) \in Chains
      /\ \/ Pruned(d) = d
         \/ Pruned(d) = <<>> /\ Len(d) = 1 /\ d[1].loc = None
  BY <1>1, PrunedChain
<1>4. Len(<<>>) = 0
  BY EmptySeq
<1>5. CASE Pruned(d) = d
  BY <1>1, <1>2, <1>3, <1>5 DEF d, o
<1>6. CASE Pruned(d) = <<>> /\ Len(d) = 1 /\ d[1].loc = None
  <2>a. Len(c) \in Nat /\ o \in Nat
    BY <1>1
  <2>b. Len(c) - o = 1
    BY <1>1, <1>6
  <2>1. Len(c) = o + 1
    BY <2>a, <2>b, PredecessorOfOne
  <2>2. d[1] = c[1 + o] /\ 1 + o = o + 1
    BY <1>1, <1>6, <2>1
  <2>3. c[o + 1].loc = None
    BY <1>6, <2>2
  <2> QED
    BY <1>1, <1>2, <1>3, <1>4, <1>6, <2>1, <2>3 DEF d, o
<1> QED
  BY <1>3, <1>5, <1>6

\* Reclamation keeps the heap in order and changes nothing a reader sees.  Every
\* location it frees is inside the file, so its error path is not taken.
LEMMA ReclaimStage ==
    ASSUME NEW dir, NEW sl, NEW off, NEW ret, NEW pages, NEW n \in Nat, NEW lw,
           open \in [Holders -> Nat \cup {None}], StoreFree,
           HeapInv(dir, sl, off, ret, pages, n, lw),
           Reclaim(dir, sl, off, ret, pages, n)
    PROVE  /\ HeapInv(directory', slots', offered', retained', pages, n, lw)
           /\ SameForReaders(dir, sl, directory', slots')
<1> DEFINE h == reclaim_horizon(n)
           freed == FreedLocations(dir, h)
<1>1. h \in Nat /\ \A x \in Holders : open[x] # None => h <= open[x]
  BY HorizonBound
<1>2. HeapTyped(dir, sl, off, ret, pages, lw)
  BY DEF HeapInv
<1>3. /\ dir \in [Records -> Chains]
      /\ \A id \in Records : dir[id] \in Chains /\ Len(dir[id]) \in Nat
  BY <1>2, ChainType DEF HeapTyped
<1>4. directory' = [id \in Records |-> Pruned(reclaim_to(dir[id], h))]
  BY DEF Reclaim
<1> HIDE DEF h
<1>5. ASSUME NEW id \in Records
      PROVE  /\ directory'[id] \in Chains
             /\ Cut(dir[id], h) \in 0 .. Len(dir[id])
             /\ Cut(dir[id], h) > 0 => dir[id][Cut(dir[id], h) + 1].txn <= h
             /\ dir[id] # <<>> => Cut(dir[id], h) < Len(dir[id])
             /\ \/ /\ directory'[id] = <<>> /\ Len(directory'[id]) = 0
                   /\ Len(dir[id]) = Cut(dir[id], h) + 1
                   /\ dir[id][Cut(dir[id], h) + 1].loc = None
                \/ /\ Len(directory'[id]) = Len(dir[id]) - Cut(dir[id], h)
                   /\ \A i \in 1 .. Len(directory'[id]) :
                        directory'[id][i] = dir[id][i + Cut(dir[id], h)]
  <2>1. directory'[id] = Pruned(reclaim_to(dir[id], h))
    BY <1>4
  <2>2. dir[id] \in Chains
    BY <1>3
  <2> QED
    BY SMTT(30), <1>1, <2>1, <2>2, KeptChain
<1>k. ASSUME NEW id \in Records, NEW i \in 1 .. Len(directory'[id])
      PROVE  /\ i + Cut(dir[id], h) \in 1 .. Len(dir[id])
             /\ i + Cut(dir[id], h) > Cut(dir[id], h)
             /\ directory'[id][i] = dir[id][i + Cut(dir[id], h)]
  BY <1>3, <1>5
<1>6. ASSUME NEW l
      PROVE  l \in freed <=> \E id \in Records : \E i \in 1 .. Cut(dir[id], h) :
                                dir[id][i].loc # None /\ dir[id][i].loc = l
  <2>1. \A id \in Records :
          Drained(dir[id], h) = {i \in 1 .. Cut(dir[id], h) : dir[id][i].loc # None}
    BY <1>1, <1>3, ReclaimToSuffix
  <2>a. \A v : v \in Freed(dir, h) <=>
              \E id \in Records : \E i \in Drained(dir[id], h) : v = <<id, i>>
    BY DEF Freed
  <2>c. l \in freed <=> \E v \in Freed(dir, h) : dir[v[1]][v[2]].loc = l
    BY Zenon DEF FreedLocations
  <2>2. l \in freed <=> \E id \in Records : \E i \in Drained(dir[id], h) : dir[id][i].loc = l
    <3>1. ASSUME NEW v \in Freed(dir, h), dir[v[1]][v[2]].loc = l
          PROVE  \E id \in Records : \E i \in Drained(dir[id], h) : dir[id][i].loc = l
      BY <2>a, <3>1
    <3>2. ASSUME NEW id \in Records, NEW i \in Drained(dir[id], h), dir[id][i].loc = l
          PROVE  \E v \in Freed(dir, h) : dir[v[1]][v[2]].loc = l
      <4>1. <<id, i>> \in Freed(dir, h)
        BY <2>a
      <4> QED
        BY <3>2, <4>1
    <3> QED
      BY <2>c, <3>1, <3>2, Zenon
  <2> QED
    BY <2>1, <2>2
<1> HIDE DEF freed
<1>7. \A l \in freed : l.page < pages /\ l \in Locations
  <2> SUFFICES ASSUME NEW l \in freed PROVE l.page < pages /\ l \in Locations
    OBVIOUS
  <2>0. PICK id \in Records : \E i \in 1 .. Cut(dir[id], h) :
          dir[id][i].loc # None /\ dir[id][i].loc = l
    BY <1>6
  <2>1. PICK i \in 1 .. Cut(dir[id], h) : dir[id][i].loc # None /\ dir[id][i].loc = l
    BY <2>0
  <2>2. i \in 1 .. Len(dir[id])
    BY <1>3, <1>5, <2>1
  <2>3. dir[id][i].loc \in Locations \cup {None}
    BY <1>3, <2>2, ChainType
  <2> QED
    BY <2>1, <2>2, <2>3 DEF HeapInv, HeapOwned, NamedSlotsLive
<1>8. /\ slots' = [l \in Locations |-> IF l \in freed THEN Dead ELSE sl[l]]
      /\ offered' = off \cup {l.page : l \in freed}
      /\ retained' = SaturatingSub(ret, Cardinality(Freed(dir, h)))
  <2>1. pages \in Nat /\ \A l \in freed : l.page \in Nat
    BY <1>2, <1>7, ConstantsAssumption
    DEF HeapTyped, Locations, PageIds, ConstantsAssumption
  <2>2. ~ \E l \in freed : l.page >= pages
    BY <1>7, <2>1
  <2> QED
    BY <2>2 DEF Reclaim, freed, h
<1>9. HeapTyped(directory', slots', offered', retained', pages, lw)
  <2>1. directory' \in [Records -> Chains]
    BY <1>4, <1>5
  <2>2. slots' \in [Locations -> Payloads \cup {Dead}]
    BY <1>2, <1>8 DEF HeapTyped
  <2>3. offered' \subseteq 0 .. pages - 1
    <3>1. \A l \in freed : l.page \in Nat
      BY <1>7, ConstantsAssumption DEF Locations, PageIds, ConstantsAssumption
    <3>2. pages \in Nat /\ off \subseteq 0 .. pages - 1
      BY <1>2, ConstantsAssumption DEF HeapTyped, ConstantsAssumption
    <3>3. \A l \in freed : l.page \in 0 .. pages - 1
      BY <1>7, <3>1, <3>2
    <3> QED
      BY <1>8, <3>2, <3>3
  <2>4. retained' \in Nat
    <3>1. Cardinality(Freed(dir, h)) \in Nat
      BY <1>1, <1>3, FreedFinite
    <3> QED
      BY <1>2, <1>8, <3>1 DEF HeapTyped, SaturatingSub
  <2> QED
    BY <1>2, <2>1, <2>2, <2>3, <2>4 DEF HeapTyped
<1>10. NamedSlotsLive(directory', slots', pages)
  <2> SUFFICES ASSUME NEW id \in Records, NEW i \in 1 .. Len(directory'[id]),
                      NEW l, l = directory'[id][i].loc, l # None
               PROVE  l.page < pages /\ slots'[l] # Dead /\ slots'[l].id = id
    BY DEF NamedSlotsLive
  <2> DEFINE j == i + Cut(dir[id], h)
  <2>1. j \in 1 .. Len(dir[id]) /\ dir[id][j].loc = l /\ j > Cut(dir[id], h)
    BY <1>k
  <2> HIDE DEF j
  <2>2. l \in Locations
    BY <1>3, <2>1, ChainType
  <2>3. l.page < pages /\ sl[l] # Dead /\ sl[l].id = id
    BY <2>1 DEF HeapInv, HeapOwned, NamedSlotsLive
  <2>4. l \notin freed
    <3> SUFFICES ASSUME l \in freed PROVE FALSE
      OBVIOUS
    <3>0. PICK a \in Records : \E k \in 1 .. Cut(dir[a], h) :
            dir[a][k].loc # None /\ dir[a][k].loc = l
      BY <1>6
    <3>1. PICK k \in 1 .. Cut(dir[a], h) : dir[a][k].loc # None /\ dir[a][k].loc = l
      BY <3>0
    <3>2. k \in 1 .. Len(dir[a])
      BY <1>3, <1>5, <3>1
    <3>3. a = id /\ k = j
      BY <2>1, <3>1, <3>2 DEF HeapInv, HeapOwned, SlotsNamedOnce
    <3> QED
      BY <1>3, <1>5, <2>1, <3>1, <3>3
  <2> QED
    BY <1>8, <2>2, <2>3, <2>4
<1>11. SlotsNamedOnce(directory')
  <2> SUFFICES ASSUME NEW a \in Records, NEW b \in Records,
                      NEW i \in 1 .. Len(directory'[a]), NEW j \in 1 .. Len(directory'[b]),
                      directory'[a][i].loc # None,
                      directory'[a][i].loc = directory'[b][j].loc
               PROVE  a = b /\ i = j
    BY DEF SlotsNamedOnce
  <2> DEFINE i1 == i + Cut(dir[a], h)
             j1 == j + Cut(dir[b], h)
  <2>1. i1 \in 1 .. Len(dir[a]) /\ dir[a][i1] = directory'[a][i]
    BY <1>k
  <2>2. j1 \in 1 .. Len(dir[b]) /\ dir[b][j1] = directory'[b][j]
    BY <1>k
  <2>3. a = b /\ i1 = j1
    <3> HIDE DEF i1, j1
    <3>1. dir[a][i1].loc # None /\ dir[a][i1].loc = dir[b][j1].loc
      BY <2>1, <2>2
    <3> QED
      BY <3>1, <2>1, <2>2 DEF HeapInv, HeapOwned, SlotsNamedOnce
  <2> QED
    BY <1>3, <1>5, <2>3
<1>12. LiveSlotsNamed(directory', slots')
  <2> SUFFICES ASSUME NEW l \in Locations, slots'[l] # Dead
               PROVE  \E id \in Records : \E i \in 1 .. Len(directory'[id]) :
                        directory'[id][i].loc = l
    BY DEF LiveSlotsNamed
  <2>1. sl[l] # Dead /\ l \notin freed
    BY <1>8
  <2>0. PICK id \in Records : \E j \in 1 .. Len(dir[id]) : dir[id][j].loc = l
    BY <2>1 DEF HeapInv, HeapOwned, LiveSlotsNamed
  <2>2. PICK j \in 1 .. Len(dir[id]) : dir[id][j].loc = l
    BY <2>0
  <2>3. l # None
    BY MarkersAssumption DEF MarkersAssumption
  <2>4. j > Cut(dir[id], h)
    BY <1>3, <1>5, <1>6, <2>1, <2>2, <2>3
  <2>5. Len(directory'[id]) = Len(dir[id]) - Cut(dir[id], h)
        /\ \A i \in 1 .. Len(directory'[id]) : directory'[id][i] = dir[id][i + Cut(dir[id], h)]
    <3>1. ~ (Len(dir[id]) = Cut(dir[id], h) + 1 /\ dir[id][Cut(dir[id], h) + 1].loc = None)
      BY <1>3, <1>5, <2>2, <2>3, <2>4
    <3> QED
      BY <1>5, <3>1
  <2>6. j - Cut(dir[id], h) \in 1 .. Len(directory'[id])
    BY <1>3, <1>5, <2>2, <2>4, <2>5
  <2>7. directory'[id][j - Cut(dir[id], h)] = dir[id][j]
    BY <1>3, <1>5, <2>2, <2>4, <2>5, <2>6
  <2> QED
    BY <2>2, <2>6, <2>7
<1>13. Stamped(directory', n, lw)
  <2> SUFFICES ASSUME NEW id \in Records
               PROVE  /\ lw[id] < n
                      /\ \A i \in 1 .. Len(directory'[id]) : directory'[id][i].txn < n
                      /\ directory'[id] # <<>> =>
                           directory'[id][Len(directory'[id])].txn = lw[id]
    BY DEF Stamped
  <2>1. /\ lw[id] < n
        /\ \A i \in 1 .. Len(dir[id]) : dir[id][i].txn < n
        /\ dir[id] # <<>> => dir[id][Len(dir[id])].txn = lw[id]
    BY DEF HeapInv, Stamped
  <2>2. \A i \in 1 .. Len(directory'[id]) : directory'[id][i].txn < n
    BY <1>k, <2>1
  <2>3. ASSUME directory'[id] # <<>>
        PROVE  directory'[id][Len(directory'[id])].txn = lw[id]
    <3>1. Len(directory'[id]) \in Nat \ {0}
      BY <1>5, <2>3, EmptySeq DEF Chains
    <3>2. dir[id] # <<>>
      BY <1>3, <1>5, <2>3, <3>1, EmptySeq
    <3> QED
      BY <1>3, <1>5, <2>1, <2>3, <3>1, <3>2
  <2> QED
    BY <2>1, <2>2, <2>3
<1>14. ReadersServed(directory', lw)
  <2> SUFFICES ASSUME NEW r \in Readers, Held(opening, open, r) # None,
                      NEW id \in Records
               PROVE  /\ lw[id] > Held(opening, open, r) => directory'[id] # <<>>
                      /\ directory'[id] # <<>> /\ directory'[id][1].loc = None
                           => directory'[id][1].txn <= Held(opening, open, r)
    BY DEF ReadersServed
  <2> DEFINE at == Held(opening, open, r)
             o == Cut(dir[id], h)
  <2>1. at = open[r] /\ at \in Nat /\ h <= at
    BY <1>1 DEF Held, StoreFree, Holders
  <2>2. /\ lw[id] > at => dir[id] # <<>>
        /\ dir[id] # <<>> /\ dir[id][1].loc = None => dir[id][1].txn <= at
    BY DEF HeapInv, ReadersServed
  <2>3. dir[id] # <<>> => dir[id][Len(dir[id])].txn = lw[id]
    BY DEF HeapInv, Stamped
  <2>4. lw[id] \in Nat /\ \A i \in 1 .. Len(dir[id]) : dir[id][i].txn \in Nat
    BY <1>2, <1>3, ChainType DEF HeapTyped
  <2>5. o \in Nat /\ (o > 0 => dir[id][o + 1].txn <= at)
    <3>1. o \in 0 .. Len(dir[id]) /\ (o > 0 => dir[id][o + 1].txn <= h /\ o + 1 \in 1 .. Len(dir[id]))
      BY <1>3, <1>5, EmptySeq
    <3> QED
      BY <1>1, <1>3, <2>1, <2>4, <3>1
  <2> HIDE DEF at
  <2>6. ASSUME lw[id] > at, directory'[id] = <<>> PROVE FALSE
    <3>1. dir[id] # <<>> /\ Len(dir[id]) > 0
      BY <1>3, <2>2, <2>6, EmptySeq DEF Chains
    <3>2. Len(dir[id]) = o + 1 /\ dir[id][o + 1].loc = None
      BY <1>3, <1>5, <2>6, <3>1, EmptySeq
    <3>3. dir[id][o + 1].txn = lw[id]
      BY <2>3, <3>1, <3>2
    <3>4. CASE o > 0
      BY <2>1, <2>4, <2>5, <2>6, <3>3, <3>4
    <3>5. CASE o = 0
      BY <2>1, <2>2, <2>4, <2>6, <3>1, <3>2, <3>3, <3>5
    <3> QED
      BY <2>5, <3>4, <3>5
  <2>7. ASSUME directory'[id] # <<>>, directory'[id][1].loc = None
        PROVE  directory'[id][1].txn <= at
    <3>1. Len(directory'[id]) \in Nat \ {0}
      BY <1>5, <2>7, EmptySeq DEF Chains
    <3>2. directory'[id][1] = dir[id][1 + o] /\ dir[id] # <<>>
      BY <1>3, <1>5, <2>7, <3>1, EmptySeq
    <3> QED
      BY <2>2, <2>5, <2>7, <3>2
  <2> QED
    BY <2>6, <2>7 DEF at
<1>15. SameForReaders(dir, sl, directory', slots')
  <2> SUFFICES ASSUME NEW r \in Readers, open[r] # None, NEW id \in Records
               PROVE  get_at(directory', slots', id, open[r]) = get_at(dir, sl, id, open[r])
    BY DEF SameForReaders
  <2>1. open[r] \in Nat /\ h <= open[r]
    BY <1>1 DEF Holders
  <2>2. visible_at(directory'[id], open[r]) = visible_at(dir[id], open[r])
    BY <1>1, <1>3, <1>4, <2>1, ReclaimInvisible
  <2> DEFINE l == visible_at(dir[id], open[r])
  <2>3. CASE l = None
    BY <2>2, <2>3 DEF get_at
  <2>4. CASE l # None
    <3>1. PICK i \in 1 .. Len(directory'[id]) : l = directory'[id][i].loc
      BY <1>5, <2>1, <2>2, <2>4, VisibleIsNamed
    <3>2. l \in Locations
      BY <1>5, <2>4, <3>1, ChainType
    <3>3. slots'[l] # Dead
      BY <1>10, <2>4, <3>1 DEF NamedSlotsLive
    <3>4. slots'[l] = sl[l]
      BY <1>8, <3>2, <3>3
    <3> QED
      BY <2>2, <2>4, <3>4 DEF get_at
  <2> QED
    BY <2>3, <2>4
<1> QED
  BY <1>9, <1>10, <1>11, <1>12, <1>13, <1>14, <1>15 DEF HeapInv, HeapOwned

\* A reader of a free store has its snapshot registered, and it is in the past.
LEMMA ReaderPast ==
    ASSUME TrackerInv, StoreFree, NEW r \in Readers, Held(opening, open, r) # None
    PROVE  /\ Held(opening, open, r) = open[r]
           /\ open[r] \in Nat
           /\ open[r] < next
BY DEF TrackerInv, StoreFree, Held, Holders

\* The directory and history after version v of record id has been pushed.
Pushed(id, v, dir1, lw1) ==
    /\ dir1 \in [Records -> Chains]
    /\ lw1 \in [Records -> Nat]
    /\ \A x \in Records \ {id} : dir1[x] = directory[x]
    /\ Len(dir1[id]) = Len(directory[id]) + 1
    /\ \A i \in 1 .. Len(directory[id]) : dir1[id][i] = directory[id][i]
    /\ dir1[id][Len(directory[id]) + 1] = v
    /\ Len(directory[id]) \in Nat
    /\ Stamped(dir1, next + 1, lw1)
    /\ ReadersServed(dir1, lw1)
    /\ \A r \in Readers : open[r] # None => \A x \in Records :
         visible_at(dir1[x], open[r]) = visible_at(directory[x], open[r])

\* Pushing a version stamped with the clock, at a slot no chain names (or at none,
\* for a tombstone), changes nothing a reader sees.
LEMMA PushStage ==
    ASSUME TrackerInv, StoreFree, NEW id \in Records, NEW v \in Versions, v.txn = next,
           HeapInv(directory, slots, offered, retained, pageCount, next, lastWrite),
           v.loc = None => directory[id] # <<>>,
           NEW dir1, dir1 = [directory EXCEPT ![id] = Append(@, v)],
           NEW lw1, lw1 = [lastWrite EXCEPT ![id] = next]
    PROVE  Pushed(id, v, dir1, lw1)
<1>1. /\ directory \in [Records -> Chains]
      /\ lastWrite \in [Records -> Nat]
      /\ next \in Nat
  BY DEF HeapInv, HeapTyped, TrackerInv
<1>2. dir1[id] = Append(directory[id], v) /\ \A x \in Records \ {id} : dir1[x] = directory[x]
  BY <1>1
<1>3. /\ dir1[id] \in Chains
      /\ dir1[id] # <<>>
      /\ Len(dir1[id]) = Len(directory[id]) + 1
      /\ \A i \in 1 .. Len(directory[id]) : dir1[id][i] = directory[id][i]
      /\ dir1[id][Len(directory[id]) + 1] = v
  <2>1. directory[id] \in Seq(Versions)
    BY <1>1 DEF Chains
  <2> QED
    BY <1>2, <2>1, AppendProperties DEF Chains
<1>4. dir1 \in [Records -> Chains] /\ lw1 \in [Records -> Nat]
  BY <1>1, <1>3
<1>5. \A x \in Records : Len(directory[x]) \in Nat
                         /\ \A i \in 1 .. Len(directory[x]) : directory[x][i].txn \in Nat
  BY <1>1, ChainType
<1>6. Stamped(dir1, next + 1, lw1)
  <2> SUFFICES ASSUME NEW x \in Records
               PROVE  /\ lw1[x] < next + 1
                      /\ \A i \in 1 .. Len(dir1[x]) : dir1[x][i].txn < next + 1
                      /\ dir1[x] # <<>> => dir1[x][Len(dir1[x])].txn = lw1[x]
    BY DEF Stamped
  <2>1. /\ lastWrite[x] < next
        /\ \A i \in 1 .. Len(directory[x]) : directory[x][i].txn < next
        /\ directory[x] # <<>> => directory[x][Len(directory[x])].txn = lastWrite[x]
    BY DEF HeapInv, Stamped
  <2>2. CASE x = id
    BY <1>1, <1>3, <1>5, <2>1, <2>2
  <2>3. CASE x # id
    BY <1>1, <1>2, <1>5, <2>1, <2>3
  <2> QED
    BY <2>2, <2>3
<1>7. ReadersServed(dir1, lw1)
  <2> SUFFICES ASSUME NEW r \in Readers, Held(opening, open, r) # None, NEW x \in Records
               PROVE  /\ lw1[x] > Held(opening, open, r) => dir1[x] # <<>>
                      /\ dir1[x] # <<>> /\ dir1[x][1].loc = None
                           => dir1[x][1].txn <= Held(opening, open, r)
    BY DEF ReadersServed
  <2>1. /\ lastWrite[x] > Held(opening, open, r) => directory[x] # <<>>
        /\ directory[x] # <<>> /\ directory[x][1].loc = None
             => directory[x][1].txn <= Held(opening, open, r)
    BY DEF HeapInv, ReadersServed
  <2>2. CASE x # id
    BY <1>1, <1>2, <2>1, <2>2
  <2>3. CASE x = id /\ directory[id] # <<>>
    <3>1. Len(directory[id]) \in Nat \ {0}
      BY <1>1, <2>3, EmptySeq DEF Chains
    <3>2. dir1[id][1] = directory[id][1]
      BY <1>3, <3>1
    <3> QED
      BY <1>3, <2>1, <2>3, <3>2
  <2>4. CASE x = id /\ directory[id] = <<>>
    <3>1. dir1[id][1].loc # None
      BY <1>3, <2>4, EmptySeq
    <3> QED
      BY <1>3, <2>4, <3>1
  <2> QED
    BY <2>2, <2>3, <2>4
<1>8. ASSUME NEW r \in Readers, open[r] # None, NEW x \in Records
      PROVE  visible_at(dir1[x], open[r]) = visible_at(directory[x], open[r])
  <2>1. open[r] \in Nat /\ open[r] < next
    BY <1>8 DEF TrackerInv, Holders
  <2>2. CASE x = id
    <3>1. v.txn > open[r]
      BY <1>1, <2>1
    <3>2. directory[id] \in Chains
      BY <1>1
    <3> QED
      BY <1>2, <2>1, <2>2, <3>1, <3>2, AppendInvisible
  <2>3. CASE x # id
    BY <1>2, <2>3
  <2> QED
    BY <2>2, <2>3
<1> QED
  BY <1>2, <1>3, <1>4, <1>5, <1>6, <1>7, <1>8 DEF Pushed

\* A tombstone on a record that has an entry.
LEMMA DeleteStage ==
    ASSUME TrackerInv, StoreFree, NEW id \in Records, directory[id] # <<>>,
           HeapInv(directory, slots, offered, retained, pageCount, next, lastWrite),
           NEW dir1,
           dir1 = [directory EXCEPT ![id] = Append(@, [txn |-> next, loc |-> None])],
           NEW lw1, lw1 = [lastWrite EXCEPT ![id] = next]
    PROVE  /\ HeapInv(dir1, slots, offered, retained + 1, pageCount, next + 1, lw1)
           /\ SameForReaders(directory, slots, dir1, slots)
<1> DEFINE v == [txn |-> next, loc |-> None]
           m == Len(directory[id])
<1>1. v \in Versions /\ v.txn = next /\ v.loc = None
  BY DEF Versions, TrackerInv
<1>2. /\ dir1 \in [Records -> Chains]
      /\ lw1 \in [Records -> Nat]
      /\ \A x \in Records \ {id} : dir1[x] = directory[x]
      /\ Len(dir1[id]) = m + 1
      /\ \A i \in 1 .. m : dir1[id][i] = directory[id][i]
      /\ dir1[id][m + 1] = v
      /\ m \in Nat
      /\ Stamped(dir1, next + 1, lw1)
      /\ ReadersServed(dir1, lw1)
      /\ \A r \in Readers : open[r] # None => \A x \in Records :
           visible_at(dir1[x], open[r]) = visible_at(directory[x], open[r])
  <2> HIDE DEF v
  <2>1. dir1 = [directory EXCEPT ![id] = Append(@, v)]
    BY DEF v
  <2>2. v.loc = None => directory[id] # <<>>
    BY <1>1
  <2>3. Pushed(id, v, dir1, lw1)
    BY <1>1, <2>1, <2>2, PushStage
  <2> QED
    BY <2>3 DEF Pushed
<1> HIDE DEF v, m
<1>3. ASSUME NEW x \in Records, NEW i \in 1 .. Len(dir1[x]), dir1[x][i].loc # None
      PROVE  i \in 1 .. Len(directory[x]) /\ dir1[x][i] = directory[x][i]
  <2>1. CASE x # id
    BY <1>2, <2>1
  <2>2. CASE x = id
    BY <1>1, <1>2, <1>3, <2>2 DEF m
  <2> QED
    BY <2>1, <2>2
<1>4. HeapTyped(dir1, slots, offered, retained + 1, pageCount, lw1)
  BY <1>2 DEF HeapInv, HeapTyped
<1>5. NamedSlotsLive(dir1, slots, pageCount)
  BY <1>3 DEF HeapInv, HeapOwned, NamedSlotsLive
<1>6. SlotsNamedOnce(dir1)
  <2> SUFFICES ASSUME NEW a \in Records, NEW b \in Records,
                      NEW i \in 1 .. Len(dir1[a]), NEW j \in 1 .. Len(dir1[b]),
                      dir1[a][i].loc # None, dir1[a][i].loc = dir1[b][j].loc
               PROVE  a = b /\ i = j
    BY DEF SlotsNamedOnce
  <2>1. i \in 1 .. Len(directory[a]) /\ dir1[a][i] = directory[a][i]
    BY <1>3
  <2>2. j \in 1 .. Len(directory[b]) /\ dir1[b][j] = directory[b][j]
    BY <1>3
  <2> QED
    BY <2>1, <2>2 DEF HeapInv, HeapOwned, SlotsNamedOnce
<1>7. LiveSlotsNamed(dir1, slots)
  <2> SUFFICES ASSUME NEW l \in Locations, slots[l] # Dead
               PROVE  \E x \in Records : \E i \in 1 .. Len(dir1[x]) : dir1[x][i].loc = l
    BY DEF LiveSlotsNamed
  <2>1. PICK x \in Records : \E i \in 1 .. Len(directory[x]) : directory[x][i].loc = l
    BY DEF HeapInv, HeapOwned, LiveSlotsNamed
  <2>2. PICK i \in 1 .. Len(directory[x]) : directory[x][i].loc = l
    BY <2>1
  <2>3. i \in 1 .. Len(dir1[x]) /\ dir1[x][i] = directory[x][i]
    BY <1>2 DEF m
  <2> QED
    BY <2>2, <2>3
<1>8. SameForReaders(directory, slots, dir1, slots)
  BY <1>2 DEF SameForReaders, get_at
<1> QED
  BY <1>2, <1>4, <1>5, <1>6, <1>7, <1>8 DEF HeapInv, HeapOwned

\* `place' finds a dead slot of a page that is, or becomes, part of the file.
LEMMA Placed ==
    ASSUME HeapInv(directory, slots, offered, retained, pageCount, next, lastWrite),
           NEW p \in PageIds, place(p),
           NEW pages, pages = IF p = pageCount THEN p + 1 ELSE pageCount
    PROVE  /\ [page |-> p, slot |-> FirstDead(p)] \in Locations
           /\ slots[[page |-> p, slot |-> FirstDead(p)]] = Dead
           /\ pageCount \in Nat /\ pages \in 0 .. MaxPages
           /\ pageCount <= pages /\ p \in 0 .. pages - 1
<1>1. /\ pageCount \in 0 .. MaxPages /\ MaxPages \in Nat /\ SlotsPerPage \in Nat \ {0}
      /\ offered \subseteq 0 .. pageCount - 1
  BY ConstantsAssumption DEF ConstantsAssumption, HeapInv, HeapTyped
<1>2. p \in 0 .. MaxPages - 1
  BY DEF PageIds
<1>3. /\ pageCount \in Nat /\ pages \in 0 .. MaxPages
      /\ pageCount <= pages /\ p \in 0 .. pages - 1
  <2>1. CASE WithRoom # {}
    <3>1. p \in 0 .. pageCount - 1
      BY <1>1, <2>1 DEF place, WithRoom
    <3> QED
      BY <1>1, <3>1
  <2>2. CASE WithRoom = {}
    <3>1. p = pageCount /\ pages = p + 1
      BY <2>2 DEF place
    <3> QED
      BY <1>1, <1>2, <3>1
  <2> QED
    BY <2>1, <2>2
<1>4. DeadSlots(p) # {}
  <2>1. CASE WithRoom # {}
    BY <2>1 DEF place, WithRoom
  <2>2. CASE WithRoom = {}
    <3> DEFINE l == [page |-> p, slot |-> 0]
    <3>1. 0 \in SlotIds /\ l \in Locations /\ l.page = p /\ p = pageCount
      BY <1>1, <2>2 DEF SlotIds, Locations, place
    <3>2. slots[l] = Dead
      <4> SUFFICES ASSUME slots[l] # Dead PROVE FALSE
        OBVIOUS
      <4>1. PICK id \in Records : \E i \in 1 .. Len(directory[id]) : directory[id][i].loc = l
        BY <3>1 DEF HeapInv, HeapOwned, LiveSlotsNamed
      <4>2. PICK i \in 1 .. Len(directory[id]) : directory[id][i].loc = l
        BY <4>1
      <4>3. l # None
        BY <3>1, MarkersAssumption DEF MarkersAssumption
      <4>4. l.page < pageCount
        BY <4>2, <4>3 DEF HeapInv, HeapOwned, NamedSlotsLive
      <4> QED
        BY <1>1, <3>1, <4>4
    <3> QED
      BY <3>1, <3>2 DEF DeadSlots
  <2> QED
    BY <2>1, <2>2
<1>5. DeadSlots(p) \in SUBSET Nat /\ DeadSlots(p) \subseteq SlotIds
  BY <1>1 DEF DeadSlots, SlotIds
<1>6. \E s \in DeadSlots(p) : \A t \in DeadSlots(p) : s <= t
  BY <1>4, <1>5, NatMin
<1>7. FirstDead(p) \in DeadSlots(p)
  BY <1>6 DEF FirstDead
<1>8. [page |-> p, slot |-> FirstDead(p)] \in Locations
  BY <1>5, <1>7 DEF Locations
<1>9. slots[[page |-> p, slot |-> FirstDead(p)]] = Dead
  BY <1>7 DEF DeadSlots
<1> QED
  BY <1>3, <1>8, <1>9

\* A payload at a slot that was dead.
LEMMA PutStage ==
    ASSUME TrackerInv, StoreFree, NEW id \in Records, NEW val \in Values,
           HeapInv(directory, slots, offered, retained, pageCount, next, lastWrite),
           NEW loc \in Locations, slots[loc] = Dead,
           NEW pages \in 0 .. MaxPages, pageCount <= pages, loc.page \in 0 .. pages - 1,
           NEW ret \in Nat,
           NEW dir1,
           dir1 = [directory EXCEPT ![id] = Append(@, [txn |-> next, loc |-> loc])],
           NEW sl1, sl1 = [slots EXCEPT ![loc] = [id |-> id, val |-> val]],
           NEW lw1, lw1 = [lastWrite EXCEPT ![id] = next]
    PROVE  /\ HeapInv(dir1, sl1, offered \cup {loc.page}, ret, pages, next + 1, lw1)
           /\ SameForReaders(directory, slots, dir1, sl1)
<1> DEFINE v == [txn |-> next, loc |-> loc]
           m == Len(directory[id])
<1>1. v \in Versions /\ v.txn = next /\ v.loc = loc /\ loc # None
  BY MarkersAssumption DEF Versions, TrackerInv, MarkersAssumption
<1>2. /\ dir1 \in [Records -> Chains]
      /\ lw1 \in [Records -> Nat]
      /\ \A x \in Records \ {id} : dir1[x] = directory[x]
      /\ Len(dir1[id]) = m + 1
      /\ \A i \in 1 .. m : dir1[id][i] = directory[id][i]
      /\ dir1[id][m + 1] = v
      /\ m \in Nat
      /\ Stamped(dir1, next + 1, lw1)
      /\ ReadersServed(dir1, lw1)
      /\ \A r \in Readers : open[r] # None => \A x \in Records :
           visible_at(dir1[x], open[r]) = visible_at(directory[x], open[r])
  <2> HIDE DEF v
  <2>1. dir1 = [directory EXCEPT ![id] = Append(@, v)]
    BY DEF v
  <2>2. v.loc = None => directory[id] # <<>>
    BY <1>1
  <2>3. Pushed(id, v, dir1, lw1)
    BY <1>1, <2>1, <2>2, PushStage
  <2> QED
    BY <2>3 DEF Pushed
<1> HIDE DEF v, m
<1>3. /\ slots \in [Locations -> Payloads \cup {Dead}]
      /\ sl1 \in [Locations -> Payloads \cup {Dead}]
      /\ sl1[loc] # Dead /\ sl1[loc].id = id
      /\ \A l \in Locations \ {loc} : sl1[l] = slots[l]
  <2>1. [id |-> id, val |-> val] \in Payloads
    BY DEF Payloads
  <2> QED
    BY <2>1, MarkersAssumption DEF HeapInv, HeapTyped, MarkersAssumption
<1>4. ASSUME NEW x \in Records, NEW i \in 1 .. Len(dir1[x])
      PROVE  \/ x = id /\ i = m + 1 /\ dir1[x][i].loc = loc
             \/ i \in 1 .. Len(directory[x]) /\ dir1[x][i] = directory[x][i]
  <2>1. CASE x # id
    BY <1>2, <2>1
  <2>2. CASE x = id
    BY <1>1, <1>2, <2>2 DEF m
  <2> QED
    BY <2>1, <2>2
<1>5. ASSUME NEW x \in Records, NEW i \in 1 .. Len(directory[x]),
             directory[x][i].loc # None
      PROVE  /\ directory[x][i].loc # loc
             /\ directory[x][i].loc \in Locations
             /\ directory[x][i].loc.page < pageCount
             /\ slots[directory[x][i].loc] # Dead
             /\ slots[directory[x][i].loc].id = x
  <2>1. directory[x] \in Chains
    BY DEF HeapInv, HeapTyped
  <2>2. directory[x][i].loc \in Locations \cup {None}
    BY <2>1, ChainType
  <2>3. /\ directory[x][i].loc.page < pageCount
        /\ slots[directory[x][i].loc] # Dead
        /\ slots[directory[x][i].loc].id = x
    BY <1>5 DEF HeapInv, HeapOwned, NamedSlotsLive
  <2> QED
    BY <1>5, <2>2, <2>3
<1>6. pageCount \in Nat /\ pages \in Nat /\ offered \subseteq 0 .. pageCount - 1
  BY ConstantsAssumption DEF HeapInv, HeapTyped, ConstantsAssumption
<1>7. HeapTyped(dir1, sl1, offered \cup {loc.page}, ret, pages, lw1)
  <2>1. offered \cup {loc.page} \subseteq 0 .. pages - 1
    BY <1>6
  <2> QED
    BY <1>2, <1>3, <2>1 DEF HeapTyped
<1>8. NamedSlotsLive(dir1, sl1, pages)
  <2> SUFFICES ASSUME NEW x \in Records, NEW i \in 1 .. Len(dir1[x]),
                      dir1[x][i].loc # None
               PROVE  /\ dir1[x][i].loc.page < pages
                      /\ sl1[dir1[x][i].loc] # Dead
                      /\ sl1[dir1[x][i].loc].id = x
    BY DEF NamedSlotsLive
  <2>1. CASE x = id /\ i = m + 1 /\ dir1[x][i].loc = loc
    BY <1>3, <1>6, <2>1
  <2>2. CASE i \in 1 .. Len(directory[x]) /\ dir1[x][i] = directory[x][i]
    <3> DEFINE l == directory[x][i].loc
    <3>1. l # loc /\ l \in Locations /\ l.page < pageCount /\ slots[l] # Dead /\ slots[l].id = x
      BY <1>5, <2>2
    <3>2. l.page \in Nat
      BY <3>1, ConstantsAssumption DEF Locations, PageIds, ConstantsAssumption
    <3> QED
      BY <1>3, <1>6, <2>2, <3>1, <3>2
  <2> QED
    BY <1>4, <2>1, <2>2
<1>9. SlotsNamedOnce(dir1)
  <2> SUFFICES ASSUME NEW a \in Records, NEW b \in Records,
                      NEW i \in 1 .. Len(dir1[a]), NEW j \in 1 .. Len(dir1[b]),
                      dir1[a][i].loc # None, dir1[a][i].loc = dir1[b][j].loc
               PROVE  a = b /\ i = j
    BY SMTT(30) DEF SlotsNamedOnce
  <2>1. CASE i \in 1 .. Len(directory[a]) /\ dir1[a][i] = directory[a][i]
    <3>1. dir1[b][j].loc # loc
      BY <1>5, <2>1
    <3>2. j \in 1 .. Len(directory[b]) /\ dir1[b][j] = directory[b][j]
      BY <1>4, <3>1
    <3> QED
      BY SMTT(30), <2>1, <3>2 DEF HeapInv, HeapOwned, SlotsNamedOnce
  <2>2. CASE a = id /\ i = m + 1 /\ dir1[a][i].loc = loc
    <3>1. ~ (j \in 1 .. Len(directory[b]) /\ dir1[b][j] = directory[b][j])
      BY <1>1, <1>5, <2>2
    <3>2. b = id /\ j = m + 1
      BY <1>4, <3>1
    <3> QED
      BY <2>2, <3>2
  <2> QED
    BY <1>4, <2>1, <2>2
<1>10. LiveSlotsNamed(dir1, sl1)
  <2> SUFFICES ASSUME NEW l \in Locations, sl1[l] # Dead
               PROVE  \E x \in Records : \E i \in 1 .. Len(dir1[x]) : dir1[x][i].loc = l
    BY DEF LiveSlotsNamed
  <2>1. CASE l = loc
    <3>1. m + 1 \in 1 .. Len(dir1[id]) /\ dir1[id][m + 1].loc = loc
      BY <1>1, <1>2
    <3> QED
      BY <2>1, <3>1
  <2>2. CASE l # loc
    <3>1. slots[l] # Dead
      BY <1>3, <2>2
    <3>2. PICK x \in Records : \E i \in 1 .. Len(directory[x]) : directory[x][i].loc = l
      BY <3>1 DEF HeapInv, HeapOwned, LiveSlotsNamed
    <3>3. PICK i \in 1 .. Len(directory[x]) : directory[x][i].loc = l
      BY <3>2
    <3>4. i \in 1 .. Len(dir1[x]) /\ dir1[x][i] = directory[x][i]
      BY <1>2 DEF m
    <3> QED
      BY <3>3, <3>4
  <2> QED
    BY <2>1, <2>2
<1>11. SameForReaders(directory, slots, dir1, sl1)
  <2> SUFFICES ASSUME NEW r \in Readers, open[r] # None, NEW x \in Records
               PROVE  get_at(dir1, sl1, x, open[r]) = get_at(directory, slots, x, open[r])
    BY DEF SameForReaders
  <2> DEFINE l == visible_at(directory[x], open[r])
  <2>1. visible_at(dir1[x], open[r]) = l
    BY <1>2
  <2>2. CASE l = None
    BY <2>1, <2>2 DEF get_at
  <2>3. CASE l # None
    <3>1. directory[x] \in Chains /\ open[r] \in Nat
      BY DEF HeapInv, HeapTyped, TrackerInv, Holders
    <3>2. PICK i \in 1 .. Len(directory[x]) : l = directory[x][i].loc
      BY <2>3, <3>1, VisibleIsNamed
    <3>3. l # loc /\ l \in Locations
      BY <1>5, <2>3, <3>2
    <3>4. sl1[l] = slots[l]
      BY <1>3, <3>3
    <3> QED
      BY <2>1, <2>3, <3>4 DEF get_at
  <2> QED
    BY <2>2, <2>3
<1> QED
  BY <1>2, <1>7, <1>8, <1>9, <1>10, <1>11 DEF HeapInv, HeapOwned

\* The write threshold's reclamation after a write.
LEMMA MaybeReclaimStage ==
    ASSUME NEW dir, NEW sl, NEW off, NEW ret, NEW pages, NEW n \in Nat, NEW lw,
           open \in [Holders -> Nat \cup {None}], StoreFree,
           HeapInv(dir, sl, off, ret, pages, n, lw),
           maybe_reclaim(dir, sl, off, ret, pages, n)
    PROVE  /\ HeapInv(directory', slots', offered', retained', pages, n, lw)
           /\ SameForReaders(dir, sl, directory', slots')
<1>1. CASE ret >= RetentionLimit
  BY <1>1, ReclaimStage DEF maybe_reclaim
<1>2. CASE ~ (ret >= RetentionLimit)
  BY <1>2 DEF maybe_reclaim, SameForReaders
<1> QED
  BY <1>1, <1>2

-----------------------------------------------------------------------------
(* The invariant is inductive *)

\* An empty store satisfies the invariant.
LEMMA InitIInv == Init => IInv
<1> SUFFICES ASSUME Init PROVE IInv
  OBVIOUS
<1>1. \A id \in Records : directory[id] = <<>> /\ Len(directory[id]) = 0
  BY EmptySeq DEF Init
<1>2. TrackerInv
  BY DEF Init, TrackerInv
<1>3. HeapTyped(directory, slots, offered, retained, pageCount, lastWrite)
  <2>1. directory \in [Records -> Chains]
    BY EmptySeq DEF Init, Chains
  <2> QED
    BY <2>1, ConstantsAssumption DEF Init, HeapTyped, ConstantsAssumption
<1>4. HeapOwned(directory, slots, pageCount)
  BY <1>1 DEF Init, HeapOwned, NamedSlotsLive, SlotsNamedOnce, LiveSlotsNamed
<1>5. Stamped(directory, next, lastWrite)
  BY <1>1 DEF Init, Stamped
<1>6. ReadersServed(directory, lastWrite)
  BY DEF Init, ReadersServed, Held, Holders
<1> QED
  BY <1>2, <1>3, <1>4, <1>5, <1>6 DEF IInv, HeapInv

\* The tracker part moves on with the clock.
LEMMA ClockTicks ==
    ASSUME TrackerInv, next' = next + 1, UNCHANGED trackerVars
    PROVE  TrackerInv'
BY DEF TrackerInv, trackerVars

\* An invariant heap, in place.
LEMMA HeapInPlace ==
    ASSUME HeapInv(directory', slots', offered', retained', pageCount', next', lastWrite'),
           UNCHANGED trackerVars, TrackerInv'
    PROVE  IInv'
BY DEF IInv, HeapInv, HeapTyped, HeapOwned, NamedSlotsLive, SlotsNamedOnce, LiveSlotsNamed,
       Stamped, ReadersServed, Held, trackerVars

\* The heap between the push of a new version and the reclamation that may follow.
PutAt(id, val, loc, dir1, sl1, off1, lw1, ret, pages) ==
    /\ loc \in Locations /\ slots[loc] = Dead /\ ret \in Nat /\ pages \in Nat
    /\ dir1 = [directory EXCEPT ![id] = Append(@, [txn |-> next, loc |-> loc])]
    /\ sl1 = [slots EXCEPT ![loc] = [id |-> id, val |-> val]]
    /\ ret = IF directory[id] = <<>> THEN retained ELSE retained + 1
    /\ next' = next + 1 /\ next + 1 \in Nat /\ UNCHANGED trackerVars
    /\ lastWrite' = lw1 /\ pageCount' = pages
    /\ HeapInv(dir1, sl1, off1, ret, pages, next + 1, lw1)
    /\ SameForReaders(directory, slots, dir1, sl1)
    /\ maybe_reclaim(dir1, sl1, off1, ret, pages, next + 1)

\* insert and update write their version to a free slot before they reclaim.
LEMMA PutPushes ==
    ASSUME IInv, StoreFree, NEW id \in Records, NEW val \in Values, apply_put(id, val)
    PROVE  \E loc, dir1, sl1, off1, lw1, ret, pages :
              PutAt(id, val, loc, dir1, sl1, off1, lw1, ret, pages)
<1>1. PICK p \in PageIds :
        /\ place(p)
        /\ LET loc == [page |-> p, slot |-> FirstDead(p)]
               pages == IF p = pageCount THEN p + 1 ELSE pageCount
           IN  /\ pageCount' = pages
               /\ maybe_reclaim(
                    [directory EXCEPT ![id] = Append(@, [txn |-> next, loc |-> loc])],
                    [slots EXCEPT ![loc] = [id |-> id, val |-> val]],
                    offered \cup {p},
                    IF directory[id] = <<>> THEN retained ELSE retained + 1,
                    pages, next + 1)
  BY DEF apply_put
<1> DEFINE loc == [page |-> p, slot |-> FirstDead(p)]
           pages == IF p = pageCount THEN p + 1 ELSE pageCount
           ret == IF directory[id] = <<>> THEN retained ELSE retained + 1
           dir1 == [directory EXCEPT ![id] = Append(@, [txn |-> next, loc |-> loc])]
           sl1 == [slots EXCEPT ![loc] = [id |-> id, val |-> val]]
           lw1 == [lastWrite EXCEPT ![id] = next]
<1>2. /\ TrackerInv
      /\ HeapInv(directory, slots, offered, retained, pageCount, next, lastWrite)
  BY DEF IInv
<1>3. /\ loc \in Locations /\ slots[loc] = Dead
      /\ pages \in 0 .. MaxPages /\ pageCount <= pages /\ p \in 0 .. pages - 1
  <2> HIDE DEF pages
  <2> QED
    BY <1>1, <1>2, Placed DEF pages
<1>4. loc.page = p /\ ret \in Nat
  BY <1>2 DEF HeapInv, HeapTyped
<1>5. /\ next' = next + 1 /\ lastWrite' = lw1 /\ pageCount' = pages
      /\ UNCHANGED trackerVars /\ next + 1 \in Nat
      /\ maybe_reclaim(dir1, sl1, offered \cup {p}, ret, pages, next + 1)
  BY <1>1, <1>2 DEF apply_put, begin_write, TrackerInv
<1>6. /\ dir1 = [directory EXCEPT ![id] = Append(@, [txn |-> next, loc |-> loc])]
      /\ sl1 = [slots EXCEPT ![loc] = [id |-> id, val |-> val]]
      /\ lw1 = [lastWrite EXCEPT ![id] = next]
  OBVIOUS
<1> HIDE DEF loc, pages, ret, dir1, sl1, lw1
<1>7. /\ HeapInv(dir1, sl1, offered \cup {p}, ret, pages, next + 1, lw1)
      /\ SameForReaders(directory, slots, dir1, sl1)
  <2>1. loc.page \in 0 .. pages - 1
    BY <1>3, <1>4
  <2>2. /\ HeapInv(dir1, sl1, offered \cup {loc.page}, ret, pages, next + 1, lw1)
        /\ SameForReaders(directory, slots, dir1, sl1)
    BY <1>2, <1>3, <1>4, <1>6, <2>1, PutStage
  <2> QED
    BY <1>4, <2>2
<1>8. pages \in Nat /\ ret = IF directory[id] = <<>> THEN retained ELSE retained + 1
  BY <1>2, <1>3, ConstantsAssumption DEF ConstantsAssumption, ret
<1>9. PutAt(id, val, loc, dir1, sl1, offered \cup {p}, lw1, ret, pages)
  BY <1>3, <1>4, <1>5, <1>6, <1>7, <1>8 DEF PutAt
<1> QED
  BY <1>9

\* insert and update: log, place, push, reclaim.
LEMMA PutStep ==
    ASSUME IInv, StoreFree, NEW id \in Records, NEW val \in Values, apply_put(id, val)
    PROVE  IInv' /\ SameForReaders(directory, slots, directory', slots')
<1>1. PICK loc, dir1, sl1, off1, lw1, ret, pages :
        PutAt(id, val, loc, dir1, sl1, off1, lw1, ret, pages)
  BY PutPushes
<1>a. /\ next' = next + 1 /\ next + 1 \in Nat /\ UNCHANGED trackerVars
      /\ lastWrite' = lw1 /\ pageCount' = pages
      /\ HeapInv(dir1, sl1, off1, ret, pages, next + 1, lw1)
      /\ SameForReaders(directory, slots, dir1, sl1)
      /\ maybe_reclaim(dir1, sl1, off1, ret, pages, next + 1)
  BY <1>1 DEF PutAt
<1>2. TrackerInv /\ open \in [Holders -> Nat \cup {None}]
  BY DEF IInv, TrackerInv
<1>3. /\ HeapInv(directory', slots', offered', retained', pages, next + 1, lw1)
      /\ SameForReaders(dir1, sl1, directory', slots')
  BY <1>a, <1>2, MaybeReclaimStage
<1>4. IInv'
  <2>1. TrackerInv'
    BY <1>a, <1>2, ClockTicks
  <2>2. HeapInv(directory', slots', offered', retained', pageCount', next', lastWrite')
    BY <1>a, <1>3
  <2> QED
    BY <1>a, <2>1, <2>2, HeapInPlace
<1> QED
  BY <1>a, <1>3, <1>4 DEF SameForReaders

\* delete: push a tombstone, reclaim.
LEMMA DeleteStep ==
    ASSUME IInv, StoreFree, NEW id \in Records, apply_delete(id)
    PROVE  IInv' /\ SameForReaders(directory, slots, directory', slots')
<1>1. /\ TrackerInv
      /\ HeapInv(directory, slots, offered, retained, pageCount, next, lastWrite)
  BY DEF IInv
<1>2. next' = next + 1 /\ UNCHANGED trackerVars /\ next \in Nat /\ next + 1 \in Nat
  BY <1>1 DEF apply_delete, begin_write, TrackerInv
<1>3. TrackerInv'
  BY <1>1, <1>2, ClockTicks
<1>4. CASE is_absent(directory[id])
  <2>1. UNCHANGED heapVars
    BY <1>4 DEF apply_delete
  <2>2. Stamped(directory, next + 1, lastWrite)
    <3>1. \A x \in Records : /\ lastWrite[x] \in Nat
                             /\ \A i \in 1 .. Len(directory[x]) : directory[x][i].txn \in Nat
      BY <1>1, ChainType DEF HeapInv, HeapTyped
    <3>2. \A x \in Records :
            /\ lastWrite[x] < next
            /\ \A i \in 1 .. Len(directory[x]) : directory[x][i].txn < next
            /\ directory[x] # <<>> => directory[x][Len(directory[x])].txn = lastWrite[x]
      BY <1>1 DEF HeapInv, Stamped
    <3> QED
      BY <1>2, <3>1, <3>2 DEF Stamped
  <2>3. HeapInv(directory', slots', offered', retained', pageCount', next', lastWrite')
    BY <1>1, <1>2, <2>1, <2>2 DEF HeapInv, heapVars
  <2>4. IInv'
    BY <1>2, <1>3, <2>3, HeapInPlace
  <2> QED
    BY <2>1, <2>4 DEF heapVars, SameForReaders
<1>5. CASE ~ is_absent(directory[id])
  <2> DEFINE dir1 == [directory EXCEPT ![id] = Append(@, [txn |-> next, loc |-> None])]
             lw1 == [lastWrite EXCEPT ![id] = next]
  <2>1. /\ maybe_reclaim(dir1, slots, offered, retained + 1, pageCount, next + 1)
        /\ lastWrite' = lw1 /\ pageCount' = pageCount
    BY <1>5 DEF apply_delete
  <2>2. directory[id] # <<>>
    BY <1>5 DEF is_absent, newest
  <2>3. /\ HeapInv(dir1, slots, offered, retained + 1, pageCount, next + 1, lw1)
        /\ SameForReaders(directory, slots, dir1, slots)
    BY <1>1, <2>2, DeleteStage
  <2> HIDE DEF dir1, lw1
  <2>4. /\ HeapInv(directory', slots', offered', retained', pageCount, next + 1, lw1)
        /\ SameForReaders(dir1, slots, directory', slots')
    <3>1. open \in [Holders -> Nat \cup {None}]
      BY <1>1 DEF TrackerInv
    <3> QED
      BY <1>2, <2>1, <2>3, <3>1, MaybeReclaimStage
  <2>5. HeapInv(directory', slots', offered', retained', pageCount', next', lastWrite')
    BY <1>2, <2>1, <2>4
  <2>6. IInv'
    BY <1>2, <1>3, <2>5, HeapInPlace
  <2> QED
    BY <2>3, <2>4, <2>6 DEF SameForReaders
<1> QED
  BY <1>4, <1>5

\* reclaim called by the owner of the store.
LEMMA ReclaimStep ==
    ASSUME IInv, reclaim
    PROVE  IInv' /\ SameForReaders(directory, slots, directory', slots')
<1>1. /\ TrackerInv
      /\ HeapInv(directory, slots, offered, retained, pageCount, next, lastWrite)
      /\ open \in [Holders -> Nat \cup {None}] /\ next \in Nat
  BY DEF IInv, TrackerInv
<1>2. /\ StoreFree
      /\ Reclaim(directory, slots, offered, retained, pageCount, next)
      /\ UNCHANGED <<next, opening, open, pageCount, lastWrite>>
  BY DEF reclaim
<1>3. /\ HeapInv(directory', slots', offered', retained', pageCount, next, lastWrite)
      /\ SameForReaders(directory, slots, directory', slots')
  BY <1>1, <1>2, ReclaimStage
<1>4. TrackerInv'
  BY <1>1, <1>2 DEF TrackerInv
<1>5. IInv'
  BY <1>2, <1>3, <1>4, HeapInPlace DEF trackerVars
<1> QED
  BY <1>3, <1>5

\* A step of the tracker that leaves the heap alone, if the snapshots of the
\* readers that it lets hold one are served.
LEMMA TrackerStep ==
    ASSUME IInv, UNCHANGED heapVars, TrackerInv', next' \in Nat, next <= next',
           \A r \in Readers :
              \/ Held(opening', open', r) = None
              \/ Held(opening', open', r) = Held(opening, open, r)
              \/ Held(opening', open', r) = CurrentAt(next)
    PROVE  IInv'
<1>1. /\ TrackerInv
      /\ HeapTyped(directory, slots, offered, retained, pageCount, lastWrite)
      /\ HeapOwned(directory, slots, pageCount)
      /\ Stamped(directory, next, lastWrite)
      /\ ReadersServed(directory, lastWrite)
  BY DEF IInv, HeapInv
<1>2. next \in Nat \ {0} /\ CurrentAt(next) = next - 1
  BY <1>1 DEF TrackerInv, CurrentAt
<1>3. \A id \in Records :
        /\ lastWrite[id] \in Nat /\ lastWrite[id] < next
        /\ directory[id] \in Chains /\ Len(directory[id]) \in Nat
        /\ directory[id] # <<>> => Len(directory[id]) > 0
        /\ \A i \in 1 .. Len(directory[id]) :
             directory[id][i].txn \in Nat /\ directory[id][i].txn < next
  BY <1>1, ChainType, EmptySeq DEF HeapTyped, Stamped, Chains
<1>4. Stamped(directory, next', lastWrite)
  BY <1>1, <1>2, <1>3 DEF Stamped
<1>5. ASSUME NEW r \in Readers, Held(opening', open', r) # None, NEW id \in Records
      PROVE  /\ lastWrite[id] > Held(opening', open', r) => directory[id] # <<>>
             /\ directory[id] # <<>> /\ directory[id][1].loc = None
                  => directory[id][1].txn <= Held(opening', open', r)
  <2>1. CASE Held(opening', open', r) = Held(opening, open, r)
    BY <1>1, <1>5, <2>1 DEF ReadersServed
  <2>2. CASE Held(opening', open', r) = CurrentAt(next)
    BY <1>2, <1>3, <2>2
  <2> QED
    BY <1>5, <2>1, <2>2
<1>6. ReadersServed(directory, lastWrite)'
  BY <1>5 DEF ReadersServed, heapVars
<1>7. UNCHANGED <<directory, slots, offered, retained, pageCount, lastWrite>>
  BY DEF heapVars
<1>8. HeapTyped(directory, slots, offered, retained, pageCount, lastWrite)'
  BY <1>1, <1>7 DEF HeapTyped
<1>9. HeapOwned(directory, slots, pageCount)'
  BY <1>1, <1>7 DEF HeapOwned, NamedSlotsLive, SlotsNamedOnce, LiveSlotsNamed
<1>10. Stamped(directory, next, lastWrite)'
  BY <1>4, <1>7 DEF Stamped
<1> QED
  BY <1>6, <1>8, <1>9, <1>10 DEF IInv, HeapInv

\* The two steps of open_snapshot, and close_snapshot.
LEMMA SnapshotStep ==
    ASSUME IInv, NEW h \in Holders, ReadClock(h) \/ Register(h) \/ close_snapshot(h)
    PROVE  IInv' /\ UNCHANGED heapVars
<1>1. /\ TrackerInv /\ next \in Nat \ {0} /\ CurrentAt(next) = next - 1
      /\ opening \in [Holders -> Nat \cup {None}] /\ open \in [Holders -> Nat \cup {None}]
      /\ Readers \subseteq Holders /\ None \notin Nat
  BY MarkersAssumption DEF IInv, TrackerInv, CurrentAt, Holders, MarkersAssumption
<1>2. UNCHANGED heapVars /\ next' = next
  BY DEF ReadClock, Register, close_snapshot
<1>3. CASE ReadClock(h)
  <2>1. /\ opening[h] = None /\ open[h] = None
        /\ opening' = [opening EXCEPT ![h] = CurrentAt(next)] /\ open' = open
    BY <1>3 DEF ReadClock
  <2>2. TrackerInv'
    BY <1>1, <1>2, <2>1 DEF TrackerInv
  <2>3. \A r \in Readers : \/ Held(opening', open', r) = Held(opening, open, r)
                           \/ Held(opening', open', r) = CurrentAt(next)
    BY <1>1, <2>1 DEF Held
  <2> QED
    BY <1>1, <1>2, <2>2, <2>3, TrackerStep
<1>4. CASE Register(h)
  <2>1. /\ opening[h] # None
        /\ open' = [open EXCEPT ![h] = opening[h]]
        /\ opening' = [opening EXCEPT ![h] = None]
    BY <1>4 DEF Register
  <2>2. TrackerInv'
    BY <1>1, <1>2, <2>1 DEF TrackerInv
  <2>3. \A r \in Readers : Held(opening', open', r) = Held(opening, open, r)
    BY <1>1, <2>1 DEF Held
  <2> QED
    BY <1>1, <1>2, <2>2, <2>3, TrackerStep
<1>5. CASE close_snapshot(h)
  <2>1. open' = [open EXCEPT ![h] = None] /\ opening' = opening
    BY <1>5 DEF close_snapshot
  <2>2. TrackerInv'
    BY <1>1, <1>2, <2>1 DEF TrackerInv
  <2>3. \A r \in Readers : \/ Held(opening', open', r) = None
                           \/ Held(opening', open', r) = Held(opening, open, r)
    BY <1>1, <2>1 DEF Held
  <2> QED
    BY <1>1, <1>2, <2>2, <2>3, TrackerStep
<1> QED
  BY <1>3, <1>4, <1>5

\* A write of another shard only moves the shared clock.
LEMMA ForeignStep ==
    ASSUME IInv, ForeignWrite
    PROVE  IInv' /\ UNCHANGED heapVars
<1>1. TrackerInv /\ next \in Nat
  BY DEF IInv, TrackerInv
<1>2. next' = next + 1 /\ UNCHANGED trackerVars /\ UNCHANGED heapVars
  BY DEF ForeignWrite, begin_write
<1>3. TrackerInv'
  BY <1>1, <1>2, ClockTicks
<1>4. \A r \in Readers : Held(opening', open', r) = Held(opening, open, r)
  BY <1>2 DEF trackerVars, Held
<1> QED
  BY <1>1, <1>2, <1>3, <1>4, TrackerStep

\* Every step keeps the invariant, and either leaves the heap alone or happens in
\* a free store and changes nothing a reader sees.
LEMMA NextStep ==
    ASSUME IInv, [Next]_vars
    PROVE  /\ IInv'
           /\ \/ UNCHANGED heapVars
              \/ StoreFree /\ SameForReaders(directory, slots, directory', slots')
<1>1. CASE UNCHANGED vars
  <2>1. UNCHANGED heapVars /\ TrackerInv' /\ next' \in Nat /\ next <= next'
    BY <1>1 DEF IInv, TrackerInv, vars, heapVars
  <2>2. \A r \in Readers : Held(opening', open', r) = Held(opening, open, r)
    BY <1>1 DEF vars, Held
  <2> QED
    BY <2>1, <2>2, TrackerStep
<1>2. ASSUME NEW id \in Records, NEW v \in Values, insert(id, v) \/ update(id, v)
      PROVE  IInv' /\ StoreFree /\ SameForReaders(directory, slots, directory', slots')
  BY <1>2, PutStep DEF insert, update
<1>3. ASSUME NEW id \in Records, delete(id)
      PROVE  IInv' /\ StoreFree /\ SameForReaders(directory, slots, directory', slots')
  BY <1>3, DeleteStep DEF delete
<1>4. CASE reclaim
  BY <1>4, ReclaimStep DEF reclaim
<1>5. CASE Snapshots
  BY <1>5, SnapshotStep DEF Snapshots
<1>6. CASE ForeignWrite
  BY <1>6, ForeignStep
<1> QED
  BY <1>1, <1>2, <1>3, <1>4, <1>5, <1>6 DEF Next, Write

\* The inductive invariant holds of every reachable state of tracker and heap,
\* whatever writes, reclamations, snapshots and other shards do.
THEOREM Invariance == Spec => []IInv
<1>1. IInv /\ [Next]_vars => IInv'
  BY NextStep
<1> QED
  BY InitIInv, <1>1, PTL DEF Spec

-----------------------------------------------------------------------------
(* What follows from it *)

\* The type invariant.
THEOREM TypeCorrect == Spec => []TypeOK
<1>1. IInv => TypeOK
  <2> SUFFICES ASSUME IInv PROVE TypeOK
    OBVIOUS
  <2>1. /\ pageCount \in 0 .. MaxPages /\ MaxPages \in Nat
        /\ offered \subseteq 0 .. pageCount - 1
    BY ConstantsAssumption DEF IInv, HeapInv, HeapTyped, ConstantsAssumption
  <2>2. offered \subseteq PageIds
    BY <2>1 DEF PageIds
  <2> QED
    BY <2>2 DEF IInv, TrackerInv, HeapInv, HeapTyped, TypeOK, Chains
<1> QED
  BY Invariance, <1>1, PTL

\* Version chains and occupied slots correspond one to one, whatever is written,
\* reclaimed and reused.
THEOREM SlotOwnership == Spec => []SlotsOwned
<1>1. IInv => SlotsOwned
  BY DEF IInv, HeapInv, HeapOwned, SlotsOwned
<1> QED
  BY Invariance, <1>1, PTL

\* latest_write_ts reports the last write of a record to every transaction whose
\* snapshot predates it, even after reclamation has removed tombstones.
THEOREM ConflictDetection == Spec => []ConflictStampsSurvive
<1>1. IInv => ConflictStampsSurvive
  <2> SUFFICES ASSUME IInv, NEW r \in Readers, NEW id \in Records,
                      Held(opening, open, r) # None,
                      lastWrite[id] > Held(opening, open, r)
               PROVE  newest_stamp(directory[id]) = lastWrite[id]
    BY DEF ConflictStampsSurvive
  <2>1. directory[id] # <<>>
    BY DEF IInv, HeapInv, ReadersServed
  <2>2. directory[id][Len(directory[id])].txn = lastWrite[id]
    BY <2>1 DEF IInv, HeapInv, Stamped
  <2> QED
    BY <2>1, <2>2 DEF newest_stamp
<1> QED
  BY Invariance, <1>1, PTL

\* A snapshot reads the newest version of a record not written since it was taken.
THEOREM SnapshotReadsCommitted == Spec => []SnapshotSeesCommitted
<1>1. IInv => SnapshotSeesCommitted
  <2> SUFFICES ASSUME IInv, NEW r \in Readers, NEW id \in Records,
                      Held(opening, open, r) # None,
                      lastWrite[id] <= Held(opening, open, r)
               PROVE  visible_at(directory[id], Held(opening, open, r))
                        = newest(directory[id])
    BY DEF SnapshotSeesCommitted
  <2> DEFINE at == Held(opening, open, r)
             c == directory[id]
  <2>1. at \in Nat /\ c \in Chains
    BY DEF IInv, TrackerInv, HeapInv, HeapTyped, Held, Holders
  <2>2. CASE c = <<>>
    BY <2>2, EmptySeq DEF visible_at, newest, LastUpTo, UpTo
  <2>3. CASE c # <<>>
    <3>1. Len(c) \in Nat \ {0}
      BY <2>1, <2>3, EmptySeq DEF Chains
    <3>2. c[Len(c)].txn = lastWrite[id]
      BY <2>3 DEF IInv, HeapInv, Stamped
    <3> HIDE DEF at, c
    <3>3. c[Len(c)].txn <= at
      BY <3>2 DEF at
    <3>4. LastUpTo(c, at) = Len(c)
      BY <2>1, <3>1, <3>3, LastUpToOnly
    <3>5. visible_at(c, at) = newest(c)
      BY <2>3, <3>1, <3>4 DEF visible_at, newest
    <3> QED
      BY <3>5 DEF at, c
  <2> QED
    BY <2>2, <2>3
<1> QED
  BY Invariance, <1>1, PTL

\* An open snapshot reads the same value of every record until it is dropped.
THEOREM SnapshotStability == Spec => SnapshotsAreStable
<1> DEFINE Stable ==
      \A r \in Readers :
         LET at == Held(opening, open, r) IN
         at # None /\ Held(opening', open', r) = at =>
            \A id \in Records :
               get_at(directory', slots', id, at) = get_at(directory, slots, id, at)
<1>1. IInv /\ [Next]_vars => Stable
  <2> SUFFICES ASSUME IInv, [Next]_vars, NEW r \in Readers, NEW id \in Records,
                      Held(opening, open, r) # None
               PROVE  get_at(directory', slots', id, Held(opening, open, r))
                        = get_at(directory, slots, id, Held(opening, open, r))
    OBVIOUS
  <2>1. CASE UNCHANGED heapVars
    BY <2>1 DEF heapVars
  <2>2. CASE StoreFree /\ SameForReaders(directory, slots, directory', slots')
    <3>1. Held(opening, open, r) = open[r] /\ open[r] # None
      BY <2>2, ReaderPast DEF IInv
    <3> QED
      BY <2>2, <3>1 DEF SameForReaders
  <2> QED
    BY <2>1, <2>2, NextStep
<1> QED
  BY Invariance, <1>1, PTL DEF Spec, SnapshotsAreStable

-----------------------------------------------------------------------------
(* What the abstract store sees of a heap *)

\* latest_write_ts reports a write of the record after `at`.
Later(chain, at) == chain # <<>> /\ newest_stamp(chain) > at

\* Both heaps hold the same record, in the same slot, and report its last write alike
\* to every reader of this store.
SameRecord(id, dir1, sl1, dir2, sl2) ==
    /\ newest(dir2[id]) = newest(dir1[id])
    /\ newest(dir1[id]) # None => sl2[newest(dir1[id])] = sl1[newest(dir1[id])]
    /\ \A r \in Readers : open[r] # None => (Later(dir2[id], open[r]) <=> Later(dir1[id], open[r]))

\* The newest version of a chain that has one.
LEMMA NewestOf ==
    ASSUME NEW c \in Chains, c # <<>>
    PROVE  /\ Len(c) \in Nat \ {0} /\ Len(c) \in 1 .. Len(c)
           /\ newest(c) = c[Len(c)].loc /\ newest_stamp(c) = c[Len(c)].txn
           /\ c[Len(c)].txn \in Nat
<1>1. Len(c) \in Nat \ {0}
  BY EmptySeq DEF Chains
<1>2. Len(c) \in 1 .. Len(c)
  BY <1>1
<1> QED
  BY <1>1, <1>2, ChainType DEF newest, newest_stamp

\* The newest version of a chain is in a live slot of the record.
LEMMA NewestIsLive ==
    ASSUME NEW dir, NEW sl, NEW off, NEW ret, NEW pages, NEW n, NEW lw,
           HeapInv(dir, sl, off, ret, pages, n, lw),
           NEW id \in Records, newest(dir[id]) # None
    PROVE  /\ newest(dir[id]) \in Locations
           /\ sl[newest(dir[id])] # Dead /\ sl[newest(dir[id])] \in Payloads
<1>1. dir[id] \in Chains /\ sl \in [Locations -> Payloads \cup {Dead}]
  BY DEF HeapInv, HeapTyped
<1>2. dir[id] # <<>>
  BY DEF newest
<1>3. Len(dir[id]) \in 1 .. Len(dir[id]) /\ newest(dir[id]) = dir[id][Len(dir[id])].loc
  BY <1>1, <1>2, NewestOf
<1>4. newest(dir[id]) \in Locations
  BY <1>1, <1>3, ChainType
<1>5. sl[newest(dir[id])] # Dead
  BY <1>3 DEF HeapInv, HeapOwned, NamedSlotsLive
<1> QED
  BY <1>1, <1>4, <1>5

\* Reclamation changes neither a record, nor what a reader is told of its writes.
LEMMA ReclaimKeepsRecords ==
    ASSUME NEW dir, NEW sl, NEW off, NEW ret, NEW pages, NEW n \in Nat, NEW lw,
           open \in [Holders -> Nat \cup {None}], StoreFree,
           HeapInv(dir, sl, off, ret, pages, n, lw),
           Reclaim(dir, sl, off, ret, pages, n), NEW id \in Records
    PROVE  SameRecord(id, dir, sl, directory', slots')
<1> DEFINE h == reclaim_horizon(n)
           c == dir[id]
           e == directory'[id]
<1>1. h \in Nat /\ \A x \in Holders : open[x] # None => h <= open[x]
  BY HorizonBound
<1>2. c \in Chains /\ e = Pruned(reclaim_to(c, h))
  BY DEF HeapInv, HeapTyped, Reclaim
<1>3. HeapInv(directory', slots', offered', retained', pages, n, lw)
  BY ReclaimStage
<1>4. /\ e \in Chains
      /\ Cut(c, h) \in 0 .. Len(c)
      /\ Cut(c, h) > 0 => c[Cut(c, h) + 1].txn <= h
      /\ c # <<>> => Cut(c, h) < Len(c)
      /\ \/ /\ e = <<>> /\ Len(e) = 0 /\ Len(c) = Cut(c, h) + 1
            /\ c[Cut(c, h) + 1].loc = None
         \/ /\ Len(e) = Len(c) - Cut(c, h)
            /\ \A i \in 1 .. Len(e) : e[i] = c[i + Cut(c, h)]
  <2> HIDE DEF h, c, e
  <2> QED
    BY <1>1, <1>2, KeptChain
<1>5. Len(c) \in Nat /\ Len(e) \in Nat
  BY <1>2, <1>4, ChainType
<1>6. \A r \in Readers : open[r] # None /\ c # <<>> /\ c[1].loc = None => c[1].txn <= open[r]
  BY DEF HeapInv, ReadersServed, Held, StoreFree
<1>7. \A r \in Readers : open[r] # None => open[r] \in Nat /\ h <= open[r]
  BY <1>1 DEF Holders
<1> HIDE DEF h, c, e
<1>8. /\ newest(e) = newest(c)
      /\ \A r \in Readers : open[r] # None => (Later(e, open[r]) <=> Later(c, open[r]))
  <2>1. CASE c = <<>>
    <3>1. Len(e) = 0
      BY <1>4, <1>5, <2>1, EmptySeq
    <3>2. e = <<>>
      BY <1>4, <3>1, EmptySeq DEF Chains
    <3> QED
      BY <2>1, <3>2
  <2>2. CASE c # <<>> /\ e = <<>> /\ Len(c) = Cut(c, h) + 1 /\ c[Cut(c, h) + 1].loc = None
    <3>1. newest(c) = None /\ newest(e) = None /\ newest_stamp(c) = c[Cut(c, h) + 1].txn
          /\ c[Cut(c, h) + 1].txn \in Nat
      BY <1>2, <2>2, NewestOf DEF newest
    <3>2. \A r \in Readers : open[r] # None => c[Cut(c, h) + 1].txn <= open[r]
      <4>1. CASE Cut(c, h) > 0
        BY <1>1, <1>4, <1>7, <3>1, <4>1
      <4>2. CASE Cut(c, h) = 0
        BY <1>6, <2>2, <4>2
      <4> QED
        BY <1>4, <1>5, <4>1, <4>2
    <3> QED
      BY <1>7, <2>2, <3>1, <3>2 DEF Later
  <2>3. CASE /\ c # <<>> /\ Len(e) = Len(c) - Cut(c, h)
             /\ \A i \in 1 .. Len(e) : e[i] = c[i + Cut(c, h)]
    <3>1. Len(e) > 0 /\ Len(e) \in 1 .. Len(e) /\ Len(e) + Cut(c, h) = Len(c)
      BY <1>4, <1>5, <2>3
    <3>2. e # <<>>
      BY <3>1, EmptySeq
    <3>3. e[Len(e)] = c[Len(c)]
      BY <2>3, <3>1
    <3> QED
      BY <1>2, <1>4, <2>3, <3>2, <3>3, NewestOf DEF Later
  <2> QED
    BY <1>4, <2>1, <2>2, <2>3
<1>9. newest(c) # None => slots'[newest(c)] = sl[newest(c)]
  <2> SUFFICES ASSUME newest(c) # None
               PROVE  slots'[newest(c)] = sl[newest(c)]
    OBVIOUS
  <2>1. newest(c) \in Locations /\ slots'[newest(c)] # Dead
    BY <1>3, <1>8, NewestIsLive DEF e
  <2>2. \E done : slots' = [l \in Locations |-> IF l \in done THEN Dead ELSE sl[l]]
    BY DEF Reclaim
  <2> QED
    BY <2>1, <2>2
<1> QED
  BY <1>8, <1>9 DEF SameRecord, c, e

\* The same, where a reclamation may follow a write.
LEMMA MaybeReclaimKeepsRecords ==
    ASSUME NEW dir, NEW sl, NEW off, NEW ret, NEW pages, NEW n \in Nat, NEW lw,
           open \in [Holders -> Nat \cup {None}], StoreFree,
           HeapInv(dir, sl, off, ret, pages, n, lw),
           maybe_reclaim(dir, sl, off, ret, pages, n), NEW id \in Records
    PROVE  SameRecord(id, dir, sl, directory', slots')
<1>1. CASE ret >= RetentionLimit
  BY <1>1, ReclaimKeepsRecords DEF maybe_reclaim
<1>2. CASE ~ (ret >= RetentionLimit)
  <2>1. directory' = dir /\ slots' = sl
    BY <1>2 DEF maybe_reclaim
  <2> QED
    BY <2>1 DEF SameRecord
<1> QED
  BY <1>1, <1>2

\* A placement that writes to a dead slot and no other.
KeepsLive(sl1) == \A l \in Locations : slots[l] # Dead => sl1[l] = slots[l]

\* Of all records only this one has a newer version, and every reader is told of it.
OneNewer(id, v, dir1, sl1) ==
    /\ newest(dir1[id]) = v.loc
    /\ \A r \in Readers : open[r] # None => Later(dir1[id], open[r])
    /\ \A x \in Records \ {id} : SameRecord(x, directory, slots, dir1, sl1)

\* A push makes its version the newest one of its record, for every reader a later
\* write, and leaves the other records alone.
LEMMA PushChangesOneRecord ==
    ASSUME TrackerInv, StoreFree, NEW id \in Records, NEW v \in Versions, v.txn = next,
           HeapInv(directory, slots, offered, retained, pageCount, next, lastWrite),
           NEW dir1, dir1 = [directory EXCEPT ![id] = Append(@, v)],
           NEW sl1, KeepsLive(sl1)
    PROVE  OneNewer(id, v, dir1, sl1)
<1>1. directory \in [Records -> Chains]
  BY DEF HeapInv, HeapTyped
<1>2. dir1[id] = Append(directory[id], v) /\ \A x \in Records \ {id} : dir1[x] = directory[x]
  BY <1>1
<1>3. /\ dir1[id] \in Chains /\ Len(dir1[id]) = Len(directory[id]) + 1
      /\ dir1[id][Len(directory[id]) + 1] = v /\ Len(directory[id]) \in Nat
  BY <1>1, <1>2, AppendProperties, ChainType DEF Chains
<1>4. dir1[id] # <<>>
  <2>1. Len(dir1[id]) # 0
    BY <1>3
  <2> QED
    BY <2>1, EmptySeq
<1>5. newest(dir1[id]) = v.loc /\ newest_stamp(dir1[id]) = next
  BY <1>3, <1>4, NewestOf
<1>6. \A r \in Readers : open[r] # None => open[r] \in Nat /\ open[r] < next
  BY DEF TrackerInv, Holders
<1>7. ASSUME NEW r \in Readers, open[r] # None PROVE Later(dir1[id], open[r])
  <2>1. next > open[r]
    BY <1>6, <1>7 DEF TrackerInv
  <2> QED
    BY <1>4, <1>5, <2>1 DEF Later
<1>8. ASSUME NEW x \in Records \ {id} PROVE SameRecord(x, directory, slots, dir1, sl1)
  <2>1. newest(directory[x]) # None => sl1[newest(directory[x])] = slots[newest(directory[x])]
    BY NewestIsLive DEF KeepsLive
  <2> QED
    BY <1>2, <2>1 DEF SameRecord
<1> QED
  BY <1>5, <1>7, <1>8 DEF OneNewer

-----------------------------------------------------------------------------
(* The refinement *)

\* The state of the abstract store that a state of the heap stands for.
DataNow == [id \in Records |-> ValueAt(newest(directory[id]))]
SnapNow == [r \in Readers |-> SnapOf(r)]
WrittenNow == [r \in Readers |-> WrittenSince(r)]

\* What a write of v to record id is for the abstract store.
Written(id, v) ==
    /\ DataNow' = [DataNow EXCEPT ![id] = v]
    /\ WrittenNow' =
         [r \in Readers |-> IF SnapNow[r] = None THEN {} ELSE WrittenNow[r] \cup {id}]

\* While the store is free a reader's snapshot is the registered one.
LEMMA FreeHeld ==
    ASSUME StoreFree, NEW r \in Readers
    PROVE  Held(opening, open, r) = open[r]
BY DEF StoreFree, Held

\* A reader with a snapshot reads some value of every record, and one without reads none.
LEMMA SnapType ==
    ASSUME IInv, NEW r \in Readers
    PROVE  SnapOf(r) = None <=> Held(opening, open, r) = None
<1>1. CASE Held(opening, open, r) = None
  BY <1>1 DEF SnapOf
<1>2. CASE Held(opening, open, r) # None
  <2> DEFINE at == Held(opening, open, r)
  <2>1. at \in Nat
    BY <1>2 DEF IInv, TrackerInv, Held, Holders
  <2>2. \A id \in Records : ValueAt(visible_at(directory[id], at)) \in Values \cup {None}
    <3> TAKE id \in Records
    <3>1. directory[id] \in Chains /\ slots \in [Locations -> Payloads \cup {Dead}]
      BY DEF IInv, HeapInv, HeapTyped
    <3> HIDE DEF at
    <3>2. CASE visible_at(directory[id], at) = None
      BY <3>2 DEF ValueAt
    <3>3. CASE visible_at(directory[id], at) # None
      <4>1. PICK i \in 1 .. Len(directory[id]) :
              visible_at(directory[id], at) = directory[id][i].loc
        BY <2>1, <3>1, <3>3, VisibleIsNamed
      <4>2. directory[id][i].loc \in Locations
        BY <3>1, <3>3, <4>1, ChainType
      <4>3. slots[directory[id][i].loc] # Dead
        BY <3>3, <4>1 DEF IInv, HeapInv, HeapOwned, NamedSlotsLive
      <4>4. slots[directory[id][i].loc] \in Payloads
        BY <3>1, <4>2, <4>3
      <4> QED
        BY <3>3, <4>1, <4>4 DEF ValueAt, Payloads
    <3> QED
      BY <3>2, <3>3
  <2>3. [id \in Records |-> ValueAt(visible_at(directory[id], at))] \in [Records -> Values \cup {None}]
    BY <2>2
  <2>4. SnapOf(r) \in [Records -> Values \cup {None}]
    BY <1>2, <2>3 DEF SnapOf
  <2> QED
    BY <1>2, <2>4, MarkersAssumption DEF MarkersAssumption
<1> QED
  BY <1>1, <1>2

\* What is read through a location depends only on the payload of its slot.
LEMMA PayloadDecides ==
    ASSUME IInv, IInv', NEW at \in Nat, NEW id \in Records,
           get_at(directory', slots', id, at) = get_at(directory, slots, id, at)
    PROVE  ValueAt(visible_at(directory[id], at))' = ValueAt(visible_at(directory[id], at))
<1> DEFINE l == visible_at(directory[id], at)
           m == visible_at(directory'[id], at)
<1>1. l # None => slots[l] \in Payloads
  <2> SUFFICES ASSUME l # None PROVE slots[l] \in Payloads
    OBVIOUS
  <2>1. directory[id] \in Chains /\ slots \in [Locations -> Payloads \cup {Dead}]
    BY DEF IInv, HeapInv, HeapTyped
  <2>2. PICK i \in 1 .. Len(directory[id]) : l = directory[id][i].loc
    BY <2>1, VisibleIsNamed
  <2> HIDE DEF l
  <2>3. l \in Locations /\ slots[l] # Dead
    BY <2>1, <2>2, ChainType DEF IInv, HeapInv, HeapOwned, NamedSlotsLive
  <2> QED
    BY <2>1, <2>3
<1>2. m # None => slots'[m] \in Payloads
  <2> SUFFICES ASSUME m # None PROVE slots'[m] \in Payloads
    OBVIOUS
  <2>1. directory'[id] \in Chains /\ slots' \in [Locations -> Payloads \cup {Dead}]
    BY DEF IInv, HeapInv, HeapTyped
  <2>2. PICK i \in 1 .. Len(directory'[id]) : m = directory'[id][i].loc
    BY <2>1, VisibleIsNamed
  <2> HIDE DEF m
  <2>3. m \in Locations /\ slots'[m] # Dead
    BY <2>1, <2>2, ChainType DEF IInv, HeapInv, HeapOwned, NamedSlotsLive
  <2> QED
    BY <2>1, <2>3
<1>3. (IF m = None THEN None ELSE slots'[m]) = (IF l = None THEN None ELSE slots[l])
  BY DEF get_at
<1>4. ValueAt(visible_at(directory[id], at)) = IF l = None THEN None ELSE slots[l].val
  BY DEF ValueAt
<1>5. ValueAt(visible_at(directory[id], at))' = IF m = None THEN None ELSE slots'[m].val
  BY DEF ValueAt
<1> HIDE DEF l, m
<1>6. CASE m = None
  BY <1>1, <1>3, <1>4, <1>5, <1>6, MarkersAssumption DEF MarkersAssumption
<1>7. CASE m # None
  BY <1>2, <1>3, <1>4, <1>5, <1>7, MarkersAssumption DEF MarkersAssumption
<1> QED
  BY <1>6, <1>7

\* Nothing the store does moves a reader's snapshot.
LEMMA SnapStays ==
    ASSUME IInv, IInv', StoreFree, UNCHANGED trackerVars,
           SameForReaders(directory, slots, directory', slots')
    PROVE  SnapNow' = SnapNow
<1> SUFFICES ASSUME NEW r \in Readers
             PROVE  SnapOf(r)' = SnapOf(r)
  BY DEF SnapNow
<1>1. Held(opening, open, r) = open[r] /\ Held(opening, open, r)' = open[r]
  BY FreeHeld DEF trackerVars, StoreFree, Held
<1>2. CASE open[r] = None
  BY <1>1, <1>2 DEF SnapOf
<1>3. CASE open[r] # None
  <2>1. open[r] \in Nat
    BY <1>3 DEF IInv, TrackerInv, Holders
  <2> PICK at \in Nat : at = open[r]
    BY <2>1
  <2>2. \A id \in Records :
          ValueAt(visible_at(directory[id], at))' = ValueAt(visible_at(directory[id], at))
    <3> TAKE id \in Records
    <3>1. get_at(directory', slots', id, at) = get_at(directory, slots, id, at)
      BY <1>3 DEF SameForReaders
    <3> QED
      BY <3>1, PayloadDecides
  <2>3. at # None /\ Held(opening, open, r) = at /\ Held(opening, open, r)' = at
    BY <1>1, <1>3
  <2>4. SnapOf(r) = [id \in Records |-> ValueAt(visible_at(directory[id], at))]
    BY <2>3 DEF SnapOf
  <2>5. SnapOf(r)' = [id \in Records |-> ValueAt(visible_at(directory[id], at))']
    BY <2>3 DEF SnapOf
  <2> QED
    BY <2>2, <2>4, <2>5
<1> QED
  BY <1>2, <1>3

\* What a reader is told of written records, while the store is free.
LEMMA WrittenByStamps ==
    ASSUME StoreFree, UNCHANGED trackerVars, NEW r \in Readers
    PROVE  /\ WrittenSince(r) =
                IF open[r] = None THEN {} ELSE {id \in Records : Later(directory[id], open[r])}
           /\ WrittenSince(r)' =
                IF open[r] = None THEN {} ELSE {id \in Records : Later(directory'[id], open[r])}
<1>1. Held(opening, open, r) = open[r] /\ Held(opening, open, r)' = open[r]
  BY FreeHeld DEF trackerVars, StoreFree, Held
<1> QED
  BY <1>1 DEF WrittenSince, Later

\* The same record has the same value.
LEMMA SameValue ==
    ASSUME NEW id \in Records, SameRecord(id, directory, slots, directory', slots')
    PROVE  ValueAt(newest(directory[id]))' = ValueAt(newest(directory[id]))
<1> DEFINE l == newest(directory[id])
           m == newest(directory'[id])
<1>1. m = l /\ (l # None => slots'[l] = slots[l])
  BY DEF SameRecord
<1>2. ValueAt(newest(directory[id])) = IF l = None THEN None ELSE slots[l].val
  BY DEF ValueAt
<1>3. ValueAt(newest(directory[id]))' = IF m = None THEN None ELSE slots'[m].val
  BY DEF ValueAt
<1> HIDE DEF l, m
<1> QED
  BY <1>1, <1>2, <1>3

\* A step that changes no record is none for the abstract store.
LEMMA NoRecordChanges ==
    ASSUME StoreFree, UNCHANGED trackerVars,
           \A id \in Records : SameRecord(id, directory, slots, directory', slots')
    PROVE  DataNow' = DataNow /\ WrittenNow' = WrittenNow
<1>1. DataNow' = DataNow
  BY SameValue DEF DataNow
<1>2. ASSUME NEW r \in Readers PROVE WrittenSince(r)' = WrittenSince(r)
  BY WrittenByStamps DEF SameRecord
<1> QED
  BY <1>1, <1>2 DEF WrittenNow

\* A step that changes one record is a write of it.
LEMMA OneRecordChanges ==
    ASSUME IInv, StoreFree, UNCHANGED trackerVars, NEW id \in Records, NEW v,
           ValueAt(newest(directory[id]))' = v,
           \A r \in Readers : open[r] # None => Later(directory'[id], open[r]),
           \A x \in Records \ {id} : SameRecord(x, directory, slots, directory', slots')
    PROVE  Written(id, v)
<1>1. DataNow' = [DataNow EXCEPT ![id] = v]
  BY SameValue DEF DataNow
<1>2. ASSUME NEW r \in Readers
      PROVE  WrittenSince(r)' = IF SnapOf(r) = None THEN {} ELSE WrittenSince(r) \cup {id}
  <2>1. SnapOf(r) = None <=> open[r] = None
    BY SnapType, FreeHeld
  <2>2. CASE open[r] = None
    BY <2>1, <2>2, WrittenByStamps
  <2>3. CASE open[r] # None
    <3>1. \A x \in Records \ {id} : Later(directory'[x], open[r]) <=> Later(directory[x], open[r])
      BY <2>3 DEF SameRecord
    <3>2. Later(directory'[id], open[r])
      BY <2>3
    <3>3. {x \in Records : Later(directory'[x], open[r])}
            = {x \in Records : Later(directory[x], open[r])} \cup {id}
      BY <3>1, <3>2
    <3> QED
      BY <2>1, <2>3, <3>3, WrittenByStamps
  <2> QED
    BY <2>2, <2>3
<1>3. WrittenNow' = [r \in Readers |-> IF SnapNow[r] = None THEN {} ELSE WrittenNow[r] \cup {id}]
  BY <1>2 DEF WrittenNow, SnapNow
<1> QED
  BY <1>1, <1>3 DEF Written

\* insert and update write their value.
LEMMA PutWrites ==
    ASSUME IInv, StoreFree, NEW id \in Records, NEW val \in Values, apply_put(id, val)
    PROVE  Written(id, val) /\ SnapNow' = SnapNow
<1>1. PICK loc, dir1, sl1, off1, lw1, ret, pages :
        PutAt(id, val, loc, dir1, sl1, off1, lw1, ret, pages)
  BY PutPushes
<1>2. /\ loc \in Locations /\ slots[loc] = Dead
      /\ dir1 = [directory EXCEPT ![id] = Append(@, [txn |-> next, loc |-> loc])]
      /\ sl1 = [slots EXCEPT ![loc] = [id |-> id, val |-> val]]
      /\ next + 1 \in Nat /\ UNCHANGED trackerVars
      /\ HeapInv(dir1, sl1, off1, ret, pages, next + 1, lw1)
      /\ maybe_reclaim(dir1, sl1, off1, ret, pages, next + 1)
  BY <1>1 DEF PutAt
<1>3. /\ TrackerInv /\ next \in Nat /\ open \in [Holders -> Nat \cup {None}]
      /\ HeapInv(directory, slots, offered, retained, pageCount, next, lastWrite)
      /\ slots \in [Locations -> Payloads \cup {Dead}]
  BY DEF IInv, TrackerInv, HeapInv, HeapTyped
<1> PICK v : v = [txn |-> next, loc |-> loc]
  OBVIOUS
<1>4. v \in Versions /\ v.txn = next /\ v.loc = loc
  BY <1>2, <1>3 DEF Versions
<1>5. KeepsLive(sl1)
  BY <1>2, <1>3 DEF KeepsLive
<1>6. /\ newest(dir1[id]) = loc
      /\ \A r \in Readers : open[r] # None => Later(dir1[id], open[r])
      /\ \A x \in Records \ {id} : SameRecord(x, directory, slots, dir1, sl1)
  <2>1. dir1 = [directory EXCEPT ![id] = Append(@, v)]
    BY <1>2
  <2>2. /\ TrackerInv
        /\ HeapInv(directory, slots, offered, retained, pageCount, next, lastWrite)
        /\ v \in Versions /\ v.txn = next
    BY <1>3, <1>4
  <2>3. OneNewer(id, v, dir1, sl1)
    BY <1>5, <2>1, <2>2, PushChangesOneRecord
  <2> QED
    BY <1>4, <2>3 DEF OneNewer
<1>7. \A x \in Records : SameRecord(x, dir1, sl1, directory', slots')
  BY <1>2, <1>3, MaybeReclaimKeepsRecords
<1>8. /\ newest(directory'[id]) = loc /\ slots'[loc] = sl1[loc]
      /\ \A r \in Readers : open[r] # None => Later(directory'[id], open[r])
  <2>1. loc # None
    BY <1>2, MarkersAssumption DEF MarkersAssumption
  <2> QED
    BY <1>6, <1>7, <2>1 DEF SameRecord
<1>9. ASSUME NEW x \in Records \ {id} PROVE SameRecord(x, directory, slots, directory', slots')
  BY <1>6, <1>7 DEF SameRecord
<1>10. ValueAt(newest(directory[id]))' = val
  <2>1. sl1[loc] = [id |-> id, val |-> val]
    BY <1>2, <1>3
  <2>2. loc # None
    BY <1>2, MarkersAssumption DEF MarkersAssumption
  <2>3. ValueAt(newest(directory[id]))' =
          IF newest(directory'[id]) = None THEN None ELSE slots'[newest(directory'[id])].val
    BY DEF ValueAt
  <2> QED
    BY <1>8, <2>1, <2>2, <2>3
<1>11. Written(id, val)
  BY <1>2, <1>8, <1>9, <1>10, OneRecordChanges
<1>12. SnapNow' = SnapNow
  BY <1>2, PutStep, SnapStays
<1> QED
  BY <1>11, <1>12

\* delete writes None where there is a record, and nothing where there is none.
LEMMA DeleteWrites ==
    ASSUME IInv, StoreFree, NEW id \in Records, apply_delete(id)
    PROVE  /\ SnapNow' = SnapNow
           /\ Written(id, None) \/ (DataNow' = DataNow /\ WrittenNow' = WrittenNow)
<1>1. /\ TrackerInv /\ next \in Nat /\ next + 1 \in Nat /\ open \in [Holders -> Nat \cup {None}]
      /\ HeapInv(directory, slots, offered, retained, pageCount, next, lastWrite)
      /\ UNCHANGED trackerVars
  BY DEF IInv, TrackerInv, apply_delete
<1>2. SnapNow' = SnapNow
  BY <1>1, DeleteStep, SnapStays
<1>3. CASE is_absent(directory[id])
  <2>1. directory' = directory /\ slots' = slots
    BY <1>3 DEF apply_delete, heapVars
  <2>2. \A x \in Records : SameRecord(x, directory, slots, directory', slots')
    BY <2>1 DEF SameRecord
  <2> QED
    BY <1>1, <1>2, <2>2, NoRecordChanges
<1>4. CASE ~ is_absent(directory[id])
  <2> PICK v : v = [txn |-> next, loc |-> None]
    OBVIOUS
  <2> PICK dir1 : dir1 = [directory EXCEPT ![id] = Append(@, v)]
    OBVIOUS
  <2> PICK lw1 : lw1 = [lastWrite EXCEPT ![id] = next]
    OBVIOUS
  <2>1. v \in Versions /\ v.txn = next /\ v.loc = None
    BY <1>1 DEF Versions
  <2>2. maybe_reclaim(dir1, slots, offered, retained + 1, pageCount, next + 1)
    BY <1>4 DEF apply_delete
  <2>3. directory[id] # <<>>
    BY <1>4 DEF is_absent, newest
  <2>4. HeapInv(dir1, slots, offered, retained + 1, pageCount, next + 1, lw1)
    <3>1. dir1 = [directory EXCEPT ![id] = Append(@, [txn |-> next, loc |-> None])]
      OBVIOUS
    <3> QED
      BY <1>1, <2>3, <3>1, DeleteStage
  <2>5. /\ newest(dir1[id]) = v.loc
        /\ \A r \in Readers : open[r] # None => Later(dir1[id], open[r])
        /\ \A x \in Records \ {id} : SameRecord(x, directory, slots, dir1, slots)
    <3>1. KeepsLive(slots)
      BY DEF KeepsLive
    <3>2. dir1 = [directory EXCEPT ![id] = Append(@, v)]
      OBVIOUS
    <3>3. OneNewer(id, v, dir1, slots)
      BY <1>1, <2>1, <3>1, <3>2, PushChangesOneRecord
    <3> QED
      BY <3>3 DEF OneNewer
  <2>6. \A x \in Records : SameRecord(x, dir1, slots, directory', slots')
    BY <1>1, <2>2, <2>4, MaybeReclaimKeepsRecords
  <2>7. /\ newest(directory'[id]) = None
        /\ \A r \in Readers : open[r] # None => Later(directory'[id], open[r])
    BY <2>1, <2>5, <2>6 DEF SameRecord
  <2>8. ASSUME NEW x \in Records \ {id} PROVE SameRecord(x, directory, slots, directory', slots')
    BY <2>5, <2>6 DEF SameRecord
  <2>9. ValueAt(newest(directory[id]))' = None
    BY <2>7 DEF ValueAt
  <2>10. Written(id, None)
    <3> PICK w : w = None
      OBVIOUS
    <3>1. UNCHANGED trackerVars
      BY <1>1
    <3>2. ValueAt(newest(directory[id]))' = w
      BY <2>9
    <3>3. Written(id, w)
      BY <2>7, <2>8, <3>1, <3>2, OneRecordChanges
    <3> QED
      BY <3>3
  <2> QED
    BY <1>2, <2>10
<1> QED
  BY <1>3, <1>4

\* reclaim is no step of the abstract store.
LEMMA ReclaimStutters ==
    ASSUME IInv, reclaim
    PROVE  DataNow' = DataNow /\ SnapNow' = SnapNow /\ WrittenNow' = WrittenNow
<1>1. /\ StoreFree /\ UNCHANGED trackerVars /\ next \in Nat
      /\ Reclaim(directory, slots, offered, retained, pageCount, next)
      /\ HeapInv(directory, slots, offered, retained, pageCount, next, lastWrite)
      /\ open \in [Holders -> Nat \cup {None}]
  BY DEF IInv, TrackerInv, reclaim, trackerVars
<1>2. \A x \in Records : SameRecord(x, directory, slots, directory', slots')
  BY <1>1, ReclaimKeepsRecords
<1> QED
  BY <1>1, <1>2, NoRecordChanges, ReclaimStep, SnapStays

\* While the heap stands still the abstract store follows the snapshot of each reader.
LEMMA HeapStandsStill ==
    ASSUME UNCHANGED heapVars
    PROVE  /\ DataNow' = DataNow
           /\ \A r \in Readers : Held(opening', open', r) = Held(opening, open, r)
                => SnapOf(r)' = SnapOf(r) /\ WrittenSince(r)' = WrittenSince(r)
           /\ \A r \in Readers : Held(opening', open', r) = None
                => SnapOf(r)' = None /\ WrittenSince(r)' = {}
<1>1. directory' = directory /\ slots' = slots
  BY DEF heapVars
<1>2. DataNow' = DataNow
  BY <1>1 DEF DataNow, ValueAt
<1>3. ASSUME NEW r \in Readers, Held(opening', open', r) = Held(opening, open, r)
      PROVE  SnapOf(r)' = SnapOf(r) /\ WrittenSince(r)' = WrittenSince(r)
  BY <1>1, <1>3 DEF SnapOf, WrittenSince, ValueAt
<1>4. ASSUME NEW r \in Readers, Held(opening', open', r) = None
      PROVE  SnapOf(r)' = None /\ WrittenSince(r)' = {}
  BY <1>4 DEF SnapOf, WrittenSince
<1> QED
  BY <1>2, <1>3, <1>4

\* A snapshot of this moment reads the records as they stand, none of them written since.
LEMMA SnapshotOfNow ==
    ASSUME IInv
    PROVE  \A id \in Records :
              /\ visible_at(directory[id], CurrentAt(next)) = newest(directory[id])
              /\ ~ Later(directory[id], CurrentAt(next))
<1> TAKE id \in Records
<1> PICK c : c = directory[id]
  OBVIOUS
<1> PICK at : at = CurrentAt(next)
  OBVIOUS
<1>1. c \in Chains /\ next \in Nat \ {0}
  BY DEF IInv, TrackerInv, HeapInv, HeapTyped
<1>2. at \in Nat /\ at = next - 1
  BY <1>1 DEF CurrentAt
<1>3. \A i \in 1 .. Len(c) : c[i].txn \in Nat /\ c[i].txn < next
  BY <1>1, ChainType DEF IInv, HeapInv, Stamped
<1>4. CASE c = <<>>
  <2>1. UpTo(c, at) = {}
    BY <1>4, EmptySeq DEF UpTo
  <2> QED
    BY <1>4, <2>1 DEF visible_at, LastUpTo, newest, Later
<1>5. CASE c # <<>>
  <2>1. /\ Len(c) \in Nat \ {0} /\ Len(c) \in 1 .. Len(c)
        /\ newest(c) = c[Len(c)].loc /\ newest_stamp(c) = c[Len(c)].txn
    BY <1>1, <1>5, NewestOf
  <2>2. c[Len(c)].txn <= at
    BY <1>1, <1>2, <1>3, <2>1
  <2>3. LastUpTo(c, at) = Len(c)
    BY <1>1, <1>2, <2>1, <2>2, LastUpToOnly
  <2>4. ~ (newest_stamp(c) > at)
    BY <1>2, <1>3, <2>1, <2>2
  <2> QED
    BY <2>1, <2>3, <2>4 DEF visible_at, Later
<1> QED
  BY <1>4, <1>5

\* Reading the clock takes the snapshot.
LEMMA ReadClockTakes ==
    ASSUME IInv, NEW r \in Readers, ReadClock(r)
    PROVE  /\ DataNow' = DataNow /\ SnapNow[r] = None
           /\ SnapNow' = [SnapNow EXCEPT ![r] = DataNow]
           /\ WrittenNow' = [WrittenNow EXCEPT ![r] = {}]
<1> PICK at : at = CurrentAt(next)
  OBVIOUS
<1>1. /\ UNCHANGED heapVars /\ opening' = [opening EXCEPT ![r] = at] /\ open' = open
      /\ open[r] = None /\ opening[r] = None
  BY DEF ReadClock
<1>2. opening \in [Holders -> Nat \cup {None}] /\ Readers \subseteq Holders
  BY DEF IInv, TrackerInv, Holders
<1>3. at \in Nat /\ at # None
  BY MarkersAssumption DEF IInv, TrackerInv, CurrentAt, MarkersAssumption
<1>4. /\ Held(opening, open, r) = None /\ Held(opening', open', r) = at
      /\ \A x \in Readers \ {r} : Held(opening', open', x) = Held(opening, open, x)
  BY <1>1, <1>2, <1>3 DEF Held
<1>5. SnapOf(r)' = DataNow
  <2>1. SnapOf(r)' = [id \in Records |-> ValueAt(visible_at(directory[id], at))']
    BY <1>3, <1>4 DEF SnapOf
  <2>2. \A id \in Records :
          ValueAt(visible_at(directory[id], at))' = ValueAt(newest(directory[id]))
    BY <1>1, SnapshotOfNow DEF ValueAt, heapVars
  <2> QED
    BY <2>1, <2>2 DEF DataNow
<1>6. WrittenSince(r)' = {}
  <2>1. WrittenSince(r)' = {id \in Records : Later(directory'[id], at)}
    BY <1>3, <1>4 DEF WrittenSince, Later
  <2>2. \A id \in Records : ~ Later(directory'[id], at)
    BY <1>1, SnapshotOfNow DEF heapVars
  <2> QED
    BY <2>1, <2>2
<1>7. SnapOf(r) = None
  BY <1>4 DEF SnapOf
<1>8. /\ DataNow' = DataNow
      /\ \A x \in Readers \ {r} : SnapOf(x)' = SnapOf(x) /\ WrittenSince(x)' = WrittenSince(x)
  BY <1>1, <1>4, HeapStandsStill
<1> QED
  BY <1>5, <1>6, <1>7, <1>8 DEF SnapNow, WrittenNow

\* Registering a snapshot of this store, and every step of another shard's holder, are
\* no steps of the abstract store; dropping one is.
LEMMA TrackerSteps ==
    ASSUME IInv, NEW h \in Holders, ReadClock(h) \/ Register(h) \/ close_snapshot(h),
           h \in Readers => ~ ReadClock(h)
    PROVE  /\ DataNow' = DataNow
           /\ \/ SnapNow' = SnapNow /\ WrittenNow' = WrittenNow
              \/ /\ h \in Readers /\ SnapNow[h] # None
                 /\ SnapNow' = [SnapNow EXCEPT ![h] = None]
                 /\ WrittenNow' = [WrittenNow EXCEPT ![h] = {}]
<1>1. UNCHANGED heapVars /\ opening \in [Holders -> Nat \cup {None}]
      /\ open \in [Holders -> Nat \cup {None}]
  BY DEF IInv, TrackerInv, ReadClock, Register, close_snapshot
<1>2. /\ DataNow' = DataNow
      /\ \A r \in Readers : Held(opening', open', r) = Held(opening, open, r)
           => SnapOf(r)' = SnapOf(r) /\ WrittenSince(r)' = WrittenSince(r)
      /\ \A r \in Readers : Held(opening', open', r) = None
           => SnapOf(r)' = None /\ WrittenSince(r)' = {}
  BY <1>1, HeapStandsStill
<1>3. \A r \in Readers : r \in Holders /\ r # h => Held(opening', open', r) = Held(opening, open, r)
  BY <1>1 DEF ReadClock, Register, close_snapshot, Held
<1>4. Readers \subseteq Holders
  BY DEF Holders
<1>5. CASE h \notin Readers
  <2>1. \A r \in Readers : SnapOf(r)' = SnapOf(r) /\ WrittenSince(r)' = WrittenSince(r)
    BY <1>2, <1>3, <1>4, <1>5
  <2> QED
    BY <1>2, <2>1 DEF SnapNow, WrittenNow
<1>6. CASE h \in Readers /\ Register(h)
  <2>1. Held(opening', open', h) = Held(opening, open, h)
    BY <1>1, <1>4, <1>6 DEF Register, Held
  <2>2. \A r \in Readers : SnapOf(r)' = SnapOf(r) /\ WrittenSince(r)' = WrittenSince(r)
    BY <1>2, <1>3, <1>4, <2>1
  <2> QED
    BY <1>2, <2>2 DEF SnapNow, WrittenNow
<1>7. CASE h \in Readers /\ close_snapshot(h)
  <2>1. Held(opening, open, h) # None
    BY <1>7 DEF close_snapshot, Held
  <2>2. SnapOf(h) # None
    BY <1>7, <2>1, SnapType
  <2>3. CASE opening[h] = None
    <3>1. Held(opening', open', h) = None
      BY <1>1, <1>4, <1>7, <2>3 DEF close_snapshot, Held
    <3>2. SnapOf(h)' = None /\ WrittenSince(h)' = {}
      BY <1>2, <1>7, <3>1
    <3>3. \A r \in Readers \ {h} : SnapOf(r)' = SnapOf(r) /\ WrittenSince(r)' = WrittenSince(r)
      BY <1>2, <1>3, <1>4
    <3> QED
      BY <1>2, <1>7, <2>2, <3>2, <3>3 DEF SnapNow, WrittenNow
  <2>4. CASE opening[h] # None
    <3>1. Held(opening', open', h) = Held(opening, open, h)
      BY <1>1, <1>4, <1>7, <2>4 DEF close_snapshot, Held
    <3>2. \A r \in Readers : SnapOf(r)' = SnapOf(r) /\ WrittenSince(r)' = WrittenSince(r)
      BY <1>2, <1>3, <1>4, <3>1
    <3> QED
      BY <1>2, <3>2 DEF SnapNow, WrittenNow
  <2> QED
    BY <2>3, <2>4
<1> QED
  BY <1>5, <1>6, <1>7

\* An empty heap is the empty store.
LEMMA InitRefines == Init => Store!StoreInit
<1> SUFFICES ASSUME Init PROVE Store!StoreInit
  OBVIOUS
<1>1. \A id \in Records : directory[id] = <<>>
  BY DEF Init
<1>2. \A id \in Records : ValueAt(newest(directory[id])) = None
  BY <1>1 DEF newest, ValueAt
<1>3. \A r \in Readers : Held(opening, open, r) = None
  BY DEF Init, Held, Holders
<1>4. \A r \in Readers : SnapOf(r) = None /\ WrittenSince(r) = {}
  BY <1>3 DEF SnapOf, WrittenSince
<1> QED
  BY <1>2, <1>4 DEF Store!StoreInit

\* Every step of the heap is a step of the abstract store, or none.
LEMMA StepRefines ==
    ASSUME IInv, [Next]_vars
    PROVE  \/ \E id \in Records, v \in Values \cup {None} : Written(id, v) /\ SnapNow' = SnapNow
           \/ \E r \in Readers :
                /\ DataNow' = DataNow
                /\ \/ /\ SnapNow[r] = None /\ SnapNow' = [SnapNow EXCEPT ![r] = DataNow]
                      /\ WrittenNow' = [WrittenNow EXCEPT ![r] = {}]
                   \/ /\ SnapNow[r] # None /\ SnapNow' = [SnapNow EXCEPT ![r] = None]
                      /\ WrittenNow' = [WrittenNow EXCEPT ![r] = {}]
           \/ DataNow' = DataNow /\ SnapNow' = SnapNow /\ WrittenNow' = WrittenNow
<1>1. ASSUME NEW id \in Records, NEW v \in Values, insert(id, v) \/ update(id, v)
      PROVE  Written(id, v) /\ SnapNow' = SnapNow
  BY <1>1, PutWrites DEF insert, update
<1>2. ASSUME NEW id \in Records, delete(id)
      PROVE  /\ SnapNow' = SnapNow
             /\ Written(id, None) \/ (DataNow' = DataNow /\ WrittenNow' = WrittenNow)
  BY <1>2, DeleteWrites DEF delete
<1>3. CASE reclaim
  BY <1>3, ReclaimStutters
<1>4. CASE Snapshots
  <2>1. PICK h \in Holders : ReadClock(h) \/ Register(h) \/ close_snapshot(h)
    BY <1>4 DEF Snapshots
  <2>2. CASE h \in Readers /\ ReadClock(h)
    BY <2>2, ReadClockTakes
  <2>3. CASE ~ (h \in Readers /\ ReadClock(h))
    BY <2>1, <2>3, TrackerSteps
  <2> QED
    BY <2>2, <2>3
<1>5. CASE ForeignWrite \/ UNCHANGED vars
  <2>1. UNCHANGED heapVars /\ opening' = opening /\ open' = open
    BY <1>5 DEF ForeignWrite, vars, heapVars, trackerVars
  <2>2. \A r \in Readers : Held(opening', open', r) = Held(opening, open, r)
    BY <2>1 DEF Held
  <2>3. DataNow' = DataNow
        /\ \A r \in Readers : SnapOf(r)' = SnapOf(r) /\ WrittenSince(r)' = WrittenSince(r)
    BY <2>1, <2>2, HeapStandsStill
  <2> QED
    BY <2>3 DEF SnapNow, WrittenNow
<1>6. CASE Write
  <2>1. PICK id \in Records : (\E v \in Values : insert(id, v) \/ update(id, v)) \/ delete(id)
    BY <1>6 DEF Write
  <2>2. CASE \E v \in Values : insert(id, v) \/ update(id, v)
    BY <1>1, <2>2
  <2>3. CASE delete(id)
    BY <1>2, <2>3
  <2> QED
    BY <2>1, <2>2, <2>3
<1> QED
  BY <1>3, <1>4, <1>5, <1>6 DEF Next

\* Version chains, tombstones, slot reuse, reclamation, the shared clock and the two-step
\* opening of a snapshot implement the abstract snapshot store.
THEOREM Refinement == Spec => ImplementsSnapshotStore
<1>1. IInv /\ [Next]_vars => [Store!StoreNext]_(Store!storeVars)
  <2> SUFFICES ASSUME IInv, [Next]_vars PROVE [Store!StoreNext]_(Store!storeVars)
    OBVIOUS
  <2>1. CASE \E id \in Records, v \in Values \cup {None} : Written(id, v) /\ SnapNow' = SnapNow
    <3>1. PICK id \in Records, v \in Values \cup {None} : Written(id, v) /\ SnapNow' = SnapNow
      BY <2>1
    <3>2. Store!Write(id, v)
      BY <3>1 DEF Store!Write, Store!Mark, Written, DataNow, SnapNow, WrittenNow
    <3> QED
      BY <3>2 DEF Store!StoreNext
  <2>2. ASSUME NEW r \in Readers, DataNow' = DataNow, SnapNow[r] = None,
               SnapNow' = [SnapNow EXCEPT ![r] = DataNow],
               WrittenNow' = [WrittenNow EXCEPT ![r] = {}]
        PROVE  Store!StoreNext
    <3>1. Store!Take(r)
      BY <2>2 DEF Store!Take, DataNow, SnapNow, WrittenNow
    <3> QED
      BY <3>1 DEF Store!StoreNext
  <2>3. ASSUME NEW r \in Readers, DataNow' = DataNow, SnapNow[r] # None,
               SnapNow' = [SnapNow EXCEPT ![r] = None],
               WrittenNow' = [WrittenNow EXCEPT ![r] = {}]
        PROVE  Store!StoreNext
    <3>1. Store!Drop(r)
      BY <2>3 DEF Store!Drop, DataNow, SnapNow, WrittenNow
    <3> QED
      BY <3>1 DEF Store!StoreNext
  <2>4. CASE DataNow' = DataNow /\ SnapNow' = SnapNow /\ WrittenNow' = WrittenNow
    BY <2>4 DEF Store!storeVars, DataNow, SnapNow, WrittenNow
  <2> QED
    BY <2>1, <2>2, <2>3, <2>4, StepRefines
<1> QED
  BY InitRefines, Invariance, <1>1, PTL DEF Spec, ImplementsSnapshotStore, Store!StoreSpec

-----------------------------------------------------------------------------
(* What there is to reclaim *)

\* The versions behind the newest of each record.
Behind(dir) == UNION {{<<id, i>> : i \in 1 .. Len(dir[id]) - 1} : id \in Records}

\* What it means to be behind.
LEMMA BehindMember ==
    ASSUME NEW dir, NEW x
    PROVE  x \in Behind(dir) <=> \E id \in Records : \E i \in 1 .. Len(dir[id]) - 1 : x = <<id, i>>
BY DEF Behind

\* A set that holds every version behind holds them all.
LEMMA BehindWithin ==
    ASSUME NEW dir, NEW S,
           \A id \in Records : \A i \in 1 .. Len(dir[id]) - 1 : <<id, i>> \in S
    PROVE  Behind(dir) \subseteq S
<1> SUFFICES ASSUME NEW x \in Behind(dir) PROVE x \in S
  OBVIOUS
<1>1. PICK id \in Records : \E i \in 1 .. Len(dir[id]) - 1 : x = <<id, i>>
  BY BehindMember
<1> QED
  BY <1>1

\* Finitely many versions are behind: finitely many records, finite chains.
LEMMA BehindFinite ==
    ASSUME NEW dir \in [Records -> Chains]
    PROVE  IsFiniteSet(Behind(dir)) /\ Cardinality(Behind(dir)) \in Nat
<1> DEFINE f == [id \in Records |-> {<<id, i>> : i \in 1 .. Len(dir[id]) - 1}]
           T == {f[id] : id \in Records}
<1>1. ASSUME NEW id \in Records PROVE IsFiniteSet(f[id])
  <2> DEFINE I == 1 .. Len(dir[id]) - 1
             g == [i \in I |-> <<id, i>>]
  <2>1. IsFiniteSet(I)
    <3>1. Len(dir[id]) - 1 \in Int
      BY ChainType
    <3> QED
      BY <3>1, FS_Interval
  <2>2. g \in Surjection(I, f[id])
    BY DEF Surjection
  <2> QED
    BY <2>1, <2>2, FS_Surjection
<1>2. IsFiniteSet(T)
  <2>1. f \in Surjection(Records, T)
    BY DEF Surjection
  <2> QED
    BY <2>1, FS_Surjection, ConstantsAssumption DEF ConstantsAssumption
<1>3. \A t \in T : IsFiniteSet(t)
  BY <1>1
<1>4. IsFiniteSet(UNION T)
  BY <1>2, <1>3, FS_UNION
<1>5. Behind(dir) = UNION T
  BY DEF Behind
<1> QED
  BY <1>4, <1>5, FS_CardinalityType

\* A push puts one more version behind, unless it is the first of its record.
LEMMA PushBehind ==
    ASSUME NEW dir \in [Records -> Chains], NEW id \in Records, NEW v \in Versions,
           NEW dir1, dir1 = [dir EXCEPT ![id] = Append(@, v)]
    PROVE  /\ dir[id] = <<>> => Cardinality(Behind(dir1)) <= Cardinality(Behind(dir))
           /\ Cardinality(Behind(dir1)) <= Cardinality(Behind(dir)) + 1
<1>1. /\ dir1 \in [Records -> Chains] /\ Len(dir[id]) \in Nat
      /\ Len(dir1[id]) = Len(dir[id]) + 1
      /\ \A x \in Records \ {id} : dir1[x] = dir[x]
  <2>1. Append(dir[id], v) \in Chains /\ Len(Append(dir[id], v)) = Len(dir[id]) + 1
    BY AppendProperties DEF Chains
  <2> QED
    BY <2>1, ChainType
<1>2. Behind(dir1) \subseteq Behind(dir) \cup {<<id, Len(dir[id])>>}
  <2> SUFFICES ASSUME NEW x \in Records, NEW i \in 1 .. Len(dir1[x]) - 1
               PROVE  <<x, i>> \in Behind(dir) \cup {<<id, Len(dir[id])>>}
    BY BehindWithin
  <2>1. CASE x # id
    BY <1>1, <2>1, BehindMember
  <2>2. CASE x = id /\ i # Len(dir[id])
    <3>1. i \in 1 .. Len(dir[id]) - 1
      BY <1>1, <2>2
    <3> QED
      BY <2>2, <3>1, BehindMember
  <2>3. CASE x = id /\ i = Len(dir[id])
    BY <2>3
  <2> QED
    BY <2>1, <2>2, <2>3
<1>3. dir[id] = <<>> => Behind(dir1) \subseteq Behind(dir)
  <2> SUFFICES ASSUME dir[id] = <<>>, NEW x \in Records, NEW i \in 1 .. Len(dir1[x]) - 1
               PROVE  <<x, i>> \in Behind(dir)
    BY BehindWithin
  <2>1. x # id
    <3>1. Len(dir[id]) = 0
      BY EmptySeq
    <3> QED
      BY <1>1, <3>1
  <2> QED
    BY <1>1, <2>1, BehindMember
<1> PICK R : R = Behind(dir)
  OBVIOUS
<1> PICK e : e = <<id, Len(dir[id])>>
  OBVIOUS
<1>4. IsFiniteSet(R) /\ Cardinality(R) \in Nat /\ Cardinality(Behind(dir1)) \in Nat
  BY <1>1, BehindFinite
<1>5. IsFiniteSet(R \cup {e}) /\ Cardinality(R \cup {e}) <= Cardinality(R) + 1
      /\ Cardinality(R \cup {e}) \in Nat
  <2>1. /\ IsFiniteSet(R \cup {e})
        /\ Cardinality(R \cup {e}) = IF e \in R THEN Cardinality(R) ELSE Cardinality(R) + 1
    BY <1>4, FS_AddElement
  <2> QED
    BY <1>4, <2>1
<1>6. Cardinality(Behind(dir1)) <= Cardinality(R \cup {e})
  BY <1>2, <1>5, FS_Subset
<1>7. Behind(dir1) \subseteq R => Cardinality(Behind(dir1)) <= Cardinality(R)
  BY <1>4, FS_Subset
<1>8. Cardinality(Behind(dir1)) <= Cardinality(R) + 1
  <2> PICK k, m, n : k = Cardinality(R) /\ m = Cardinality(Behind(dir1)) /\ n = Cardinality(R \cup {e})
    OBVIOUS
  <2>1. k \in Nat /\ m \in Nat /\ n \in Nat /\ m <= n /\ n <= k + 1
    BY <1>4, <1>5, <1>6
  <2> QED
    BY <2>1
<1> QED
  BY <1>3, <1>7, <1>8

\* Reclamation takes away from what is behind at least the versions it frees.
LEMMA ReclaimBehind ==
    ASSUME NEW dir \in [Records -> Chains], NEW h \in Nat, NEW dir2,
           dir2 = [id \in Records |-> Pruned(reclaim_to(dir[id], h))]
    PROVE  /\ dir2 \in [Records -> Chains]
           /\ Cardinality(Freed(dir, h)) \in Nat
           /\ Cardinality(Behind(dir2)) + Cardinality(Freed(dir, h)) <= Cardinality(Behind(dir))
<1>1. \A id \in Records :
         /\ dir2[id] \in Chains /\ Len(dir[id]) \in Nat /\ Len(dir2[id]) \in Nat
         /\ Cut(dir[id], h) \in Nat
         /\ dir[id] # <<>> => Cut(dir[id], h) < Len(dir[id])
         /\ dir2[id] # <<>> => Len(dir2[id]) = Len(dir[id]) - Cut(dir[id], h)
         /\ Drained(dir[id], h) \subseteq 1 .. Cut(dir[id], h)
  <2> TAKE id \in Records
  <2> PICK e : e = Pruned(reclaim_to(dir[id], h))
    OBVIOUS
  <2>1. /\ e \in Chains
        /\ Cut(dir[id], h) \in 0 .. Len(dir[id])
        /\ dir[id] # <<>> => Cut(dir[id], h) < Len(dir[id])
        /\ e # <<>> => Len(e) = Len(dir[id]) - Cut(dir[id], h)
    BY KeptChain
  <2>2. Drained(dir[id], h) \subseteq 1 .. Cut(dir[id], h)
    BY ReclaimToSuffix
  <2>3. Len(dir[id]) \in Nat /\ Len(e) \in Nat
    BY <2>1, ChainType
  <2> QED
    BY <2>1, <2>2, <2>3
<1>2. dir2 \in [Records -> Chains]
  BY <1>1
<1>3. \A id \in Records : \A i \in 1 .. Len(dir2[id]) - 1 :
         /\ i + Cut(dir[id], h) \in 1 .. Len(dir[id]) - 1
         /\ i + Cut(dir[id], h) \notin Drained(dir[id], h)
  <2> TAKE id \in Records
  <2> TAKE i \in 1 .. Len(dir2[id]) - 1
  <2>1. dir2[id] # <<>>
    <3>1. Len(dir2[id]) # 0
      BY <1>1
    <3> QED
      BY <3>1, EmptySeq
  <2>2. i + Cut(dir[id], h) \notin 1 .. Cut(dir[id], h)
    BY <1>1
  <2> QED
    BY <1>1, <2>1, <2>2
<1> PICK B : B = Behind(dir)
  OBVIOUS
<1> PICK B2 : B2 = Behind(dir2)
  OBVIOUS
<1> PICK F : F = Freed(dir, h)
  OBVIOUS
<1>4. IsFiniteSet(B) /\ Cardinality(B) \in Nat /\ IsFiniteSet(B2) /\ Cardinality(B2) \in Nat
  BY <1>2, BehindFinite
<1>5. \A x : x \in F <=> \E id \in Records : \E i \in Drained(dir[id], h) : x = <<id, i>>
  BY DEF Freed
<1>6. F \subseteq B
  <2> SUFFICES ASSUME NEW id \in Records, NEW i \in Drained(dir[id], h)
               PROVE  <<id, i>> \in B
    BY <1>5
  <2>1. i \in 1 .. Cut(dir[id], h)
    BY <1>1
  <2>2. dir[id] # <<>>
    <3>1. i \in 1 .. Len(dir[id])
      BY DEF Drained
    <3> QED
      BY <3>1, EmptySeq
  <2>3. i \in 1 .. Len(dir[id]) - 1
    BY <1>1, <2>1, <2>2
  <2> QED
    BY <2>3, BehindMember
<1>7. IsFiniteSet(F) /\ Cardinality(F) \in Nat
  BY <1>4, <1>6, FS_Subset, FS_CardinalityType
<1>8. IsFiniteSet(B \ F) /\ Cardinality(B \ F) = Cardinality(B) - Cardinality(F)
  <2>1. /\ IsFiniteSet(B \ F)
        /\ Cardinality(B \ F) = Cardinality(B) - Cardinality(B \cap F)
    BY <1>4, FS_Difference
  <2>2. B \cap F = F
    BY <1>6
  <2> QED
    BY <2>1, <2>2
<1>9. Cardinality(B2) <= Cardinality(B \ F)
  <2> DEFINE f == [x \in B2 |-> <<x[1], x[2] + Cut(dir[x[1]], h)>>]
  <2>1. \A id \in Records : \A i \in 1 .. Len(dir2[id]) - 1 :
           f[<<id, i>>] = <<id, i + Cut(dir[id], h)>>
    BY BehindMember
  <2>2. \A x \in B2 : x[1] \in Records /\ x[2] \in 1 .. Len(dir2[x[1]]) - 1 /\ x = <<x[1], x[2]>>
    BY BehindMember
  <2> HIDE DEF f
  <2>3. \A x \in B2 : f[x] = <<x[1], x[2] + Cut(dir[x[1]], h)>>
    BY <2>1, <2>2
  <2>4. \A x \in B2 : f[x] \in B \ F
    <3> TAKE x \in B2
    <3> PICK id, i : id = x[1] /\ i = x[2]
      OBVIOUS
    <3>1. /\ id \in Records /\ i + Cut(dir[id], h) \in 1 .. Len(dir[id]) - 1
          /\ i + Cut(dir[id], h) \notin Drained(dir[id], h)
          /\ f[x] = <<id, i + Cut(dir[id], h)>>
      BY <1>3, <2>2, <2>3
    <3>2. f[x] \in B
      BY <3>1, BehindMember
    <3>3. f[x] \notin F
      BY <1>5, <3>1
    <3> QED
      BY <3>2, <3>3
  <2>5. \A x, y \in B2 : f[x] = f[y] => x = y
    <3> SUFFICES ASSUME NEW x \in B2, NEW y \in B2, f[x] = f[y]
                 PROVE  x = y
      OBVIOUS
    <3>1. x[1] = y[1] /\ x[2] + Cut(dir[x[1]], h) = y[2] + Cut(dir[x[1]], h)
      BY <2>3
    <3>2. x[2] \in Int /\ y[2] \in Int /\ Cut(dir[x[1]], h) \in Int
      BY <1>1, <2>2
    <3>3. x[2] = y[2]
      BY <3>1, <3>2
    <3> QED
      BY <2>2, <3>1, <3>3
  <2>6. f \in [B2 -> B \ F]
    BY <2>4 DEF f
  <2>7. f \in Injection(B2, B \ F)
    BY <2>5, <2>6 DEF Injection, IsInjective
  <2> QED
    BY <1>8, <2>7, FS_Injection
<1> QED
  BY <1>2, <1>4, <1>7, <1>8, <1>9

\* The counter of retained versions covers what is behind.
Covers(dir, ret) == ret >= Cardinality(Behind(dir))

\* reclaim subtracts the versions it freed, and took at least those from behind.
LEMMA ReclaimCovers ==
    ASSUME NEW dir, NEW sl, NEW off, NEW ret, NEW pages, NEW n \in Nat, NEW lw,
           open \in [Holders -> Nat \cup {None}],
           HeapInv(dir, sl, off, ret, pages, n, lw), Covers(dir, ret),
           Reclaim(dir, sl, off, ret, pages, n)
    PROVE  Covers(directory', retained')
<1> PICK h : h = reclaim_horizon(n)
  OBVIOUS
<1>1. h \in Nat
  BY HorizonBound
<1>2. dir \in [Records -> Chains] /\ ret \in Nat
  BY DEF HeapInv, HeapTyped
<1>3. /\ directory' = [id \in Records |-> Pruned(reclaim_to(dir[id], h))]
      /\ retained' = ret \/ retained' = SaturatingSub(ret, Cardinality(Freed(dir, h)))
  BY DEF Reclaim
<1> PICK dir2 : dir2 = [id \in Records |-> Pruned(reclaim_to(dir[id], h))]
  OBVIOUS
<1> PICK f, b, b2 : f = Cardinality(Freed(dir, h)) /\ b = Cardinality(Behind(dir))
                    /\ b2 = Cardinality(Behind(dir2))
  OBVIOUS
<1>4. f \in Nat /\ b \in Nat /\ b2 \in Nat /\ b2 + f <= b
  BY <1>1, <1>2, ReclaimBehind, BehindFinite
<1>5. ret >= b
  BY DEF Covers
<1>6. retained' >= b2
  BY <1>2, <1>3, <1>4, <1>5 DEF SaturatingSub
<1> QED
  BY <1>3, <1>6 DEF Covers

\* The same, when reclamation may be left for later.
LEMMA MaybeReclaimCovers ==
    ASSUME NEW dir, NEW sl, NEW off, NEW ret, NEW pages, NEW n \in Nat, NEW lw,
           open \in [Holders -> Nat \cup {None}],
           HeapInv(dir, sl, off, ret, pages, n, lw), Covers(dir, ret),
           maybe_reclaim(dir, sl, off, ret, pages, n)
    PROVE  Covers(directory', retained')
<1>1. CASE ret >= RetentionLimit
  BY <1>1, ReclaimCovers DEF maybe_reclaim
<1>2. CASE ~ (ret >= RetentionLimit)
  BY <1>2 DEF maybe_reclaim
<1> QED
  BY <1>1, <1>2

\* A write counts the version it puts behind before it reclaims.
LEMMA PutCovers ==
    ASSUME IInv, StoreFree, Covers(directory, retained),
           NEW id \in Records, NEW val \in Values, apply_put(id, val)
    PROVE  Covers(directory', retained')
<1>1. PICK loc, dir1, sl1, off1, lw1, ret, pages :
        PutAt(id, val, loc, dir1, sl1, off1, lw1, ret, pages)
  BY PutPushes
<1>2. /\ loc \in Locations /\ next + 1 \in Nat
      /\ dir1 = [directory EXCEPT ![id] = Append(@, [txn |-> next, loc |-> loc])]
      /\ ret = IF directory[id] = <<>> THEN retained ELSE retained + 1
      /\ HeapInv(dir1, sl1, off1, ret, pages, next + 1, lw1)
      /\ maybe_reclaim(dir1, sl1, off1, ret, pages, next + 1)
  BY <1>1 DEF PutAt
<1>3. /\ directory \in [Records -> Chains] /\ retained \in Nat /\ next \in Nat
      /\ open \in [Holders -> Nat \cup {None}]
  BY DEF IInv, TrackerInv, HeapInv, HeapTyped
<1>4. [txn |-> next, loc |-> loc] \in Versions
  BY <1>2, <1>3 DEF Versions
<1> PICK b, b1 : b = Cardinality(Behind(directory)) /\ b1 = Cardinality(Behind(dir1))
  OBVIOUS
<1>5. (directory[id] = <<>> => b1 <= b) /\ b1 <= b + 1
  BY <1>2, <1>3, <1>4, PushBehind
<1>6. b \in Nat /\ b1 \in Nat
  <2>1. dir1 \in [Records -> Chains]
    BY <1>2 DEF HeapInv, HeapTyped
  <2> QED
    BY <1>3, <2>1, BehindFinite
<1>7. retained >= b
  BY DEF Covers
<1>8. ret >= b1
  BY <1>2, <1>3, <1>5, <1>6, <1>7
<1>9. Covers(dir1, ret)
  BY <1>8 DEF Covers
<1> QED
  BY <1>2, <1>3, <1>9, MaybeReclaimCovers

\* A delete counts the version its tombstone puts behind.
LEMMA DeleteCovers ==
    ASSUME IInv, StoreFree, Covers(directory, retained),
           NEW id \in Records, apply_delete(id)
    PROVE  Covers(directory', retained')
<1>1. /\ HeapInv(directory, slots, offered, retained, pageCount, next, lastWrite)
      /\ directory \in [Records -> Chains] /\ retained \in Nat /\ next \in Nat
      /\ open \in [Holders -> Nat \cup {None}]
  BY DEF IInv, TrackerInv, HeapInv, HeapTyped
<1>2. CASE is_absent(directory[id])
  BY <1>2 DEF apply_delete, heapVars
<1>3. CASE ~ is_absent(directory[id])
  <2>0. next + 1 \in Nat /\ [txn |-> next, loc |-> None] \in Versions
    BY <1>1 DEF Versions
  <2>1. directory[id] # <<>>
    BY <1>3 DEF is_absent, newest
  <2> PICK dir1, lw1 : /\ dir1 = [directory EXCEPT ![id] = Append(@, [txn |-> next, loc |-> None])]
                       /\ lw1 = [lastWrite EXCEPT ![id] = next]
    OBVIOUS
  <2>2. maybe_reclaim(dir1, slots, offered, retained + 1, pageCount, next + 1)
    BY <1>3 DEF apply_delete
  <2>3. HeapInv(dir1, slots, offered, retained + 1, pageCount, next + 1, lw1)
    BY <1>1, <2>1, DeleteStage DEF IInv
  <2> PICK b, b1 : b = Cardinality(Behind(directory)) /\ b1 = Cardinality(Behind(dir1))
    OBVIOUS
  <2>4. b1 <= b + 1
    BY <1>1, <2>0, PushBehind
  <2>5. b \in Nat /\ b1 \in Nat
    <3>1. dir1 \in [Records -> Chains]
      BY <2>3 DEF HeapInv, HeapTyped
    <3> QED
      BY <1>1, <3>1, BehindFinite
  <2>6. retained >= b
    BY DEF Covers
  <2>7. retained + 1 >= b1
    BY <1>1, <2>4, <2>5, <2>6
  <2>8. Covers(dir1, retained + 1)
    BY <2>7 DEF Covers
  <2> QED
    BY <1>1, <2>0, <2>2, <2>3, <2>8, MaybeReclaimCovers
<1> QED
  BY <1>2, <1>3

\* The counter that triggers reclamation covers every superseded version, whatever is
\* written, deleted and reclaimed: none waits for reclamation uncounted.
THEOREM ReclamationIsDue == Spec => []RetainedCoversSuperseded
<1>1. Init => Covers(directory, retained)
  <2> SUFFICES ASSUME Init PROVE Covers(directory, retained)
    OBVIOUS
  <2>1. Behind(directory) = {}
    <3>1. \A id \in Records : directory[id] = <<>> /\ Len(directory[id]) = 0
      BY EmptySeq DEF Init
    <3>2. \A id \in Records : \A i \in 1 .. Len(directory[id]) - 1 : <<id, i>> \in {}
      BY <3>1
    <3>3. Behind(directory) \subseteq {}
      BY <3>2, BehindWithin
    <3> QED
      BY <3>3
  <2>2. Cardinality(Behind(directory)) = 0 /\ retained = 0
    BY <2>1, FS_EmptySet DEF Init
  <2> QED
    BY <2>2 DEF Covers
<1>2. IInv /\ Covers(directory, retained) /\ [Next]_vars => Covers(directory, retained)'
  <2> SUFFICES ASSUME IInv, Covers(directory, retained), [Next]_vars
               PROVE  Covers(directory', retained')
    BY DEF Covers, Behind
  <2>1. ASSUME NEW id \in Records, NEW v \in Values, insert(id, v) \/ update(id, v)
        PROVE  Covers(directory', retained')
    BY <2>1, PutCovers DEF insert, update
  <2>2. ASSUME NEW id \in Records, delete(id)
        PROVE  Covers(directory', retained')
    BY <2>2, DeleteCovers DEF delete
  <2>3. CASE reclaim
    <3>1. /\ open \in [Holders -> Nat \cup {None}] /\ next \in Nat
          /\ HeapInv(directory, slots, offered, retained, pageCount, next, lastWrite)
      BY DEF IInv, TrackerInv
    <3> QED
      BY <2>3, <3>1, ReclaimCovers DEF reclaim
  <2>4. CASE Snapshots
    BY <2>4, SnapshotStep DEF Snapshots, heapVars
  <2>5. CASE ForeignWrite
    BY <2>5, ForeignStep DEF heapVars
  <2>6. CASE UNCHANGED vars
    BY <2>6 DEF vars
  <2> QED
    BY <2>1, <2>2, <2>3, <2>4, <2>5, <2>6 DEF Next, Write
<1>3. Covers(directory, retained) => RetainedCoversSuperseded
  BY DEF Covers, Behind, RetainedCoversSuperseded
<1> QED
  BY Invariance, <1>1, <1>2, <1>3, PTL DEF Spec

-----------------------------------------------------------------------------
(* What the operations do to a heap of which only the shape is known *)

\* No page past the end of the file holds anything.
InFile(sl, pages) == \A l \in Locations : sl[l] # Dead => l.page < pages

\* All that is left of the invariant once chains and slots may disagree.
HeapShape ==
    /\ HeapTyped(directory, slots, offered, retained, pageCount, lastWrite)
    /\ InFile(slots, pageCount)

\* Arithmetic the provers are slow at inside larger goals.
LEMMA PagesGrow ==
    ASSUME NEW a \in Nat, NEW b \in Nat, a <= b
    PROVE  0 .. a - 1 \subseteq 0 .. b - 1
OBVIOUS

LEMMA PageBelow ==
    ASSUME NEW b \in Nat, NEW p \in 0 .. b - 1
    PROVE  p < b
OBVIOUS

\* Only dead slots are new after a reclamation, whichever of its paths it takes.
LEMMA ReclaimShape ==
    ASSUME NEW dir, NEW sl, NEW off, NEW ret, NEW pages, NEW n \in Nat, NEW lw,
           open \in [Holders -> Nat \cup {None}],
           HeapTyped(dir, sl, off, ret, pages, lw),
           Reclaim(dir, sl, off, ret, pages, n)
    PROVE  /\ HeapTyped(directory', slots', offered', retained', pages, lw)
           /\ \A l \in Locations : slots'[l] # Dead => slots'[l] = sl[l]
<1> DEFINE h == reclaim_horizon(n)
           freed == FreedLocations(dir, h)
           fails == \E l \in freed : l.page >= pages
<1>1. h \in Nat
  BY HorizonBound
<1>2. /\ dir \in [Records -> Chains] /\ sl \in [Locations -> Payloads \cup {Dead}]
      /\ pages \in 0 .. MaxPages /\ off \subseteq 0 .. pages - 1
      /\ ret \in Nat /\ lw \in [Records -> Nat]
  BY DEF HeapTyped
<1>3. /\ directory' = [id \in Records |-> Pruned(reclaim_to(dir[id], h))]
      /\ \E done \in IF fails THEN SUBSET {l \in freed : l.page < pages} ELSE {freed} :
           slots' = [l \in Locations |-> IF l \in done THEN Dead ELSE sl[l]]
      /\ offered' = IF fails THEN off ELSE off \cup {l.page : l \in freed}
      /\ retained' = IF fails THEN ret ELSE SaturatingSub(ret, Cardinality(Freed(dir, h)))
  BY DEF Reclaim
<1>4. \A l \in freed : l.page \in PageIds
  <2> SUFFICES ASSUME NEW v \in Freed(dir, h) PROVE dir[v[1]][v[2]].loc.page \in PageIds
    BY DEF FreedLocations
  <2>1. PICK id \in Records : \E i \in Drained(dir[id], h) : v = <<id, i>>
    BY DEF Freed
  <2>2. PICK i \in Drained(dir[id], h) : v = <<id, i>>
    BY <2>1
  <2>3. i \in 1 .. Len(dir[id]) /\ dir[id][i].loc # None
    BY <2>2 DEF Drained
  <2>4. dir[id] \in Chains
    BY <1>2
  <2>5. dir[id][i].loc \in Locations
    BY <2>3, <2>4, ChainType
  <2> QED
    BY <2>2, <2>5 DEF Locations
<1>5. Cardinality(Freed(dir, h)) \in Nat
  BY <1>1, <1>2, FreedFinite
<1> HIDE DEF h, freed
<1>6. directory' \in [Records -> Chains]
  <2>1. \A id \in Records : Pruned(reclaim_to(dir[id], h)) \in Chains
    BY <1>1, <1>2, ReclaimToSuffix, PrunedChain
  <2> QED
    BY <1>3, <2>1
<1>7. /\ slots' \in [Locations -> Payloads \cup {Dead}]
      /\ \A l \in Locations : slots'[l] # Dead => slots'[l] = sl[l]
  <2>1. PICK done : slots' = [l \in Locations |-> IF l \in done THEN Dead ELSE sl[l]]
    BY <1>3
  <2> QED
    BY <1>2, <2>1
<1>8. offered' \subseteq 0 .. pages - 1
  <2>1. CASE fails
    BY <1>2, <1>3, <2>1
  <2>2. CASE ~ fails
    <3>1. pages \in Nat /\ \A l \in freed : l.page \in Nat
      BY <1>2, <1>4, ConstantsAssumption DEF PageIds, ConstantsAssumption
    <3>2. \A l \in freed : l.page \in 0 .. pages - 1
      BY <2>2, <3>1
    <3> QED
      BY <1>2, <1>3, <2>2, <3>2
  <2> QED
    BY <2>1, <2>2
<1>9. retained' \in Nat
  BY <1>2, <1>3, <1>5 DEF SaturatingSub
<1> QED
  BY <1>2, <1>6, <1>7, <1>8, <1>9 DEF HeapTyped

\* The same of a reclamation that waits until enough is retained.
LEMMA MaybeReclaimShape ==
    ASSUME NEW dir, NEW sl, NEW off, NEW ret, NEW pages, NEW n \in Nat, NEW lw,
           open \in [Holders -> Nat \cup {None}],
           HeapTyped(dir, sl, off, ret, pages, lw),
           maybe_reclaim(dir, sl, off, ret, pages, n)
    PROVE  /\ HeapTyped(directory', slots', offered', retained', pages, lw)
           /\ \A l \in Locations : slots'[l] # Dead => slots'[l] = sl[l]
<1>1. CASE ret >= RetentionLimit
  BY <1>1, ReclaimShape DEF maybe_reclaim
<1>2. CASE ~ (ret >= RetentionLimit)
  BY <1>2 DEF maybe_reclaim
<1> QED
  BY <1>1, <1>2

\* A payload finds a place inside the file, or on the page that is added to it.
LEMMA PutPlace ==
    ASSUME HeapShape, NEW p \in PageIds, place(p),
           NEW pages, pages = IF p = pageCount THEN p + 1 ELSE pageCount
    PROVE  /\ [page |-> p, slot |-> FirstDead(p)] \in Locations
           /\ slots[[page |-> p, slot |-> FirstDead(p)]] = Dead
           /\ pageCount \in Nat /\ pages \in 0 .. MaxPages
           /\ pageCount <= pages /\ p \in 0 .. pages - 1
<1>1. /\ pageCount \in 0 .. MaxPages /\ MaxPages \in Nat /\ SlotsPerPage \in Nat \ {0}
      /\ offered \subseteq 0 .. pageCount - 1
  BY ConstantsAssumption DEF ConstantsAssumption, HeapShape, HeapTyped
<1>2. p \in 0 .. MaxPages - 1
  BY DEF PageIds
<1>3. /\ pageCount \in Nat /\ pages \in 0 .. MaxPages
      /\ pageCount <= pages /\ p \in 0 .. pages - 1
  <2>1. CASE WithRoom # {}
    <3>1. p \in 0 .. pageCount - 1
      BY <1>1, <2>1 DEF place, WithRoom
    <3> QED
      BY <1>1, <3>1
  <2>2. CASE WithRoom = {}
    <3>1. p = pageCount /\ pages = p + 1
      BY <2>2 DEF place
    <3> QED
      BY <1>1, <1>2, <3>1
  <2> QED
    BY <2>1, <2>2
<1>4. DeadSlots(p) # {}
  <2>1. CASE WithRoom # {}
    BY <2>1 DEF place, WithRoom
  <2>2. CASE WithRoom = {}
    <3> DEFINE l == [page |-> p, slot |-> 0]
    <3>1. 0 \in SlotIds /\ l \in Locations /\ l.page = pageCount
      BY <1>1, <2>2 DEF SlotIds, Locations, place
    <3>2. slots[l] = Dead
      BY <1>1, <3>1 DEF HeapShape, InFile
    <3> QED
      BY <3>1, <3>2 DEF DeadSlots
  <2> QED
    BY <2>1, <2>2
<1>5. DeadSlots(p) \in SUBSET Nat /\ DeadSlots(p) \subseteq SlotIds
  BY <1>1 DEF DeadSlots, SlotIds
<1>6. \E s \in DeadSlots(p) : \A t \in DeadSlots(p) : s <= t
  BY <1>4, <1>5, NatMin
<1>7. FirstDead(p) \in DeadSlots(p)
  BY <1>6 DEF FirstDead
<1>8. [page |-> p, slot |-> FirstDead(p)] \in Locations
  BY <1>5, <1>7 DEF Locations
<1>9. slots[[page |-> p, slot |-> FirstDead(p)]] = Dead
  BY <1>7 DEF DeadSlots
<1> QED
  BY <1>3, <1>8, <1>9

\* A version more keeps a chain a chain.
LEMMA LongerChain ==
    ASSUME NEW dir \in [Records -> Chains], NEW id \in Records, NEW t \in Nat,
           NEW l \in Locations \cup {None}
    PROVE  [dir EXCEPT ![id] = Append(@, [txn |-> t, loc |-> l])] \in [Records -> Chains]
<1>1. [txn |-> t, loc |-> l] \in Versions
  BY DEF Versions
<1>2. Append(dir[id], [txn |-> t, loc |-> l]) \in Chains
  BY <1>1, AppendProperties DEF Chains
<1> QED
  BY <1>2

\* What a call did to the slots: nothing new in them but, at most, one payload.
Adds(id, v) ==
    \A l \in Locations : slots'[l] # Dead =>
        slots'[l] = slots[l] \/ slots'[l] = [id |-> id, val |-> v]
AddsNothing == \A l \in Locations : slots'[l] # Dead => slots'[l] = slots[l]

\* apply_put, whether a call makes it or a replay.
LEMMA PutKeepsShape ==
    ASSUME HeapShape, next \in Nat \ {0}, open \in [Holders -> Nat \cup {None}],
           NEW id \in Records, NEW v \in Values, apply_put(id, v)
    PROVE  /\ HeapShape' /\ Adds(id, v)
           /\ pageCount \in Nat /\ pageCount' \in Nat /\ pageCount <= pageCount'
<1>1. next' = next + 1 /\ lastWrite' = [lastWrite EXCEPT ![id] = next]
  BY DEF apply_put, begin_write
<1>2. HeapTyped(directory, slots, offered, retained, pageCount, lastWrite)
  BY DEF HeapShape
<1>3. PICK p \in PageIds :
        /\ place(p)
        /\ LET loc == [page |-> p, slot |-> FirstDead(p)]
               pages == IF p = pageCount THEN p + 1 ELSE pageCount
           IN  /\ pageCount' = pages
               /\ maybe_reclaim(
                    [directory EXCEPT ![id] = Append(@, [txn |-> next, loc |-> loc])],
                    [slots EXCEPT ![loc] = [id |-> id, val |-> v]],
                    offered \cup {p},
                    IF directory[id] = <<>> THEN retained ELSE retained + 1,
                    pages, next + 1)
  BY Zenon DEF apply_put
<1> DEFINE loc == [page |-> p, slot |-> FirstDead(p)]
           dir1 == [directory EXCEPT ![id] = Append(@, [txn |-> next, loc |-> loc])]
           sl1 == [slots EXCEPT ![loc] = [id |-> id, val |-> v]]
           off1 == offered \cup {p}
           ret1 == IF directory[id] = <<>> THEN retained ELSE retained + 1
<1>4. /\ pageCount' = IF p = pageCount THEN p + 1 ELSE pageCount
      /\ maybe_reclaim(dir1, sl1, off1, ret1, pageCount', next + 1)
  BY <1>3
<1>5. /\ loc \in Locations /\ pageCount \in Nat /\ pageCount' \in 0 .. MaxPages
      /\ pageCount <= pageCount' /\ p \in 0 .. pageCount' - 1
  BY <1>3, <1>4, PutPlace
<1>6. HeapTyped(dir1, sl1, off1, ret1, pageCount', lastWrite')
  <2>1. dir1 \in [Records -> Chains]
    BY <1>1, <1>2, <1>5, LongerChain DEF HeapTyped
  <2>2. sl1 \in [Locations -> Payloads \cup {Dead}]
    BY <1>2, <1>5 DEF HeapTyped, Payloads
  <2>3. off1 \subseteq 0 .. pageCount' - 1
    <3>1. offered \subseteq 0 .. pageCount - 1
      BY <1>2 DEF HeapTyped
    <3>2. pageCount \in Nat /\ pageCount' \in Nat /\ pageCount <= pageCount'
      BY <1>5, ConstantsAssumption DEF ConstantsAssumption
    <3>3. 0 .. pageCount - 1 \subseteq 0 .. pageCount' - 1
      BY <3>2, PagesGrow
    <3> QED
      BY <1>5, <3>1, <3>3
  <2>4. ret1 \in Nat
    BY <1>2 DEF HeapTyped
  <2>5. lastWrite' \in [Records -> Nat]
    BY <1>1, <1>2 DEF HeapTyped
  <2> HIDE DEF dir1, sl1, off1, ret1
  <2> QED
    BY <1>5, <2>1, <2>2, <2>3, <2>4, <2>5 DEF HeapTyped
<1>7. \A l \in Locations : sl1[l] = IF l = loc THEN [id |-> id, val |-> v] ELSE slots[l]
  BY <1>2, <1>5 DEF HeapTyped
<1>8. loc.page = p
  OBVIOUS
<1> HIDE DEF loc, dir1, sl1, off1, ret1
<1>9. /\ HeapTyped(directory', slots', offered', retained', pageCount', lastWrite')
      /\ \A l \in Locations : slots'[l] # Dead => slots'[l] = sl1[l]
  BY <1>1, <1>4, <1>6, MaybeReclaimShape
<1>10. Adds(id, v)
  BY <1>7, <1>9 DEF Adds
<1>11. InFile(slots', pageCount')
  <2>1. pageCount' \in Nat /\ \A l \in Locations : l.page \in Nat
    BY <1>5, ConstantsAssumption DEF ConstantsAssumption, Locations, PageIds
  <2>2. p < pageCount'
    <3>1. p \in 0 .. pageCount' - 1 /\ pageCount' \in Nat
      BY <1>5, <2>1
    <3> QED
      BY <3>1, PageBelow
  <2>3. InFile(slots, pageCount)
    BY DEF HeapShape
  <2>4. \A l \in Locations : l.page < pageCount => l.page < pageCount'
    BY <1>5, <2>1
  <2>5. ASSUME NEW l \in Locations, slots'[l] # Dead PROVE l.page < pageCount'
    BY <1>7, <1>8, <1>9, <2>2, <2>3, <2>4, <2>5 DEF InFile
  <2> QED
    BY <2>5 DEF InFile
<1>12. pageCount' \in Nat
  BY <1>5, ConstantsAssumption DEF ConstantsAssumption
<1> QED
  BY <1>5, <1>9, <1>10, <1>11, <1>12 DEF HeapShape

\* A heap nothing is added to stays inside its file.
LEMMA LessInFile ==
    ASSUME HeapShape, AddsNothing, UNCHANGED pageCount,
           HeapTyped(directory', slots', offered', retained', pageCount, lastWrite')
    PROVE  HeapShape'
BY DEF HeapShape, AddsNothing, InFile

\* apply_delete, whether a call makes it or a replay.
LEMMA DeleteKeepsShape ==
    ASSUME HeapShape, next \in Nat \ {0}, open \in [Holders -> Nat \cup {None}],
           NEW id \in Records, apply_delete(id)
    PROVE  HeapShape' /\ AddsNothing /\ UNCHANGED pageCount
<1>1. next + 1 \in Nat
  OBVIOUS
<1>2. HeapTyped(directory, slots, offered, retained, pageCount, lastWrite)
  BY DEF HeapShape
<1>4. CASE is_absent(directory[id])
  <2>1. UNCHANGED <<directory, slots, pageCount, offered, retained, lastWrite>>
    BY <1>4 DEF apply_delete, heapVars
  <2>2. AddsNothing
    BY <2>1 DEF AddsNothing
  <2> QED
    BY <1>2, <2>1, <2>2, LessInFile
<1>5. CASE ~ is_absent(directory[id])
  <2> DEFINE dir1 == [directory EXCEPT ![id] = Append(@, [txn |-> next, loc |-> None])]
  <2>1. /\ maybe_reclaim(dir1, slots, offered, retained + 1, pageCount, next + 1)
        /\ lastWrite' = [lastWrite EXCEPT ![id] = next] /\ pageCount' = pageCount
    BY <1>5 DEF apply_delete
  <2>2. dir1 \in [Records -> Chains]
    BY <1>1, <1>2, LongerChain DEF HeapTyped
  <2> HIDE DEF dir1
  <2>3. HeapTyped(dir1, slots, offered, retained + 1, pageCount, lastWrite')
    <3>1. retained + 1 \in Nat
      BY <1>2 DEF HeapTyped
    <3>2. lastWrite' \in [Records -> Nat]
      BY <1>1, <1>2, <2>1 DEF HeapTyped
    <3> QED
      BY <1>2, <2>2, <3>1, <3>2 DEF HeapTyped
  <2>4. /\ HeapTyped(directory', slots', offered', retained', pageCount, lastWrite')
        /\ AddsNothing
    BY <1>1, <2>1, <2>3, MaybeReclaimShape DEF AddsNothing
  <2> QED
    BY <2>1, <2>4, LessInFile
<1> QED
  BY <1>4, <1>5

\* reclaim, in a call or at the end of a recovery.
LEMMA ReclaimKeepsShape ==
    ASSUME HeapShape, next \in Nat \ {0}, open \in [Holders -> Nat \cup {None}], reclaim
    PROVE  HeapShape' /\ AddsNothing /\ UNCHANGED pageCount
<1>1. /\ HeapTyped(directory, slots, offered, retained, pageCount, lastWrite)
      /\ Reclaim(directory, slots, offered, retained, pageCount, next)
      /\ UNCHANGED <<pageCount, lastWrite>>
  BY DEF HeapShape, reclaim
<1>2. /\ HeapTyped(directory', slots', offered', retained', pageCount, lastWrite')
      /\ AddsNothing
  BY <1>1, ReclaimShape DEF AddsNothing
<1> QED
  BY <1>1, <1>2, LessInFile

-----------------------------------------------------------------------------
(* Vacuuming: the inductive invariant *)

\* Where the call is in its loop; nobody opens a snapshot of this store meanwhile, and
\* the records still to be moved are there.
VacuumTyped ==
    /\ phase \in {"idle", "loop", "move"} /\ todo \subseteq Records
    /\ moved \in BOOLEAN /\ cut \in BOOLEAN
    /\ phase # "idle" => StoreFree
    /\ phase = "move" => \A id \in todo : ~ is_absent(directory[id])

\* A cut through a page that a chain still names leaves the shape, and only that.
VacuumIInv == TrackerInv /\ HeapShape /\ (~ cut => IInv) /\ VacuumTyped

\* The types of the heap are part of its shape.
LEMMA ShapeTypes ==
    ASSUME TrackerInv, HeapShape
    PROVE  TypeOK
<1>1. /\ pageCount \in 0 .. MaxPages /\ MaxPages \in Nat
      /\ offered \subseteq 0 .. pageCount - 1
  BY ConstantsAssumption DEF HeapShape, HeapTyped, ConstantsAssumption
<1>2. offered \subseteq PageIds
  BY <1>1 DEF PageIds
<1> QED
  BY <1>2 DEF TrackerInv, HeapShape, HeapTyped, TypeOK, Chains

\* An invariant heap has its shape: a slot that is occupied is named, and so in the file.
LEMMA OwnedInFile ==
    ASSUME IInv
    PROVE  TrackerInv /\ HeapShape
<1>1. /\ TrackerInv
      /\ HeapTyped(directory, slots, offered, retained, pageCount, lastWrite)
      /\ NamedSlotsLive(directory, slots, pageCount) /\ LiveSlotsNamed(directory, slots)
  BY DEF IInv, HeapInv, HeapOwned
<1>2. ASSUME NEW l \in Locations, slots[l] # Dead
      PROVE  l.page < pageCount
  <2>1. PICK id \in Records : \E i \in 1 .. Len(directory[id]) : directory[id][i].loc = l
    BY <1>1, <1>2 DEF LiveSlotsNamed
  <2>2. l # None
    BY MarkersAssumption DEF MarkersAssumption
  <2> QED
    BY <1>1, <2>1, <2>2 DEF NamedSlotsLive
<1> QED
  BY <1>1, <1>2 DEF HeapShape, InFile

\* What a chain shows when no version is younger is its newest version.
LEMMA NewestAt ==
    ASSUME NEW c \in Chains, NEW n \in Nat, \A i \in 1 .. Len(c) : c[i].txn < n
    PROVE  visible_at(c, n) = newest(c)
<1>1. CASE c = <<>>
  BY <1>1, EmptySeq DEF visible_at, newest, LastUpTo, UpTo
<1>2. CASE c # <<>>
  <2>1. Len(c) \in Nat \ {0} /\ Len(c) \in 1 .. Len(c) /\ newest(c) = c[Len(c)].loc
        /\ c[Len(c)].txn \in Nat
    BY <1>2, NewestOf
  <2>2. c[Len(c)].txn <= n
    BY <2>1
  <2>3. LastUpTo(c, n) = Len(c)
    BY <2>1, <2>2, LastUpToOnly
  <2> QED
    BY <2>1, <2>3 DEF visible_at
<1> QED
  BY <1>1, <1>2

\* What a call of get answers for a record.
Now(dir, sl, id) == IF newest(dir[id]) = None THEN None ELSE sl[newest(dir[id])]

LEMMA GetIsNow ==
    ASSUME IInv, NEW id \in Records
    PROVE  get_at(directory, slots, id, next) = Now(directory, slots, id)
<1>1. /\ next \in Nat /\ directory[id] \in Chains
      /\ \A i \in 1 .. Len(directory[id]) : directory[id][i].txn < next
  BY DEF IInv, TrackerInv, HeapInv, HeapTyped, Stamped
<1>2. visible_at(directory[id], next) = newest(directory[id])
  BY <1>1, NewestAt
<1> QED
  BY <1>2 DEF get_at, Now

\* The same for two heaps that hold the same record.
LEMMA SameNow ==
    ASSUME NEW id \in Records, NEW dir1, NEW sl1, NEW dir2, NEW sl2,
           SameRecord(id, dir1, sl1, dir2, sl2)
    PROVE  Now(dir2, sl2, id) = Now(dir1, sl1, id)
BY DEF SameRecord, Now

\* What every record holds, whatever the place.
KeepsAll == \A id \in Records : Now(directory', slots', id) = Now(directory, slots, id)

\* A heap that is invariant before and after, and holds the same records.
LEMMA GetStays ==
    ASSUME IInv, IInv', KeepsAll, NEW id \in Records
    PROVE  get_at(directory', slots', id, next') = get_at(directory, slots, id, next)
<1>1. get_at(directory, slots, id, next) = Now(directory, slots, id)
  BY GetIsNow
<1>2. next' \in Nat /\ directory'[id] \in Chains
      /\ \A i \in 1 .. Len(directory'[id]) : directory'[id][i].txn < next'
  BY DEF IInv, TrackerInv, HeapInv, HeapTyped, Stamped
<1>3. visible_at(directory'[id], next') = newest(directory'[id])
  BY <1>2, NewestAt
<1>4. get_at(directory', slots', id, next') = Now(directory', slots', id)
  BY <1>3 DEF get_at, Now
<1> QED
  BY <1>1, <1>4 DEF KeepsAll

\* A reclamation, at the start of a vacuum or between two rounds, keeps every record.
LEMMA ReclaimKeepsAll ==
    ASSUME IInv, reclaim
    PROVE  KeepsAll
<1>1. /\ HeapInv(directory, slots, offered, retained, pageCount, next, lastWrite)
      /\ open \in [Holders -> Nat \cup {None}] /\ next \in Nat /\ StoreFree
      /\ Reclaim(directory, slots, offered, retained, pageCount, next)
  BY DEF IInv, TrackerInv, reclaim
<1>2. \A id \in Records : SameRecord(id, directory, slots, directory', slots')
  BY <1>1, ReclaimKeepsRecords
<1> QED
  BY <1>2, SameNow DEF KeepsAll

-----------------------------------------------------------------------------
(* Cutting the last page off *)

\* A page in which no newest version lies can be cut off without any record noticing.
LEMMA CutKeepsAll ==
    ASSUME IInv, Truncate
    PROVE  \A id \in Records :
              get_at(directory', slots', id, next') = get_at(directory, slots, id, next)
<1>1. /\ live_records_on(LastPage) = {}
      /\ slots' = [l \in Locations |-> IF l.page = LastPage THEN Dead ELSE slots[l]]
      /\ UNCHANGED <<next, directory>>
  BY DEF Truncate
<1>2. ASSUME NEW id \in Records
      PROVE  get_at(directory', slots', id, next') = get_at(directory, slots, id, next)
  <2>1. /\ next \in Nat /\ directory[id] \in Chains
        /\ \A i \in 1 .. Len(directory[id]) : directory[id][i].txn < next
    BY DEF IInv, TrackerInv, HeapInv, HeapTyped, Stamped
  <2>2. visible_at(directory[id], next) = newest(directory[id])
    BY <2>1, NewestAt
  <2>3. CASE newest(directory[id]) = None
    BY <1>1, <2>2, <2>3 DEF get_at
  <2>4. CASE newest(directory[id]) # None
    <3>1. newest(directory[id]) \in Locations
      BY <2>4, NewestIsLive DEF IInv
    <3>2. newest(directory[id]).page # LastPage
      BY <1>1, <2>4 DEF live_records_on, is_absent
    <3> QED
      BY <1>1, <2>2, <3>1, <3>2 DEF get_at
  <2> QED
    BY <2>3, <2>4
<1> QED
  BY <1>2

\* A page that no chain names is empty already: cutting it off changes no slot.
LEMMA CutUnnamed ==
    ASSUME IInv, Truncate, ~ NamedOn(LastPage)
    PROVE  IInv' /\ UNCHANGED <<directory, slots, opening, open>>
<1>1. /\ pageCount > 0 /\ pageCount' = LastPage /\ offered' = offered \ {LastPage}
      /\ slots' = [l \in Locations |-> IF l.page = LastPage THEN Dead ELSE slots[l]]
      /\ UNCHANGED <<next, opening, open, directory, retained, lastWrite>>
  BY DEF Truncate
<1>2. /\ TrackerInv
      /\ HeapTyped(directory, slots, offered, retained, pageCount, lastWrite)
      /\ NamedSlotsLive(directory, slots, pageCount)
      /\ SlotsNamedOnce(directory) /\ LiveSlotsNamed(directory, slots)
      /\ Stamped(directory, next, lastWrite) /\ ReadersServed(directory, lastWrite)
  BY DEF IInv, HeapInv, HeapOwned
<1>3. /\ pageCount \in Nat /\ pageCount \in 0 .. MaxPages /\ LastPage = pageCount - 1
      /\ offered \subseteq 0 .. pageCount - 1 /\ MaxPages \in Nat
      /\ slots \in [Locations -> Payloads \cup {Dead}]
  BY <1>2, ConstantsAssumption DEF HeapTyped, LastPage, ConstantsAssumption
<1>4. slots' = slots
  <2>1. ASSUME NEW l \in Locations, l.page = LastPage PROVE slots[l] = Dead
    <3>1. l # None
      BY MarkersAssumption DEF MarkersAssumption
    <3> QED
      BY <1>2, <2>1, <3>1 DEF LiveSlotsNamed, NamedOn
  <2> QED
    BY <1>1, <1>3, <2>1
<1>5. LastPage \in 0 .. MaxPages /\ offered' \subseteq 0 .. LastPage - 1
  BY <1>1, <1>3
<1>6. NamedSlotsLive(directory, slots, LastPage)
  <2> SUFFICES ASSUME NEW id \in Records, NEW i \in 1 .. Len(directory[id]),
                      directory[id][i].loc # None
               PROVE  /\ directory[id][i].loc.page < LastPage
                      /\ slots[directory[id][i].loc] # Dead /\ slots[directory[id][i].loc].id = id
    BY DEF NamedSlotsLive
  <2>1. /\ directory[id][i].loc.page < pageCount
        /\ slots[directory[id][i].loc] # Dead /\ slots[directory[id][i].loc].id = id
    BY <1>2 DEF NamedSlotsLive
  <2>2. directory[id][i].loc.page # LastPage
    BY DEF NamedOn
  <2>3. directory[id][i].loc \in Locations
    BY <1>2, ChainType DEF HeapTyped
  <2>4. directory[id][i].loc.page \in Nat
    BY <1>3, <2>3 DEF Locations, PageIds
  <2> QED
    BY <1>3, <2>1, <2>2, <2>4
<1>7. HeapInv(directory, slots, offered', retained, LastPage, next, lastWrite)
  BY <1>2, <1>5, <1>6 DEF HeapInv, HeapTyped, HeapOwned
<1>8. HeapInv(directory', slots', offered', retained', pageCount', next', lastWrite')
  <2>1. ReadersServed(directory, lastWrite) <=> ReadersServed(directory', lastWrite')
    BY <1>1
  <2> QED
    BY <1>1, <1>4, <1>7
<1>9. UNCHANGED trackerVars /\ TrackerInv'
  BY <1>1, <1>2 DEF trackerVars, TrackerInv
<1> QED
  BY <1>1, <1>4, <1>8, <1>9, HeapInPlace

\* Whatever is on the page, the file is shorter and the slots behind its end are dead.
LEMMA CutKeepsShape ==
    ASSUME HeapShape, Truncate
    PROVE  HeapShape'
<1>1. /\ pageCount > 0 /\ pageCount' = LastPage /\ offered' = offered \ {LastPage}
      /\ slots' = [l \in Locations |-> IF l.page = LastPage THEN Dead ELSE slots[l]]
      /\ UNCHANGED <<directory, retained, lastWrite>>
  BY DEF Truncate
<1>2. /\ HeapTyped(directory, slots, offered, retained, pageCount, lastWrite)
      /\ InFile(slots, pageCount)
  BY DEF HeapShape
<1>3. /\ pageCount \in Nat /\ pageCount \in 0 .. MaxPages /\ LastPage = pageCount - 1
      /\ offered \subseteq 0 .. pageCount - 1 /\ MaxPages \in Nat
      /\ slots \in [Locations -> Payloads \cup {Dead}]
  BY <1>2, ConstantsAssumption DEF HeapTyped, LastPage, ConstantsAssumption
<1>4. LastPage \in 0 .. MaxPages /\ offered' \subseteq 0 .. LastPage - 1
  BY <1>1, <1>3
<1>5. slots' \in [Locations -> Payloads \cup {Dead}]
  BY <1>1, <1>3
<1>6. ASSUME NEW l \in Locations, slots'[l] # Dead PROVE l.page < LastPage
  <2>1. l.page # LastPage /\ slots[l] # Dead
    BY <1>1, <1>6
  <2>2. l.page < pageCount /\ l.page \in Nat
    BY <1>2, <1>3, <2>1 DEF InFile, Locations, PageIds
  <2> QED
    BY <1>3, <2>1, <2>2
<1> QED
  BY <1>1, <1>2, <1>4, <1>5, <1>6 DEF HeapShape, HeapTyped, InFile

-----------------------------------------------------------------------------
(* Moving a record *)

\* The step of relocate that moves a record to a hole.
MovesTo(id, p, loc, from) ==
    /\ p \in WithRoom /\ from = newest(directory[id])
    /\ loc = [page |-> p, slot |-> FirstDead(p)]
    /\ slots' = [slots EXCEPT ![loc] = slots[from]]
    /\ directory' = [directory EXCEPT ![id] = Append(@, [txn |-> next, loc |-> loc])]
    /\ next' = next + 1 /\ retained' = retained + 1
    /\ lastWrite' = [lastWrite EXCEPT ![id] = next]
    /\ UNCHANGED <<opening, open, pageCount, offered>>

\* A hole is a dead slot of a page the file has.
LEMMA HoleFound ==
    ASSUME HeapShape, NEW p \in WithRoom
    PROVE  /\ [page |-> p, slot |-> FirstDead(p)] \in Locations
           /\ slots[[page |-> p, slot |-> FirstDead(p)]] = Dead
           /\ p \in 0 .. pageCount - 1 /\ p \in offered
<1>1. /\ pageCount \in 0 .. MaxPages /\ MaxPages \in Nat /\ SlotsPerPage \in Nat
      /\ offered \subseteq 0 .. pageCount - 1
  BY ConstantsAssumption DEF ConstantsAssumption, HeapShape, HeapTyped
<1>2. p \in offered /\ DeadSlots(p) # {} /\ p \in 0 .. pageCount - 1 /\ p \in PageIds
  BY <1>1 DEF WithRoom, PageIds
<1>3. DeadSlots(p) \in SUBSET Nat /\ DeadSlots(p) \subseteq SlotIds
  BY <1>1 DEF DeadSlots, SlotIds
<1>4. \E s \in DeadSlots(p) : \A t \in DeadSlots(p) : s <= t
  BY <1>2, <1>3, NatMin
<1>5. FirstDead(p) \in DeadSlots(p)
  BY <1>4 DEF FirstDead
<1>6. [page |-> p, slot |-> FirstDead(p)] \in Locations
  BY <1>2, <1>3, <1>5 DEF Locations
<1> QED
  BY <1>2, <1>5, <1>6 DEF DeadSlots

\* A move is a write of the value that is there.
LEMMA MoveKeepsAll ==
    ASSUME IInv, StoreFree, NEW id \in Records, ~ is_absent(directory[id]),
           NEW p, NEW loc, NEW from, MovesTo(id, p, loc, from)
    PROVE  /\ IInv' /\ KeepsAll
           /\ SameForReaders(directory, slots, directory', slots')
<1>1. /\ TrackerInv /\ HeapShape /\ next \in Nat
      /\ HeapInv(directory, slots, offered, retained, pageCount, next, lastWrite)
  BY OwnedInFile DEF IInv, TrackerInv
<1>2. /\ p \in WithRoom /\ from = newest(directory[id])
      /\ loc = [page |-> p, slot |-> FirstDead(p)]
      /\ slots' = [slots EXCEPT ![loc] = slots[from]]
      /\ directory' = [directory EXCEPT ![id] = Append(@, [txn |-> next, loc |-> loc])]
      /\ next' = next + 1 /\ retained' = retained + 1
      /\ lastWrite' = [lastWrite EXCEPT ![id] = next]
      /\ UNCHANGED <<opening, open, pageCount, offered>>
  BY DEF MovesTo
<1>3. loc \in Locations /\ slots[loc] = Dead /\ p \in 0 .. pageCount - 1 /\ p \in offered
  BY <1>1, <1>2, HoleFound
<1>4. from \in Locations /\ slots[from] # Dead /\ slots[from] \in Payloads
  BY <1>1, <1>2, NewestIsLive DEF is_absent
<1>5. slots[from].id = id
  <2>1. directory[id] \in Chains /\ directory[id] # <<>>
    BY <1>1 DEF HeapInv, HeapTyped, is_absent, newest
  <2>2. /\ Len(directory[id]) \in 1 .. Len(directory[id])
        /\ newest(directory[id]) = directory[id][Len(directory[id])].loc
    BY <2>1, NewestOf
  <2> QED
    BY <1>1, <1>2, <2>2 DEF is_absent, HeapInv, HeapOwned, NamedSlotsLive
<1>6. PICK val \in Values : slots[from] = [id |-> id, val |-> val]
  BY <1>4, <1>5 DEF Payloads
<1>7. /\ pageCount \in 0 .. MaxPages /\ pageCount <= pageCount /\ retained + 1 \in Nat
      /\ loc.page = p /\ loc.page \in 0 .. pageCount - 1 /\ offered \cup {loc.page} = offered
      /\ slots \in [Locations -> Payloads \cup {Dead}] /\ directory \in [Records -> Chains]
  BY <1>1, <1>2, <1>3, ConstantsAssumption DEF HeapInv, HeapTyped, ConstantsAssumption
<1>8. slots' = [slots EXCEPT ![loc] = [id |-> id, val |-> val]]
  BY <1>2, <1>6
<1>9. /\ HeapInv(directory', slots', offered \cup {loc.page}, retained + 1, pageCount,
                 next + 1, lastWrite')
      /\ SameForReaders(directory, slots, directory', slots')
  <2> PICK dir1 : dir1 = directory'
    OBVIOUS
  <2> PICK sl1 : sl1 = slots'
    OBVIOUS
  <2> PICK lw1 : lw1 = lastWrite'
    OBVIOUS
  <2> PICK ret : ret = retained + 1
    OBVIOUS
  <2>1. /\ dir1 = [directory EXCEPT ![id] = Append(@, [txn |-> next, loc |-> loc])]
        /\ sl1 = [slots EXCEPT ![loc] = [id |-> id, val |-> val]]
        /\ lw1 = [lastWrite EXCEPT ![id] = next] /\ ret \in Nat
    BY <1>2, <1>7, <1>8
  <2>2. /\ HeapInv(dir1, sl1, offered \cup {loc.page}, ret, pageCount, next + 1, lw1)
        /\ SameForReaders(directory, slots, dir1, sl1)
    BY <1>1, <1>3, <1>7, <2>1, PutStage
  <2> QED
    BY <2>2
<1>10. HeapInv(directory', slots', offered', retained', pageCount', next', lastWrite')
  BY <1>2, <1>7, <1>9
<1>11. UNCHANGED trackerVars /\ TrackerInv'
  BY <1>1, <1>2, ClockTicks DEF trackerVars
<1>12. IInv'
  BY <1>10, <1>11, HeapInPlace
<1>13. KeepsAll
  <2> DEFINE v == [txn |-> next, loc |-> loc]
  <2>1. v \in Versions /\ v.txn = next /\ v.loc = loc
    BY <1>1, <1>3 DEF Versions
  <2>2. KeepsLive(slots')
    BY <1>3, <1>7, <1>8 DEF KeepsLive
  <2>3. directory' = [directory EXCEPT ![id] = Append(@, v)]
    BY <1>2
  <2> HIDE DEF v
  <2>4. OneNewer(id, v, directory', slots')
    BY <1>1, <2>1, <2>2, <2>3, PushChangesOneRecord
  <2>5. Now(directory', slots', id) = Now(directory, slots, id)
    <3>1. newest(directory'[id]) = loc /\ loc # None
      BY <1>3, <2>1, <2>4, MarkersAssumption DEF OneNewer, MarkersAssumption
    <3>2. slots'[loc] = slots[from]
      BY <1>2, <1>3, <1>7
    <3> QED
      BY <1>2, <3>1, <3>2 DEF Now, is_absent
  <2>6. \A x \in Records \ {id} : Now(directory', slots', x) = Now(directory, slots, x)
    BY <2>4, SameNow DEF OneNewer
  <2> QED
    BY <2>5, <2>6 DEF KeepsAll
<1> QED
  BY <1>9, <1>12, <1>13

\* Of a heap whose slots may be anything a move keeps the shape.
LEMMA MoveKeepsShape ==
    ASSUME HeapShape, TrackerInv, NEW id \in Records, ~ is_absent(directory[id]),
           NEW p, NEW loc, NEW from, MovesTo(id, p, loc, from)
    PROVE  HeapShape'
<1>1. /\ HeapTyped(directory, slots, offered, retained, pageCount, lastWrite)
      /\ InFile(slots, pageCount) /\ next \in Nat
  BY DEF HeapShape, TrackerInv
<1>2. /\ p \in WithRoom /\ from = newest(directory[id])
      /\ loc = [page |-> p, slot |-> FirstDead(p)]
      /\ slots' = [slots EXCEPT ![loc] = slots[from]]
      /\ directory' = [directory EXCEPT ![id] = Append(@, [txn |-> next, loc |-> loc])]
      /\ retained' = retained + 1 /\ lastWrite' = [lastWrite EXCEPT ![id] = next]
      /\ UNCHANGED <<pageCount, offered>>
  BY DEF MovesTo
<1>3. loc \in Locations /\ p \in 0 .. pageCount - 1 /\ loc.page = p
  BY <1>2, HoleFound
<1>4. from \in Locations
  <2>1. directory[id] \in Chains /\ directory[id] # <<>>
    BY <1>1 DEF HeapTyped, is_absent, newest
  <2>2. /\ Len(directory[id]) \in 1 .. Len(directory[id])
        /\ newest(directory[id]) = directory[id][Len(directory[id])].loc
    BY <2>1, NewestOf
  <2> QED
    BY <1>2, <2>1, <2>2, ChainType DEF is_absent
<1>5. directory' \in [Records -> Chains]
  BY <1>1, <1>2, <1>3, LongerChain DEF HeapTyped
<1>6. slots' \in [Locations -> Payloads \cup {Dead}]
  BY <1>1, <1>2, <1>3, <1>4 DEF HeapTyped
<1>7. retained' \in Nat /\ lastWrite' \in [Records -> Nat]
  BY <1>1, <1>2 DEF HeapTyped
<1>8. InFile(slots', pageCount)
  <2>1. pageCount \in Nat
    BY <1>1, ConstantsAssumption DEF HeapTyped, ConstantsAssumption
  <2>2. loc.page < pageCount
    BY <1>3, <2>1, PageBelow
  <2> QED
    BY <1>1, <1>2, <2>2 DEF InFile, HeapTyped
<1> QED
  BY <1>1, <1>2, <1>5, <1>6, <1>7, <1>8 DEF HeapShape, HeapTyped

-----------------------------------------------------------------------------
(* A step of a heap that may be vacuumed *)

\* What a step does to records and snapshots while chains and slots agree.
Unseen(get) ==
    /\ get => \A id \in Records :
          get_at(directory', slots', id, next') = get_at(directory, slots, id, next)
    /\ SameForReaders(directory, slots, directory', slots')

\* Both heaps are the same.
LEMMA SameHeap ==
    ASSUME UNCHANGED <<directory, slots>>
    PROVE  SameForReaders(directory, slots, directory', slots')
BY DEF SameForReaders, get_at

\* A reclamation by the vacuum, at its start or after a round.
LEMMA ReclaimVacuum ==
    ASSUME VacuumIInv, reclaim, UNCHANGED cut
    PROVE  /\ TrackerInv' /\ HeapShape' /\ (~ cut' => IInv') /\ (StoreFree <=> StoreFree')
           /\ ~ cut' => Unseen(TRUE)
<1>1. /\ TrackerInv /\ HeapShape /\ next \in Nat \ {0} /\ open \in [Holders -> Nat \cup {None}]
      /\ (~ cut => IInv)
  BY DEF VacuumIInv, TrackerInv
<1>2. UNCHANGED <<next, opening, open>>
  BY DEF reclaim
<1>3. HeapShape'
  BY <1>1, ReclaimKeepsShape
<1>4. TrackerInv' /\ (StoreFree <=> StoreFree')
  BY <1>1, <1>2 DEF TrackerInv, StoreFree
<1>5. CASE ~ cut
  <2>1. IInv' /\ SameForReaders(directory, slots, directory', slots') /\ KeepsAll
    BY <1>1, <1>5, ReclaimStep, ReclaimKeepsAll
  <2>2. \A id \in Records :
          get_at(directory', slots', id, next') = get_at(directory, slots, id, next)
    BY <1>1, <1>5, <2>1, GetStays
  <2> QED
    BY <1>3, <1>4, <2>1, <2>2 DEF Unseen
<1>6. CASE cut
  BY <1>3, <1>4, <1>6
<1> QED
  BY <1>5, <1>6

\* A round that moves nothing, or the decision to begin one.
LEMMA HeapRests ==
    ASSUME VacuumIInv, UNCHANGED <<next, opening, open, directory, slots, pageCount, retained,
                                  lastWrite, cut>>,
           offered' \subseteq offered
    PROVE  /\ TrackerInv' /\ HeapShape' /\ (~ cut' => IInv') /\ (StoreFree <=> StoreFree')
           /\ ~ cut' => Unseen(TRUE)
<1>1. TrackerInv' /\ UNCHANGED trackerVars /\ (StoreFree <=> StoreFree')
  BY DEF VacuumIInv, TrackerInv, trackerVars, StoreFree
<1>2. HeapShape'
  BY DEF VacuumIInv, HeapShape, HeapTyped, InFile
<1>3. ASSUME IInv PROVE IInv'
  <2>1. HeapInv(directory, slots, offered', retained, pageCount, next, lastWrite)
    BY <1>3 DEF IInv, HeapInv, HeapTyped
  <2>2. HeapInv(directory', slots', offered', retained', pageCount', next', lastWrite')
    BY <2>1
  <2> QED
    BY <1>1, <2>2, HeapInPlace
<1>4. Unseen(TRUE)
  BY SameHeap DEF Unseen, get_at
<1> QED
  BY <1>1, <1>2, <1>3, <1>4 DEF VacuumIInv

\* Every step of a vacuum keeps the invariant, and no record and no reader notices it.
LEMMA VacuumStep ==
    ASSUME VacuumIInv, Vacuum
    PROVE  /\ VacuumIInv' /\ ChangesNoRecord
           /\ ~ cut' => SameForReaders(directory, slots, directory', slots')
<1>1. /\ TrackerInv /\ HeapShape /\ (~ cut => IInv) /\ VacuumTyped
      /\ phase \in {"idle", "loop", "move"} /\ todo \subseteq Records
      /\ moved \in BOOLEAN /\ cut \in BOOLEAN
      /\ (phase # "idle" => StoreFree)
      /\ (phase = "move" => \A id \in todo : ~ is_absent(directory[id]))
  BY DEF VacuumIInv, VacuumTyped
<1>2. CASE Start
  <2>1. /\ reclaim /\ phase' \in {"idle", "loop"} /\ UNCHANGED <<todo, moved, cut>>
    BY <1>2 DEF Start
  <2>2. StoreFree
    BY <2>1 DEF reclaim
  <2>3. /\ TrackerInv' /\ HeapShape' /\ (~ cut' => IInv') /\ StoreFree'
        /\ ~ cut' => Unseen(TRUE)
    BY <2>1, <2>2, ReclaimVacuum
  <2>4. VacuumTyped'
    BY <1>1, <2>1, <2>3 DEF VacuumTyped
  <2> QED
    BY <2>1, <2>3, <2>4 DEF VacuumIInv, ChangesNoRecord, Unseen
<1>3. CASE Truncate
  <2>1. /\ phase = "loop" /\ cut' = (cut \/ NamedOn(LastPage))
        /\ UNCHANGED <<next, opening, open, directory, phase, todo, moved>>
    BY <1>3 DEF Truncate
  <2>2. HeapShape' /\ TrackerInv'
    BY <1>1, <1>3, <2>1, CutKeepsShape DEF TrackerInv
  <2>3. VacuumTyped'
    BY <1>1, <2>1 DEF VacuumTyped, StoreFree
  <2>4. ~ cut' => IInv' /\ SameForReaders(directory, slots, directory', slots')
    BY <1>1, <1>3, <2>1, CutUnnamed, SameHeap
  <2>5. ChangesNoRecord
    BY <1>1, <1>3, CutKeepsAll DEF ChangesNoRecord
  <2> QED
    BY <2>2, <2>3, <2>4, <2>5 DEF VacuumIInv
<1>4. CASE Evacuate
  <2>1. /\ phase' = "move" /\ todo' = live_records_on(LastPage) /\ moved' = FALSE
        /\ offered' \subseteq offered /\ phase = "loop"
        /\ UNCHANGED <<next, opening, open, directory, slots, pageCount, retained, lastWrite, cut>>
    BY <1>4 DEF Evacuate
  <2>2. /\ TrackerInv' /\ HeapShape' /\ (~ cut' => IInv') /\ StoreFree'
        /\ ~ cut' => Unseen(TRUE)
    BY <1>1, <2>1, HeapRests
  <2>3. VacuumTyped'
    BY <1>1, <2>1, <2>2 DEF VacuumTyped, live_records_on
  <2> QED
    BY <2>1, <2>2, <2>3 DEF VacuumIInv, ChangesNoRecord, Unseen
<1>5. ASSUME NEW id \in Records, relocate(id)
      PROVE  /\ VacuumIInv' /\ ChangesNoRecord
             /\ ~ cut' => SameForReaders(directory, slots, directory', slots')
  <2>1. /\ phase = "move" /\ id \in todo /\ todo' = todo \ {id}
        /\ UNCHANGED <<phase, cut>>
    BY <1>5 DEF relocate
  <2>2. ~ is_absent(directory[id]) /\ StoreFree
    BY <1>1, <2>1
  <2>3. CASE WithRoom = {}
    <3>1. UNCHANGED <<vars, moved>>
      BY <1>5, <2>3 DEF relocate
    <3>2. /\ UNCHANGED <<next, opening, open, directory, slots, pageCount, retained, lastWrite, cut>>
          /\ offered' \subseteq offered /\ moved' = moved
      BY <2>1, <3>1 DEF vars
    <3>3. /\ TrackerInv' /\ HeapShape' /\ (~ cut' => IInv') /\ StoreFree'
          /\ ~ cut' => Unseen(TRUE)
      BY <2>2, <3>2, HeapRests
    <3>4. VacuumTyped'
      BY <1>1, <2>1, <3>2, <3>3 DEF VacuumTyped
    <3> QED
      BY <2>1, <3>3, <3>4 DEF VacuumIInv, ChangesNoRecord, Unseen
  <2>4. CASE WithRoom # {}
    <3>1. PICK p \in WithRoom :
            LET from == newest(directory[id])
                loc == [page |-> p, slot |-> FirstDead(p)]
            IN  /\ slots' = [slots EXCEPT ![loc] = slots[from]]
                /\ directory' = [directory EXCEPT ![id] = Append(@, [txn |-> next, loc |-> loc])]
      BY <1>5, <2>4 DEF relocate
    <3>2. /\ next' = next + 1 /\ retained' = retained + 1
          /\ lastWrite' = [lastWrite EXCEPT ![id] = next] /\ moved' = TRUE
          /\ UNCHANGED <<opening, open, pageCount, offered>>
      BY <1>5, <2>4 DEF relocate
    <3> PICK from : from = newest(directory[id])
      OBVIOUS
    <3> PICK loc : loc = [page |-> p, slot |-> FirstDead(p)]
      OBVIOUS
    <3>3. MovesTo(id, p, loc, from)
      BY <3>1, <3>2 DEF MovesTo
    <3>4. HeapShape'
      BY <1>1, <2>2, <3>3, MoveKeepsShape
    <3>5. TrackerInv' /\ StoreFree'
      BY <1>1, <2>2, <3>2, ClockTicks DEF trackerVars, StoreFree
    <3>6. \A x \in todo' : directory'[x] = directory[x]
      BY <1>1, <2>1, <3>1 DEF HeapShape, HeapTyped
    <3>7. VacuumTyped'
      BY <1>1, <2>1, <3>2, <3>5, <3>6 DEF VacuumTyped
    <3>8. ASSUME ~ cut
          PROVE  IInv' /\ KeepsAll /\ SameForReaders(directory, slots, directory', slots')
      BY <1>1, <2>2, <3>3, <3>8, MoveKeepsAll
    <3>9. ChangesNoRecord
      <4> SUFFICES ASSUME ~ cut, NEW x \in Records
                   PROVE  get_at(directory', slots', x, next') = get_at(directory, slots, x, next)
        BY DEF ChangesNoRecord
      <4> QED
        BY <1>1, <3>8, GetStays
    <3> QED
      BY <2>1, <3>4, <3>5, <3>7, <3>8, <3>9 DEF VacuumIInv
  <2> QED
    BY <2>3, <2>4
<1>6. CASE Moved
  <2>1. phase = "move" /\ phase' \in {"idle", "loop"} /\ UNCHANGED <<todo, moved, cut>>
    BY <1>6 DEF Moved
  <2>2. StoreFree
    BY <1>1, <2>1
  <2>3. /\ TrackerInv' /\ HeapShape' /\ (~ cut' => IInv') /\ StoreFree'
        /\ ~ cut' => Unseen(TRUE)
    <3>1. CASE moved
      BY <1>6, <2>1, <2>2, <3>1, ReclaimVacuum DEF Moved
    <3>2. CASE ~ moved
      <4>1. /\ UNCHANGED <<next, opening, open, directory, slots, pageCount, retained,
                          lastWrite, cut>>
            /\ offered' \subseteq offered
        BY <1>6, <2>1, <3>2 DEF Moved, vars
      <4> QED
        BY <2>2, <4>1, HeapRests
    <3> QED
      BY <3>1, <3>2
  <2>4. VacuumTyped'
    BY <1>1, <2>1, <2>3 DEF VacuumTyped
  <2> QED
    BY <2>1, <2>3, <2>4 DEF VacuumIInv, ChangesNoRecord, Unseen
<1>7. CASE Finish
  <2>1. /\ UNCHANGED <<next, opening, open, directory, slots, pageCount, retained, lastWrite, cut>>
        /\ offered' \subseteq offered /\ phase' = "idle" /\ UNCHANGED <<todo, moved>>
    BY <1>7 DEF Finish, vars
  <2>2. /\ TrackerInv' /\ HeapShape' /\ (~ cut' => IInv')
        /\ ~ cut' => Unseen(TRUE)
    BY <2>1, HeapRests
  <2>3. VacuumTyped'
    BY <1>1, <2>1 DEF VacuumTyped
  <2> QED
    BY <2>1, <2>2, <2>3 DEF VacuumIInv, ChangesNoRecord, Unseen
<1> QED
  BY <1>2, <1>3, <1>4, <1>5, <1>6, <1>7 DEF Vacuum

\* A write keeps the shape of a heap, also of one that has been cut.
LEMMA WriteKeepsShape ==
    ASSUME HeapShape, TrackerInv, Write
    PROVE  HeapShape' /\ TrackerInv' /\ UNCHANGED trackerVars
<1>1. next \in Nat \ {0} /\ open \in [Holders -> Nat \cup {None}]
  BY DEF TrackerInv
<1>2. ASSUME NEW id \in Records, NEW v \in Values, apply_put(id, v)
      PROVE  HeapShape' /\ next' = next + 1 /\ UNCHANGED trackerVars
  BY <1>1, <1>2, PutKeepsShape DEF apply_put, begin_write
<1>3. ASSUME NEW id \in Records, apply_delete(id)
      PROVE  HeapShape' /\ next' = next + 1 /\ UNCHANGED trackerVars
  BY <1>1, <1>3, DeleteKeepsShape DEF apply_delete, begin_write
<1>4. HeapShape' /\ next' = next + 1 /\ UNCHANGED trackerVars
  BY <1>2, <1>3 DEF Write, insert, update, delete
<1> QED
  BY <1>4, ClockTicks

\* A step of the tracker keeps its part of the invariant.
LEMMA TrackerMoves ==
    ASSUME TrackerInv, NEW h \in Holders, ReadClock(h) \/ Register(h) \/ close_snapshot(h)
    PROVE  TrackerInv' /\ UNCHANGED heapVars
<1>1. /\ next \in Nat \ {0} /\ CurrentAt(next) = next - 1
      /\ opening \in [Holders -> Nat \cup {None}] /\ open \in [Holders -> Nat \cup {None}]
      /\ None \notin Nat
  BY MarkersAssumption DEF TrackerInv, CurrentAt, MarkersAssumption
<1>2. UNCHANGED heapVars /\ next' = next
  BY DEF ReadClock, Register, close_snapshot
<1>3. CASE ReadClock(h)
  <2>1. opening' = [opening EXCEPT ![h] = CurrentAt(next)] /\ open' = open
    BY <1>3 DEF ReadClock
  <2> QED
    BY <1>1, <1>2, <2>1 DEF TrackerInv
<1>4. CASE Register(h)
  <2>1. /\ opening[h] # None /\ open' = [open EXCEPT ![h] = opening[h]]
        /\ opening' = [opening EXCEPT ![h] = None]
    BY <1>4 DEF Register
  <2> QED
    BY <1>1, <1>2, <2>1 DEF TrackerInv
<1>5. CASE close_snapshot(h)
  <2>1. open' = [open EXCEPT ![h] = None] /\ opening' = opening
    BY <1>5 DEF close_snapshot
  <2> QED
    BY <1>1, <1>2, <2>1 DEF TrackerInv
<1> QED
  BY <1>3, <1>4, <1>5

\* What a step of the tracker leaves alone.
LEMMA ShapeStands ==
    ASSUME HeapShape, UNCHANGED heapVars
    PROVE  HeapShape' /\ SameForReaders(directory, slots, directory', slots')
BY SameHeap DEF HeapShape, HeapTyped, InFile, heapVars

\* A holder of another shard is not a reader of this store.
LEMMA OthersKeepStoreFree ==
    ASSUME StoreFree, TrackerInv, NEW h \in Holders,
           close_snapshot(h) \/ (h \in Foreign /\ (ReadClock(h) \/ Register(h)))
    PROVE  StoreFree'
<1>1. opening \in [Holders -> Nat \cup {None}] /\ (h \in Foreign => h \notin Readers)
  BY ConstantsAssumption DEF TrackerInv, ConstantsAssumption
<1>2. \A r \in Readers : opening'[r] = opening[r]
  BY <1>1 DEF close_snapshot, ReadClock, Register, Holders
<1> QED
  BY <1>2 DEF StoreFree

\* Every call on the store or the tracker that runs between vacuums, or beside one.
LEMMA CallsBeside ==
    ASSUME VacuumIInv, StoreCalls \/ TrackerCalls
    PROVE  /\ VacuumIInv'
           /\ ~ cut' => SameForReaders(directory, slots, directory', slots')
<1>1. /\ TrackerInv /\ HeapShape /\ (~ cut => IInv) /\ VacuumTyped
      /\ UNCHANGED <<phase, todo, moved, cut>>
  BY DEF VacuumIInv, StoreCalls, TrackerCalls, vacuumVars
<1>2. next \in Nat \ {0} /\ open \in [Holders -> Nat \cup {None}]
  BY <1>1 DEF TrackerInv
<1>3. ASSUME IInv, Next
      PROVE  IInv' /\ SameForReaders(directory, slots, directory', slots')
  <2>1. IInv' /\ (UNCHANGED heapVars \/ SameForReaders(directory, slots, directory', slots'))
    BY <1>3, NextStep
  <2> QED
    BY <1>1, <2>1, ShapeStands
<1>4. Readers \subseteq Holders /\ Foreign \subseteq Holders
  BY DEF Holders
<1>5. CASE StoreCalls
  <2>1. phase = "idle" /\ (Write \/ reclaim \/ \E r \in Readers : ReadClock(r) \/ Register(r))
    BY <1>5 DEF StoreCalls
  <2>2. Next
    BY <1>4, <2>1 DEF Next, Snapshots
  <2>3. TrackerInv' /\ HeapShape'
    <3>1. CASE Write
      BY <1>1, <3>1, WriteKeepsShape
    <3>2. CASE reclaim
      BY <1>1, <1>2, <3>2, ReclaimKeepsShape DEF reclaim, TrackerInv
    <3>3. CASE \E r \in Readers : ReadClock(r) \/ Register(r)
      BY <1>1, <1>4, <3>3, TrackerMoves, ShapeStands
    <3> QED
      BY <2>1, <3>1, <3>2, <3>3
  <2>4. VacuumTyped'
    BY <1>1, <2>1 DEF VacuumTyped
  <2> QED
    BY <1>1, <1>3, <2>2, <2>3, <2>4 DEF VacuumIInv
<1>6. CASE TrackerCalls
  <2>1. \/ \E h \in Holders : close_snapshot(h)
        \/ \E h \in Foreign : ReadClock(h) \/ Register(h)
        \/ ForeignWrite
    BY <1>6 DEF TrackerCalls
  <2>2. Next
    BY <1>4, <2>1 DEF Next, Snapshots
  <2>3. TrackerInv' /\ UNCHANGED heapVars /\ (StoreFree => StoreFree')
    <3>1. CASE ForeignWrite
      <4>1. next' = next + 1 /\ UNCHANGED trackerVars /\ UNCHANGED heapVars
        BY <3>1 DEF ForeignWrite, begin_write
      <4> QED
        BY <1>1, <4>1, ClockTicks DEF StoreFree, trackerVars
    <3>2. CASE ~ ForeignWrite
      <4>1. PICK h \in Holders :
              close_snapshot(h) \/ (h \in Foreign /\ (ReadClock(h) \/ Register(h)))
        BY <1>4, <2>1, <3>2
      <4> QED
        BY <1>1, <4>1, TrackerMoves, OthersKeepStoreFree
    <3> QED
      BY <3>1, <3>2
  <2>4. HeapShape'
    BY <1>1, <2>3, ShapeStands
  <2>5. VacuumTyped'
    BY <1>1, <2>3 DEF VacuumTyped, heapVars
  <2> QED
    BY <1>1, <1>3, <2>2, <2>3, <2>4, <2>5 DEF VacuumIInv
<1> QED
  BY <1>5, <1>6

\* The invariant says of types and slots what is claimed of them.
LEMMA VacuumTypes == VacuumIInv => VTypeOK
<1> SUFFICES ASSUME VacuumIInv PROVE VTypeOK
  OBVIOUS
<1>1. TypeOK
  BY ShapeTypes DEF VacuumIInv
<1>2. ~ cut => SlotsOwned
  BY DEF VacuumIInv, IInv, HeapInv, HeapOwned, SlotsOwned
<1> QED
  BY <1>1, <1>2 DEF VacuumIInv, VacuumTyped, VTypeOK

\* No step of either kind changes what an open snapshot reads, and no step of a vacuum
\* what get answers.
LEMMA VacuumNext ==
    ASSUME VacuumIInv, [VNext]_allVars
    PROVE  VacuumIInv' /\ [ChangesNoRecord /\ KeepsSnapshots]_allVars
<1>1. ASSUME ~ cut' => SameForReaders(directory, slots, directory', slots')
      PROVE  KeepsSnapshots
  BY <1>1 DEF KeepsSnapshots, SameForReaders
<1>2. CASE Vacuum
  BY <1>1, <1>2, VacuumStep
<1>3. CASE ~ Vacuum /\ (StoreCalls \/ TrackerCalls)
  <2>1. ChangesNoRecord
    BY <1>3 DEF ChangesNoRecord
  <2> QED
    BY <1>1, <1>3, <2>1, CallsBeside
<1>4. CASE UNCHANGED allVars
  <2>1. UNCHANGED <<next, opening, open, directory, slots, pageCount, offered, retained,
                    lastWrite, phase, todo, moved, cut>>
    BY <1>4 DEF allVars, vars, vacuumVars
  <2>2. TrackerInv' /\ HeapShape' /\ (~ cut' => IInv') /\ (StoreFree <=> StoreFree')
    BY <2>1, HeapRests
  <2>3. VacuumTyped'
    BY <2>1, <2>2 DEF VacuumIInv, VacuumTyped
  <2> QED
    BY <1>4, <2>2, <2>3 DEF VacuumIInv
<1> QED
  BY <1>2, <1>3, <1>4 DEF VNext

\* Whenever a heap is vacuumed: until a page is cut off that a chain still names, the
\* invariant of the heap holds; afterwards its shape.
THEOREM VacuumInductive == VSpec => []VacuumIInv
<1>1. VInit => VacuumIInv
  <2> SUFFICES ASSUME VInit PROVE VacuumIInv
    OBVIOUS
  <2>1. IInv /\ phase = "idle" /\ todo = {} /\ moved = FALSE /\ cut = FALSE
    BY InitIInv DEF VInit
  <2> QED
    BY <2>1, OwnedInFile DEF VacuumIInv, VacuumTyped
<1>2. VacuumIInv /\ [VNext]_allVars => VacuumIInv'
  BY VacuumNext
<1> QED
  BY <1>1, <1>2, PTL DEF VSpec

\* Records move and pages go, and neither get nor an open snapshot can tell: as long as no
\* page is cut off under a version that a chain still names (vacuum, relocate).
THEOREM VacuumUnnoticed == VSpec => VacuumIsInvisible
<1>1. VacuumIInv /\ [VNext]_allVars => [ChangesNoRecord /\ KeepsSnapshots]_allVars
  BY VacuumNext
<1> QED
  BY VacuumInductive, VacuumTypes, <1>1, PTL DEF VSpec, VacuumIsInvisible
=============================================================================
