---------------------------- MODULE PagesProofs ----------------------------
(***************************************************************************)
(* Theorems of BufferPool and of SlottedPage, for every value of their     *)
(* constants: the pool keeps every page as it was last changed, a page     *)
(* keeps what it was given and is accepted when it is read again.          *)
(***************************************************************************)
EXTENDS BufferPool, SlottedPage, FiniteSetTheorems, SequenceTheorems,
        WellFoundedInduction, TLAPS

-----------------------------------------------------------------------------
(* Numbers and sequences *)

\* A nonempty set of naturals has a least element.
LEMMA LeastOf ==
    ASSUME NEW S \in SUBSET Nat, S # {}
    PROVE  \E x \in S : \A y \in S : x <= y
<1>1. PICK x \in S : \A y \in S : ~ (<<y, x>> \in OpToRel(<, Nat))
  BY NatLessThanWellFounded, WFMin
<1>2. \A y \in S : ~ (y < x)
  BY <1>1 DEF OpToRel
<1> QED
  BY <1>2

\* A set of naturals with 0 and with the successors of its members, up to a bound, holds
\* everything up to the bound.
LEMMA UpToBound ==
    ASSUME NEW n \in Nat, NEW S, 0 \in S,
           \A i \in 0 .. n - 1 : i \in S => i + 1 \in S
    PROVE  \A i \in 0 .. n : i \in S
<1> PICK T : T = {i \in 0 .. n : i \notin S}
  OBVIOUS
<1> SUFFICES ASSUME T # {} PROVE FALSE
  OBVIOUS
<1>0. T \in SUBSET Nat
  OBVIOUS
<1>1. PICK x \in T : \A y \in T : x <= y
  BY <1>0, LeastOf
<1>2. x # 0 /\ x \in Nat /\ x <= n
  BY <1>1
<1>3. x - 1 \in 0 .. n - 1 /\ x - 1 \in 0 .. n /\ ~ (x <= x - 1)
  BY <1>2
<1>4. x - 1 \in S
  BY <1>1, <1>3
<1> QED
  BY <1>1, <1>2, <1>3, <1>4

\* A sequence is a function from its positions.
LEMMA SeqFacts ==
    ASSUME NEW S, NEW s \in Seq(S)
    PROVE  /\ Len(s) \in Nat /\ DOMAIN s = 1 .. Len(s)
           /\ s \in [1 .. Len(s) -> S]
           /\ \A i \in 1 .. Len(s) : s[i] \in S
BY LenProperties

\* A function from 1 to n is a sequence of length n.
LEMMA FunctionIsSeq ==
    ASSUME NEW S, NEW n \in Nat, NEW f \in [1 .. n -> S]
    PROVE  f \in Seq(S) /\ Len(f) = n
<1>1. f \in Seq(S)
  BY SeqDef
<1> QED
  BY <1>1, SeqFacts

\* What is before, after and left without the k-th of n elements.
Before(a, S, es, k) == a \in Seq(S) /\ Len(a) = k - 1 /\ \A i \in 1 .. k - 1 : a[i] = es[i]
After(b, S, es, k, n) ==
    b \in Seq(S) /\ Len(b) = n - k /\ \A i \in 1 .. n - k : b[i] = es[k + i]
Left(w, S, es, k, n) ==
    /\ w \in Seq(S) /\ Len(w) = n - 1
    /\ \A i \in 1 .. n - 1 : (i < k => w[i] = es[i]) /\ (~ (i < k) => w[i] = es[i + 1])

\* A sequence joined from what is before and after its k-th element.
LEMMA Joined ==
    ASSUME NEW S, NEW es, NEW n \in Nat, NEW k \in 1 .. n, NEW a, NEW b, NEW w, w = a \o b,
           Before(a, S, es, k), After(b, S, es, k, n)
    PROVE  Left(w, S, es, k, n)
<1>0. /\ a \in Seq(S) /\ Len(a) = k - 1 /\ \A i \in 1 .. k - 1 : a[i] = es[i]
      /\ b \in Seq(S) /\ Len(b) = n - k /\ \A i \in 1 .. n - k : b[i] = es[k + i]
  BY DEF Before, After
<1>1. /\ w \in Seq(S) /\ Len(w) = Len(a) + Len(b)
      /\ \A i \in 1 .. Len(a) + Len(b) : w[i] = IF i <= Len(a) THEN a[i] ELSE b[i - Len(a)]
  <2>1. a \in Seq(S) /\ b \in Seq(S)
    BY <1>0
  <2>2. /\ a \o b \in Seq(S) /\ Len(a \o b) = Len(a) + Len(b)
        /\ \A i \in 1 .. Len(a) + Len(b) : (a \o b)[i] = IF i <= Len(a) THEN a[i] ELSE b[i - Len(a)]
    BY <2>1, ConcatProperties, Zenon
  <2> QED
    BY <2>2, Zenon
<1>2. Len(w) = n - 1
  BY <1>0, <1>1
<1>3. ASSUME NEW i \in 1 .. n - 1
      PROVE  (i < k => w[i] = es[i]) /\ (~ (i < k) => w[i] = es[i + 1])
  <2>1. w[i] = IF i <= k - 1 THEN a[i] ELSE b[i - (k - 1)]
    BY <1>0, <1>1
  <2>2. CASE i < k
    BY <1>0, <2>1, <2>2
  <2>3. CASE ~ (i < k)
    <3>1. i - (k - 1) \in 1 .. n - k /\ k + (i - (k - 1)) = i + 1 /\ ~ (i <= k - 1)
      BY <2>3
    <3>2. b[i - (k - 1)] = es[i + 1]
      BY <1>0, <3>1
    <3> QED
      BY <2>1, <2>3, <3>1, <3>2
  <2> QED
    BY <2>2, <2>3
<1> QED
  BY <1>1, <1>2, <1>3 DEF Left

\* What is left of a sequence without its k-th element.
LEMMA SeqWithout ==
    ASSUME NEW S, NEW es \in Seq(S), NEW k \in 1 .. Len(es), NEW w, w = Without(es, k)
    PROVE  Left(w, S, es, k, Len(es))
<1>1. Len(es) \in Nat /\ \A i \in 1 .. Len(es) : es[i] \in S
  BY SeqFacts
<1>2. Before(SubSeq(es, 1, k - 1), S, es, k)
  <2>1. \A i \in 1 .. k - 1 : es[i] \in S
    BY <1>1
  <2>2. /\ SubSeq(es, 1, k - 1) \in Seq(S)
        /\ Len(SubSeq(es, 1, k - 1)) = IF 1 <= k - 1 THEN k - 1 - 1 + 1 ELSE 0
        /\ \A i \in 1 .. k - 1 - 1 + 1 : SubSeq(es, 1, k - 1)[i] = es[1 + i - 1]
    BY <1>1, <2>1, SubSeqProperties
  <2> QED
    BY <1>1, <2>2 DEF Before
<1>3. After(SubSeq(es, k + 1, Len(es)), S, es, k, Len(es))
  <2>1. \A i \in k + 1 .. Len(es) : es[i] \in S
    BY <1>1
  <2>2. /\ SubSeq(es, k + 1, Len(es)) \in Seq(S)
        /\ Len(SubSeq(es, k + 1, Len(es))) = IF k + 1 <= Len(es) THEN Len(es) - (k + 1) + 1 ELSE 0
        /\ \A i \in 1 .. Len(es) - (k + 1) + 1 : SubSeq(es, k + 1, Len(es))[i] = es[k + 1 + i - 1]
    BY <1>1, <2>1, SubSeqProperties
  <2> QED
    BY <1>1, <2>2 DEF After
<1>4. w = SubSeq(es, 1, k - 1) \o SubSeq(es, k + 1, Len(es))
  BY DEF Without
<1> QED
  BY <1>1, <1>2, <1>3, <1>4, Joined, Zenon

\* Appending keeps what was there.
LEMMA AppendFacts ==
    ASSUME NEW S, NEW s \in Seq(S), NEW e \in S
    PROVE  /\ Append(s, e) \in Seq(S) /\ Len(Append(s, e)) = Len(s) + 1
           /\ \A i \in 1 .. Len(s) : Append(s, e)[i] = s[i]
           /\ Append(s, e)[Len(s) + 1] = e
BY AppendProperties

\* A prefix of a sequence.
LEMMA PrefixFacts ==
    ASSUME NEW S, NEW s \in Seq(S), NEW n \in 0 .. Len(s)
    PROVE  /\ SubSeq(s, 1, n) \in Seq(S) /\ Len(SubSeq(s, 1, n)) = n
           /\ \A i \in 1 .. n : SubSeq(s, 1, n)[i] = s[i]
<1>1. \A i \in 1 .. n : s[i] \in S
  BY SeqFacts
<1>2. /\ SubSeq(s, 1, n) \in Seq(S)
      /\ Len(SubSeq(s, 1, n)) = IF 1 <= n THEN n - 1 + 1 ELSE 0
      /\ \A i \in 1 .. n - 1 + 1 : SubSeq(s, 1, n)[i] = s[1 + i - 1]
  BY <1>1, SubSeqProperties
<1>3. n \in Nat
  BY SeqFacts
<1> QED
  BY <1>2, <1>3

\* A remainder is below its divisor.
LEMMA Remainder ==
    ASSUME NEW a \in Nat, NEW b \in Nat \ {0}
    PROVE  a % b \in 0 .. b - 1
OBVIOUS

\* A quotient is no larger than the dividend.
LEMMA Quotient ==
    ASSUME NEW a \in Nat, NEW b \in Nat \ {0}
    PROVE  a \div b \in 0 .. a
OBVIOUS

-----------------------------------------------------------------------------
(* The clock *)

Entries == Seq(Nat \X BOOLEAN)

\* No page is in the clock twice.
Distinct(es) == \A i, j \in 1 .. Len(es) : es[i][1] = es[j][1] => i = j

Clock(es) == es \in Entries /\ Distinct(es)

\* An entry is a page and a mark.
LEMMA EntryFacts ==
    ASSUME NEW es \in Entries
    PROVE  /\ Len(es) \in Nat /\ DOMAIN es = 1 .. Len(es)
           /\ \A i \in 1 .. Len(es) : /\ es[i] \in Nat \X BOOLEAN
                                      /\ es[i][1] \in Nat /\ es[i][2] \in BOOLEAN
BY SeqFacts DEF Entries

\* A new entry goes to the end.
LEMMA AppendMember ==
    ASSUME NEW es \in Entries, NEW e \in Nat \X BOOLEAN
    PROVE  /\ Append(es, e) \in Entries /\ Len(Append(es, e)) = Len(es) + 1
           /\ \A i \in 1 .. Len(es) : Append(es, e)[i] = es[i]
           /\ Append(es, e)[Len(es) + 1] = e
BY AppendFacts DEF Entries

\* The entry of a page that was just touched goes to the end.
LEMMA AppendEntry ==
    ASSUME NEW es \in Entries, NEW p \in Nat, NEW fs, fs = Append(es, <<p, TRUE>>)
    PROVE  /\ fs \in Entries /\ Len(fs) = Len(es) + 1
           /\ \A i \in 1 .. Len(es) : fs[i] = es[i]
           /\ fs[Len(es) + 1] = <<p, TRUE>>
<1>1. <<p, TRUE>> \in Nat \X BOOLEAN
  OBVIOUS
<1> QED
  BY <1>1, AppendMember, Zenon

\* As many pages are tracked as there are entries.
LEMMA TrackedCount ==
    ASSUME NEW es, Clock(es)
    PROVE  Cardinality(Tracked(es)) = Len(es)
<1>1. /\ es \in Entries /\ Len(es) \in Nat /\ DOMAIN es = 1 .. Len(es)
      /\ \A i, j \in 1 .. Len(es) : es[i][1] = es[j][1] => i = j
  BY EntryFacts DEF Clock, Distinct
<1> PICK f : f = [i \in 1 .. Len(es) |-> es[i][1]]
  OBVIOUS
<1>2. \A i \in 1 .. Len(es) : f[i] = es[i][1]
  OBVIOUS
<1>3. Tracked(es) = {f[i] : i \in 1 .. Len(es)}
  BY <1>1, <1>2 DEF Tracked
<1>4. f \in Bijection(1 .. Len(es), Tracked(es))
  BY <1>1, <1>2, <1>3 DEF Bijection, Injection, Surjection, IsInjective
<1> QED
  BY <1>1, <1>4, FS_CountingElements DEF ExistsBijection

\* What touching page p does to a clock.
TouchedBy(es, fs, S) ==
    /\ Clock(fs) /\ Len(es) <= Len(fs)
    /\ Tracked(fs) = Tracked(es) \cup S

\* Touching a page marks its entry, or appends one.
LEMMA TouchOne ==
    ASSUME NEW es, Clock(es), NEW p \in Nat
    PROVE  TouchedBy(es, touch(es, p), {p})
<1>1. /\ es \in Entries /\ Len(es) \in Nat /\ DOMAIN es = 1 .. Len(es)
      /\ \A i, j \in 1 .. Len(es) : es[i][1] = es[j][1] => i = j
      /\ \A i \in 1 .. Len(es) : es[i] \in Nat \X BOOLEAN
  BY EntryFacts DEF Clock, Distinct
<1> PICK fs : fs = touch(es, p)
  OBVIOUS
<1>2. <<p, TRUE>> \in Nat \X BOOLEAN /\ <<p, TRUE>>[1] = p
  OBVIOUS
<1>3. CASE p \in Tracked(es)
  <2>1. fs = [i \in 1 .. Len(es) |-> IF es[i][1] = p THEN <<p, TRUE>> ELSE es[i]]
    BY <1>1, <1>3 DEF touch
  <2>2. fs \in Entries /\ Len(fs) = Len(es)
    <3>1. fs \in [1 .. Len(es) -> Nat \X BOOLEAN]
      BY <1>1, <1>2, <2>1
    <3>2. fs \in Seq(Nat \X BOOLEAN) /\ Len(fs) = Len(es)
      BY <1>1, <3>1, FunctionIsSeq
    <3> QED
      BY <3>2 DEF Entries
  <2>3. \A i \in 1 .. Len(es) : fs[i][1] = es[i][1]
    BY <1>2, <2>1
  <2>4. Tracked(fs) = Tracked(es)
    <3>1. DOMAIN fs = DOMAIN es
      BY <1>1, <2>2, EntryFacts
    <3>2. \A i \in DOMAIN es : fs[i][1] = es[i][1]
      BY <1>1, <2>3
    <3> QED
      BY <3>1, <3>2 DEF Tracked
  <2>5. Distinct(fs)
    BY <1>1, <2>2, <2>3 DEF Distinct
  <2> QED
    BY <1>1, <1>3, <2>2, <2>4, <2>5 DEF TouchedBy, Clock
<1>4. CASE p \notin Tracked(es)
  <2>1. fs = Append(es, <<p, TRUE>>)
    BY <1>4 DEF touch
  <2>2. /\ fs \in Entries /\ Len(fs) = Len(es) + 1
        /\ \A i \in 1 .. Len(es) : fs[i] = es[i]
        /\ fs[Len(es) + 1] = <<p, TRUE>>
    <3>1. es \in Entries
      BY <1>1
    <3> QED
      BY <2>1, <3>1, AppendEntry, Zenon
  <2>3. \A i \in 1 .. Len(es) : es[i][1] # p
    BY <1>1, <1>4 DEF Tracked
  <2>4. DOMAIN fs = 1 .. Len(es) + 1
    BY <2>2, EntryFacts
  <2>5. Tracked(fs) = Tracked(es) \cup {p}
    <3>1. \A x : x \in Tracked(fs) <=> \E i \in 1 .. Len(es) + 1 : x = fs[i][1]
      BY <2>4 DEF Tracked
    <3>2. \A x : x \in Tracked(es) <=> \E i \in 1 .. Len(es) : x = es[i][1]
      BY <1>1 DEF Tracked
    <3>3. \A i \in 1 .. Len(es) + 1 : i \in 1 .. Len(es) \/ i = Len(es) + 1
      BY <1>1
    <3>4. Len(es) + 1 \in 1 .. Len(es) + 1 /\ 1 .. Len(es) \subseteq 1 .. Len(es) + 1
      BY <1>1
    <3>5. ASSUME NEW x PROVE x \in Tracked(fs) <=> x \in Tracked(es) \/ x = p
      BY <1>2, <2>2, <3>1, <3>2, <3>3, <3>4
    <3> QED
      BY <3>5
  <2>6. Distinct(fs)
    <3> SUFFICES ASSUME NEW i \in 1 .. Len(fs), NEW j \in 1 .. Len(fs), fs[i][1] = fs[j][1]
                 PROVE  i = j
      BY DEF Distinct
    <3>1. CASE i = Len(es) + 1 \/ j = Len(es) + 1
      BY <1>1, <1>2, <2>2, <2>3, <3>1
    <3>2. CASE i # Len(es) + 1 /\ j # Len(es) + 1
      BY <1>1, <2>2, <3>2
    <3> QED
      BY <3>1, <3>2
  <2> QED
    BY <1>1, <2>2, <2>5, <2>6 DEF TouchedBy, Clock
<1> QED
  BY <1>3, <1>4

\* The clocks while the pages of a span are touched one after the other.
Steps(es, p, n, t) ==
    t = [i \in 0 .. n |-> IF i = 0 THEN es ELSE touch(t[i - 1], p + i - 1)]

\* They exist.
LEMMA StepsExist ==
    ASSUME NEW es, NEW p \in Nat, NEW n \in Nat
    PROVE  \E t : Steps(es, p, n, t)
<1> PICK S : S = {i \in 0 .. n : \E t : Steps(es, p, i, t)}
  OBVIOUS
<1>1. 0 \in S
  <2> PICK t : t = [i \in 0 .. 0 |-> es]
    OBVIOUS
  <2>1. t = [i \in 0 .. 0 |-> IF i = 0 THEN es ELSE touch(t[i - 1], p + i - 1)]
    OBVIOUS
  <2> QED
    BY <2>1 DEF Steps
<1>2. ASSUME NEW m \in 0 .. n - 1, m \in S PROVE m + 1 \in S
  <2>1. PICK t : t = [i \in 0 .. m |-> IF i = 0 THEN es ELSE touch(t[i - 1], p + i - 1)]
    BY <1>2 DEF Steps
  <2> PICK u : u = [i \in 0 .. m + 1 |-> IF i = m + 1 THEN touch(t[m], p + m) ELSE t[i]]
    OBVIOUS
  <2>2. /\ \A i \in 0 .. m : u[i] = t[i]
        /\ u[m + 1] = touch(t[m], p + m) /\ m + 1 # 0 /\ m \in 0 .. m
    OBVIOUS
  <2>3. ASSUME NEW i \in 0 .. m + 1
        PROVE  u[i] = IF i = 0 THEN es ELSE touch(u[i - 1], p + i - 1)
    <3>1. CASE i = m + 1
      <4>1. i - 1 = m /\ p + i - 1 = p + m /\ i # 0
        BY <3>1
      <4> QED
        BY <2>2, <3>1, <4>1
    <3>2. CASE i = 0
      BY <2>1, <2>2, <3>2
    <3>3. CASE i # 0 /\ i # m + 1
      <4>1. i \in 0 .. m /\ i - 1 \in 0 .. m
        BY <3>3
      <4>2. t[i] = touch(t[i - 1], p + i - 1)
        BY <2>1, <3>3, <4>1
      <4> QED
        BY <2>2, <3>3, <4>1, <4>2
    <3> QED
      BY <3>1, <3>2, <3>3
  <2>4. u = [i \in 0 .. m + 1 |-> IF i = 0 THEN es ELSE touch(u[i - 1], p + i - 1)]
    BY <2>3
  <2>5. Steps(es, p, m + 1, u)
    BY <2>4 DEF Steps
  <2> QED
    BY <2>5
<1>3. \A i \in 0 .. n : i \in S
  BY <1>1, <1>2, UpToBound
<1> QED
  BY <1>3

\* Touching a span of pages tracks them all.
LEMMA TouchMany ==
    ASSUME NEW es, Clock(es), NEW p \in Nat, NEW n \in Nat
    PROVE  TouchedBy(es, TouchAll(es, p, n), p .. p + n - 1)
<1>1. PICK t : Steps(es, p, n, t) /\ TouchAll(es, p, n) = t[n]
  <2> PICK t : t = CHOOSE f : Steps(es, p, n, f)
    OBVIOUS
  <2>1. Steps(es, p, n, t)
    BY StepsExist, Zenon
  <2>2. TouchAll(es, p, n) = t[n]
    BY DEF TouchAll, Steps
  <2> QED
    BY <2>1, <2>2
<1>2. \A i \in 0 .. n : t[i] = IF i = 0 THEN es ELSE touch(t[i - 1], p + i - 1)
  BY <1>1 DEF Steps
<1> PICK S : S = {i \in 0 .. n : TouchedBy(es, t[i], p .. p + i - 1)}
  OBVIOUS
<1>3. 0 \in S
  <2>1. t[0] = es /\ p .. p + 0 - 1 = {} /\ 0 \in 0 .. n
    BY <1>2
  <2>2. Len(es) \in Nat
    BY EntryFacts DEF Clock
  <2>3. TouchedBy(es, t[0], p .. p + 0 - 1)
    BY <2>1, <2>2 DEF TouchedBy
  <2> QED
    BY <2>1, <2>3
<1>4. ASSUME NEW i \in 0 .. n - 1, i \in S PROVE i + 1 \in S
  <2>1. /\ t[i + 1] = touch(t[i], p + i) /\ i + 1 \in 0 .. n /\ p + i \in Nat
    <3>1. i + 1 # 0 /\ i + 1 \in 0 .. n /\ i + 1 - 1 = i /\ p + (i + 1) - 1 = p + i
      OBVIOUS
    <3> QED
      BY <1>2, <3>1
  <2> PICK a, b : a = t[i] /\ b = t[i + 1]
    OBVIOUS
  <2>2. TouchedBy(es, a, p .. p + i - 1)
    BY <1>4
  <2>3. TouchedBy(a, b, {p + i})
    BY <2>1, <2>2, TouchOne DEF TouchedBy
  <2>4. p .. p + (i + 1) - 1 = (p .. p + i - 1) \cup {p + i}
    OBVIOUS
  <2>5. Len(es) <= Len(b)
    <3>1. Len(es) \in Nat /\ Len(a) \in Nat /\ Len(b) \in Nat
      BY <2>2, <2>3, EntryFacts DEF TouchedBy, Clock
    <3> QED
      BY <2>2, <2>3, <3>1 DEF TouchedBy
  <2>6. TouchedBy(es, b, p .. p + (i + 1) - 1)
    BY <2>2, <2>3, <2>4, <2>5 DEF TouchedBy
  <2> QED
    BY <2>1, <2>6
<1>5. n \in S
  <2>1. \A i \in 0 .. n : i \in S
    BY <1>3, <1>4, UpToBound
  <2> QED
    BY <2>1
<1> QED
  BY <1>1, <1>5

\* Taking an entry out of the clock takes out its page.
LEMMA WithoutOne ==
    ASSUME NEW es, Clock(es), NEW k \in 1 .. Len(es), NEW w, w = Without(es, k)
    PROVE  /\ Clock(w) /\ Len(w) = Len(es) - 1
           /\ Tracked(es) \ {es[k][1]} \subseteq Tracked(w)
<1>1. /\ es \in Seq(Nat \X BOOLEAN) /\ Len(es) \in Nat /\ DOMAIN es = 1 .. Len(es)
      /\ \A i, j \in 1 .. Len(es) : es[i][1] = es[j][1] => i = j
      /\ \A i \in 1 .. Len(es) : es[i] \in Nat \X BOOLEAN
  BY EntryFacts DEF Clock, Distinct, Entries
<1>4. Left(w, Nat \X BOOLEAN, es, k, Len(es))
  <2>1. es \in Seq(Nat \X BOOLEAN)
    BY <1>1
  <2> QED
    BY <2>1, SeqWithout, Zenon
<1>5. w \in Seq(Nat \X BOOLEAN) /\ Len(w) = Len(es) - 1
  BY <1>4 DEF Left
<1>6. \A i \in 1 .. Len(es) - 1 : (i < k => w[i] = es[i]) /\ (~ (i < k) => w[i] = es[i + 1])
  BY <1>4 DEF Left
<1>7. Distinct(w)
  <2> SUFFICES ASSUME NEW i \in 1 .. Len(w), NEW j \in 1 .. Len(w), w[i][1] = w[j][1]
               PROVE  i = j
    BY DEF Distinct
  <2>1. \A m \in 1 .. Len(w) :
           \E x \in 1 .. Len(es) : w[m] = es[x] /\ ((x = m /\ m < k) \/ (x = m + 1 /\ ~ (m < k)))
    <3> TAKE m \in 1 .. Len(w)
    <3>1. m \in 1 .. Len(es) - 1 /\ m \in 1 .. Len(es) /\ m + 1 \in 1 .. Len(es)
      <4>1. Len(es) \in Nat
        BY <1>1
      <4>2. Len(w) = Len(es) - 1
        BY <1>5
      <4> QED
        BY <4>1, <4>2
    <3>0. (m < k => w[m] = es[m]) /\ (~ (m < k) => w[m] = es[m + 1])
      <4>1. m \in 1 .. Len(es) - 1
        BY <3>1
      <4> QED
        BY <1>6, <4>1, Zenon
    <3>2. CASE m < k
      <4>1. w[m] = es[m]
        BY <3>0, <3>2, Zenon
      <4> QED
        BY <3>1, <3>2, <4>1, Zenon
    <3>3. CASE ~ (m < k)
      <4>1. w[m] = es[m + 1]
        BY <3>0, <3>3, Zenon
      <4> QED
        BY <3>1, <3>3, <4>1, Zenon
    <3> QED
      BY <3>2, <3>3
  <2>2. PICK x \in 1 .. Len(es) : w[i] = es[x] /\ ((x = i /\ i < k) \/ (x = i + 1 /\ ~ (i < k)))
    BY <2>1
  <2>3. PICK y \in 1 .. Len(es) : w[j] = es[y] /\ ((y = j /\ j < k) \/ (y = j + 1 /\ ~ (j < k)))
    BY <2>1
  <2>4. x = y
    BY <1>1, <2>2, <2>3
  <2>5. i \in Int /\ j \in Int /\ k \in Int
    BY <1>1, <1>5
  <2> QED
    BY <2>2, <2>3, <2>4, <2>5
<1>8. ASSUME NEW x \in Tracked(es), x # es[k][1] PROVE x \in Tracked(w)
  <2>1. PICK i \in 1 .. Len(es) : x = es[i][1]
    BY <1>1 DEF Tracked
  <2>2. i # k
    BY <1>8, <2>1
  <2>3. DOMAIN w = 1 .. Len(es) - 1
    BY <1>5, SeqFacts
  <2> PICK j : j = IF i < k THEN i ELSE i - 1
    OBVIOUS
  <2>4. j \in 1 .. Len(es) - 1 /\ (IF j < k THEN j ELSE j + 1) = i
    BY <1>1, <2>2
  <2>5. w[j] = es[i]
    BY <1>6, <2>4
  <2> QED
    BY <2>1, <2>3, <2>4, <2>5 DEF Tracked
<1> QED
  BY <1>5, <1>7, <1>8 DEF Clock, Entries

\* The hand stops at an entry, having cleared the marks of those it passed.
LEMMA VictimFound ==
    ASSUME Clock(entries), hand \in 0 .. Len(entries), entries # <<>>
    PROVE  /\ VictimAt \in 1 .. Len(entries)
           /\ Clock(Cleared) /\ Len(Cleared) = Len(entries)
           /\ Tracked(Cleared) = Tracked(entries)
           /\ Cleared[VictimAt][1] = victim
<1>1. /\ entries \in Entries /\ Len(entries) \in Nat \ {0} /\ DOMAIN entries = 1 .. Len(entries)
      /\ \A i, j \in 1 .. Len(entries) : entries[i][1] = entries[j][1] => i = j
      /\ \A i \in 1 .. Len(entries) : /\ entries[i] \in Nat \X BOOLEAN
                                      /\ entries[i][1] \in Nat
  BY EntryFacts, EmptySeq DEF Clock, Distinct, Entries
<1>2. Start \in Nat
  BY <1>1 DEF Start
<1>3. \A i \in Nat : At(Start, i) \in 1 .. Len(entries)
  <2> TAKE i \in Nat
  <2>1. (Start + i) % Len(entries) \in 0 .. Len(entries) - 1
    <3>1. Start + i \in Nat /\ Len(entries) \in Nat \ {0}
      BY <1>1, <1>2
    <3> QED
      BY <3>1, Remainder, Zenon
  <2> QED
    BY <1>1, <2>1 DEF At
<1>4. Passed \in Nat
  <2> PICK U : U = {i \in 0 .. Len(entries) - 1 : ~ entries[At(Start, i)][2]}
    OBVIOUS
  <2>1. U \in SUBSET Nat
    OBVIOUS
  <2>2. CASE U = {}
    BY <1>1, <2>2 DEF Passed
  <2>3. CASE U # {}
    <3>1. \E i \in U : \A j \in U : i <= j
      BY <2>1, <2>3, LeastOf
    <3>2. Passed = CHOOSE i \in U : \A j \in U : i <= j
      BY <2>3 DEF Passed
    <3> PICK x : x = CHOOSE i \in U : \A j \in U : i <= j
      OBVIOUS
    <3>3. x \in U
      BY <3>1, Zenon
    <3> QED
      BY <2>1, <3>2, <3>3
  <2> QED
    BY <2>2, <2>3
<1>5. VictimAt \in 1 .. Len(entries)
  BY <1>3, <1>4 DEF VictimAt
<1> PICK fs : fs = Cleared
  OBVIOUS
<1>6. /\ fs \in [1 .. Len(entries) -> Nat \X BOOLEAN]
      /\ \A i \in 1 .. Len(entries) : fs[i][1] = entries[i][1]
  <2>1. ASSUME NEW i \in 1 .. Len(entries)
        PROVE  /\ fs[i] = <<entries[i][1], FALSE>> \/ fs[i] = entries[i]
               /\ fs[i] \in Nat \X BOOLEAN /\ fs[i][1] = entries[i][1]
    <3>1. fs[i] = <<entries[i][1], FALSE>> \/ fs[i] = entries[i]
      BY <1>1 DEF Cleared
    <3>2. \A a \in Nat : <<a, FALSE>> \in Nat \X BOOLEAN /\ <<a, FALSE>>[1] = a
      OBVIOUS
    <3>3. CASE fs[i] = <<entries[i][1], FALSE>>
      <4>1. entries[i][1] \in Nat
        BY <1>1
      <4>2. /\ <<entries[i][1], FALSE>> \in Nat \X BOOLEAN
            /\ <<entries[i][1], FALSE>>[1] = entries[i][1]
        BY <3>2, <4>1
      <4> QED
        BY <3>3, <4>2, Zenon
    <3>4. CASE fs[i] = entries[i]
      BY <1>1, <3>4
    <3> QED
      BY <3>1, <3>3, <3>4
  <2>2. fs = [i \in 1 .. Len(entries) |-> fs[i]]
    BY <1>1 DEF Cleared
  <2> QED
    BY <2>1, <2>2
<1>7. fs \in Entries /\ Len(fs) = Len(entries) /\ DOMAIN fs = 1 .. Len(entries)
  <2>1. fs \in Seq(Nat \X BOOLEAN) /\ Len(fs) = Len(entries)
    BY <1>1, <1>6, FunctionIsSeq
  <2> QED
    BY <1>6, <2>1 DEF Entries
<1>8. Distinct(fs)
  BY <1>1, <1>6, <1>7 DEF Distinct
<1>9. Tracked(fs) = Tracked(entries)
  <2> PICK D : D = 1 .. Len(entries)
    OBVIOUS
  <2>1. DOMAIN fs = D /\ DOMAIN entries = D /\ \A i \in D : fs[i][1] = entries[i][1]
    BY <1>1, <1>6, <1>7
  <2> QED
    BY <2>1 DEF Tracked
<1> QED
  BY <1>5, <1>6, <1>7, <1>8, <1>9 DEF Clock, victim

-----------------------------------------------------------------------------
(* The invariant *)

Versions == 0 .. MaxVersion

\* The file follows the changes, and what was fsynced follows the file.
FileInv ==
    /\ file \in Seq(Versions) /\ synced \in Seq(Versions) /\ latest \in Seq(Versions)
    /\ Len(file) <= MaxFilePages /\ Len(latest) = Len(file) /\ Len(synced) <= Len(file)
    /\ \A p \in 1 .. Len(synced) : synced[p] <= file[p]
    /\ \A p \in 1 .. Len(file) : file[p] <= latest[p]

\* A frame shows its page's last change, and has it if the file has not.
FrameInv ==
    /\ frames \in [Resident -> [v : Versions, dirty : BOOLEAN]]
    /\ Resident \subseteq 1 .. Len(file)
    /\ \A p \in Resident : frames[p].v = latest[p]
    /\ \A p \in 1 .. Len(file) : file[p] # latest[p] => p \in Resident /\ frames[p].dirty

\* The clock tracks every resident page, once.
ClockInv ==
    /\ Clock(entries) /\ hand \in 0 .. Len(entries)
    /\ Resident \subseteq Tracked(entries)

Operations == {"none", "load", "allocate", "shrink", "checkpoint", "truncate"}

\* A call in progress asks for pages the file has, and for no more than the pool holds.
CallInv ==
    /\ capacity \in Nat \ {0}
    /\ ahead \in [on : BOOLEAN, last : Nat, run : Nat]
    /\ call \in [op : Operations, page : Nat, span : Nat, write : BOOLEAN]
    /\ call.op = "load" =>
         /\ call.page >= 1 /\ call.span \in 1 .. capacity
         /\ call.page + call.span - 1 <= Len(file)
         /\ call.write => latest[call.page] < MaxVersion
    /\ call.op = "allocate" =>
         /\ call.page \in 1 .. Len(file) /\ call.span = 1
         /\ latest[call.page] = 0
    /\ call.op = "shrink" => call.span = 0
    /\ call.op # "shrink" => Cardinality(Resident) <= capacity

PoolInv == FileInv /\ FrameInv /\ ClockInv /\ CallInv

\* The pages of a pool in order.
LEMMA PoolFacts ==
    ASSUME FileInv, FrameInv
    PROVE  /\ MaxVersion \in Nat /\ MaxFilePages \in Nat
           /\ Len(file) \in Nat /\ Len(synced) \in Nat /\ Len(latest) = Len(file)
           /\ DOMAIN file = 1 .. Len(file) /\ DOMAIN synced = 1 .. Len(synced)
           /\ DOMAIN latest = 1 .. Len(file)
           /\ \A p \in 1 .. Len(file) : /\ file[p] \in Versions /\ file[p] \in Nat
                                        /\ latest[p] \in Versions /\ latest[p] \in Nat
           /\ \A p \in 1 .. Len(synced) : synced[p] \in Versions /\ synced[p] \in Nat
           /\ IsFiniteSet(Resident) /\ Cardinality(Resident) \in Nat
           /\ \A p \in Resident : p \in Nat /\ p \in 1 .. Len(file)
<1>1. MaxVersion \in Nat /\ MaxFilePages \in Nat
  BY PoolAssumption DEF PoolAssumption
<1>2. /\ Len(file) \in Nat /\ Len(synced) \in Nat /\ Len(latest) = Len(file)
      /\ DOMAIN file = 1 .. Len(file) /\ DOMAIN synced = 1 .. Len(synced)
      /\ DOMAIN latest = 1 .. Len(file)
      /\ \A p \in 1 .. Len(file) : file[p] \in Versions /\ latest[p] \in Versions
      /\ \A p \in 1 .. Len(synced) : synced[p] \in Versions
  BY SeqFacts DEF FileInv
<1>3. \A v \in Versions : v \in Nat
  BY <1>1 DEF Versions
<1>4. Resident \in SUBSET (1 .. Len(file))
  BY DEF FrameInv
<1>5. IsFiniteSet(1 .. Len(file))
  BY <1>2, FS_Interval
<1>6. IsFiniteSet(Resident) /\ Cardinality(Resident) \in Nat
  BY <1>4, <1>5, FS_Subset, FS_CardinalityType
<1>7. \A p \in Resident : p \in Nat /\ p \in 1 .. Len(file)
  BY <1>2, <1>4
<1> QED
  BY <1>1, <1>2, <1>3, <1>6, <1>7

\* The empty pool is in order.
LEMMA InitPoolInv == PoolInit => PoolInv
<1> SUFFICES ASSUME PoolInit PROVE PoolInv
  OBVIOUS
<1>1. /\ file = <<>> /\ synced = <<>> /\ latest = <<>> /\ entries = <<>> /\ frames = <<>>
      /\ hand = 0 /\ capacity \in Capacities /\ call = Idle
      /\ ahead = [on |-> FALSE, last |-> 0, run |-> 0]
  BY DEF PoolInit
<1>2. <<>> \in Seq(Versions) /\ <<>> \in Entries /\ Len(<<>>) = 0 /\ 1 .. 0 = {}
  BY EmptySeq DEF Entries
<1>3. DOMAIN <<>> = {} /\ <<>> \in [{} -> [v : Versions, dirty : BOOLEAN]]
  BY <1>2, SeqFacts
<1>4. FileInv
  BY <1>1, <1>2, PoolAssumption DEF FileInv, PoolAssumption
<1>5. FrameInv
  BY <1>1, <1>2, <1>3 DEF FrameInv, Resident
<1>6. ClockInv
  BY <1>1, <1>2, <1>3 DEF ClockInv, Clock, Distinct, Resident
<1>7. CallInv
  <2>1. Cardinality(Resident) = 0
    BY <1>1, <1>3, FS_EmptySet DEF Resident
  <2>2. capacity \in Nat \ {0}
    BY <1>1, PoolAssumption DEF PoolAssumption
  <2> QED
    BY <1>1, <2>1, <2>2 DEF CallInv, Idle, Operations
<1> QED
  BY <1>4, <1>5, <1>6, <1>7 DEF PoolInv

-----------------------------------------------------------------------------
(* What the steps have in common *)

\* The content of a frame reaches the file.
LEMMA WriteBack ==
    ASSUME FileInv, FrameInv, NEW p \in Resident, file' = Written(p),
           UNCHANGED <<synced, latest>>
    PROVE  /\ FileInv' /\ Len(file') = Len(file)
           /\ \A q \in 1 .. Len(file) : file'[q] = IF q = p THEN latest[p] ELSE file[q]
<1>1. /\ p \in 1 .. Len(file) /\ file \in Seq(Versions) /\ latest[p] \in Versions
      /\ frames[p].v = latest[p]
  BY PoolFacts DEF FileInv, FrameInv
<1>2. file' = [file EXCEPT ![p] = latest[p]]
  BY <1>1 DEF Written
<1>3. /\ file' \in Seq(Versions) /\ Len(file') = Len(file)
      /\ \A q \in 1 .. Len(file) : file'[q] = IF q = p THEN latest[p] ELSE file[q]
  BY <1>1, <1>2, ExceptSeq
<1>4. ASSUME NEW q \in 1 .. Len(synced') PROVE synced'[q] <= file'[q]
  <2>1. /\ q \in 1 .. Len(synced) /\ q \in 1 .. Len(file)
        /\ synced[q] <= file[q] /\ file[q] <= latest[q]
        /\ synced[q] \in Nat /\ file[q] \in Nat /\ latest[q] \in Nat
    BY PoolFacts DEF FileInv
  <2> QED
    BY <1>3, <2>1
<1>5. ASSUME NEW q \in 1 .. Len(file') PROVE file'[q] <= latest'[q]
  <2>1. /\ q \in 1 .. Len(file) /\ file[q] <= latest[q] /\ latest[q] \in Nat
    BY <1>3, PoolFacts DEF FileInv
  <2> QED
    BY <1>3, <2>1
<1> QED
  BY <1>3, <1>4, <1>5 DEF FileInv

\* A page is changed.
LEMMA OneChange ==
    ASSUME FileInv, FrameInv, NEW p \in 1 .. Len(file), latest[p] < MaxVersion,
           latest' = [latest EXCEPT ![p] = @ + 1], UNCHANGED <<file, synced>>
    PROVE  /\ FileInv'
           /\ \A q \in 1 .. Len(file) : latest'[q] = IF q = p THEN latest[p] + 1 ELSE latest[q]
<1>1. /\ latest \in Seq(Versions) /\ Len(latest) = Len(file)
      /\ latest[p] \in Nat /\ latest[p] + 1 \in Versions
  BY PoolFacts DEF FileInv, Versions
<1>2. /\ latest' \in Seq(Versions) /\ Len(latest') = Len(file)
      /\ \A q \in 1 .. Len(file) : latest'[q] = IF q = p THEN latest[p] + 1 ELSE latest[q]
  BY <1>1, ExceptSeq
<1>3. ASSUME NEW q \in 1 .. Len(file') PROVE file'[q] <= latest'[q]
  <2>1. /\ q \in 1 .. Len(file) /\ file[q] <= latest[q] /\ latest[q] \in Nat /\ file[q] \in Nat
    BY PoolFacts DEF FileInv
  <2> QED
    BY <1>2, <2>1
<1> QED
  BY <1>2, <1>3 DEF FileInv

\* A pool that is not in the middle of a call.
LEMMA IdleCall ==
    /\ Idle.op = "none" /\ Idle.page = 0 /\ Idle.span = 0
    /\ Idle \in [op : Operations, page : Nat, span : Nat, write : BOOLEAN]
    /\ \A o \in Operations :
         /\ [Idle EXCEPT !.op = o].op = o /\ [Idle EXCEPT !.op = o].span = 0
         /\ [Idle EXCEPT !.op = o] \in [op : Operations, page : Nat, span : Nat, write : BOOLEAN]
BY DEF Idle, Operations

\* A call that ends leaves the pool with room.
LEMMA CallEnds ==
    ASSUME CallInv, call' = Idle, UNCHANGED <<capacity>>,
           ahead' \in [on : BOOLEAN, last : Nat, run : Nat],
           Cardinality(Resident') <= capacity
    PROVE  CallInv'
BY IdleCall DEF CallInv

-----------------------------------------------------------------------------
(* Reading and changing a page *)

FrameType == [v : Versions, dirty : BOOLEAN]

\* A frame that is changed shows the change and is dirty.
LEMMA FrameChanged ==
    ASSUME NEW D, NEW fs \in [D -> FrameType], NEW p \in D, latest[p] + 1 \in Versions,
           NEW gs, gs = Changed(fs, p)
    PROVE  /\ gs \in [D -> FrameType] /\ DOMAIN gs = D
           /\ gs[p].v = latest[p] + 1 /\ gs[p].dirty
           /\ \A q \in D : q # p => gs[q] = fs[q]
<1> PICK e : e = [v |-> latest[p] + 1, dirty |-> TRUE]
  OBVIOUS
<1>1. e \in FrameType /\ e.v = latest[p] + 1 /\ e.dirty
  BY DEF FrameType
<1>2. gs = [fs EXCEPT ![p] = e]
  BY DEF Changed
<1> QED
  BY <1>1, <1>2

\* Clock and call after a hit.
LEMMA HitRest ==
    ASSUME ClockInv, CallInv, NEW p \in Resident, TouchedBy(entries, entries', {p}),
           call = Idle, UNCHANGED <<capacity, hand, ahead, call>>, Resident' = Resident
    PROVE  ClockInv' /\ CallInv'
<1>1. /\ Clock(entries') /\ hand' \in 0 .. Len(entries')
      /\ Resident' \subseteq Tracked(entries')
  <2>1. Len(entries) \in Nat /\ Len(entries') \in Nat
    BY EntryFacts DEF ClockInv, TouchedBy, Clock
  <2> QED
    BY <2>1 DEF ClockInv, TouchedBy
<1>2. Cardinality(Resident') <= capacity
  BY IdleCall DEF CallInv
<1>3. ahead' \in [on : BOOLEAN, last : Nat, run : Nat]
  BY DEF CallInv
<1> QED
  BY <1>1, <1>2, <1>3, CallEnds DEF ClockInv

\* A hit marks the page, and may change it.
LEMMA HitStep ==
    ASSUME PoolInv, NEW p, NEW w, hit(p, w)
    PROVE  PoolInv'
<1>1. FileInv /\ FrameInv /\ ClockInv /\ CallInv
  BY DEF PoolInv
<1>2. /\ p \in Resident /\ p \in Nat /\ p \in 1 .. Len(file)
      /\ w => latest[p] < MaxVersion
      /\ entries' = touch(entries, p)
      /\ frames' = IF w THEN Changed(frames, p) ELSE frames
      /\ latest' = IF w THEN [latest EXCEPT ![p] = @ + 1] ELSE latest
      /\ UNCHANGED <<file, synced, capacity, hand, ahead, call, pool_crashes>>
      /\ call = Idle
  BY <1>1, PoolFacts DEF hit
<1>3. TouchedBy(entries, entries', {p})
  BY <1>1, <1>2, TouchOne DEF ClockInv
<1>4. CASE w
  <2>1. /\ FileInv'
        /\ \A q \in 1 .. Len(file) : latest'[q] = IF q = p THEN latest[p] + 1 ELSE latest[q]
    BY <1>1, <1>2, <1>4, OneChange
  <2>2. latest[p] + 1 \in Versions
    BY <1>1, <1>2, <1>4, PoolFacts DEF Versions
  <2>3. frames \in [Resident -> FrameType] /\ frames' = Changed(frames, p)
    BY <1>1, <1>2, <1>4 DEF FrameInv, FrameType
  <2>4. /\ Resident' = Resident /\ frames' \in [Resident -> FrameType]
        /\ \A q \in Resident : /\ q # p => frames'[q] = frames[q]
                               /\ q = p => frames'[q].v = latest[p] + 1 /\ frames'[q].dirty
    BY <1>2, <2>2, <2>3, FrameChanged DEF Resident
  <2>5. FrameInv'
    <3>1. \A q \in Resident : frames'[q].v = latest'[q]
      BY <1>1, <2>1, <2>4, PoolFacts DEF FrameInv
    <3>2. \A q \in 1 .. Len(file) : file[q] # latest'[q] => q \in Resident /\ frames'[q].dirty
      BY <1>1, <1>2, <2>1, <2>4 DEF FrameInv
    <3> QED
      BY <1>1, <1>2, <2>4, <3>1, <3>2 DEF FrameInv, FrameType
  <2> QED
    BY <1>1, <1>2, <1>3, <2>1, <2>4, <2>5, HitRest DEF PoolInv
<1>5. CASE ~ w
  <2>1. UNCHANGED <<file, synced, latest, frames>>
    BY <1>2, <1>5
  <2>2. FileInv' /\ FrameInv'
    BY <1>1, <2>1 DEF FileInv, FrameInv, Resident
  <2>3. Resident' = Resident
    BY <2>1 DEF Resident
  <2> QED
    BY <1>1, <1>2, <1>3, <2>2, <2>3, HitRest DEF PoolInv
<1> QED
  BY <1>4, <1>5

\* Read-ahead asks for at least the page, and for no page the file or the pool lacks.
LEMMA SpanFits ==
    ASSUME CallInv, Len(file) \in Nat, NEW p \in 1 .. Len(file)
    PROVE  /\ read_ahead_span(p) \in 1 .. capacity
           /\ p + read_ahead_span(p) - 1 <= Len(file)
<1>1. /\ capacity \in Nat \ {0} /\ AheadShare \in Nat \ {0} /\ ReadAheadPages \in Nat \ {0}
  BY PoolAssumption DEF CallInv, PoolAssumption
<1> PICK d : d = capacity \div AheadShare
  OBVIOUS
<1>2. d \in 0 .. capacity
  <2>1. capacity \in Nat
    BY <1>1
  <2> QED
    BY <1>1, <2>1, Quotient, Zenon
<1> PICK x : x = IF ~ahead.on \/ RunAt(p) < RunBeforeReadAhead THEN 1
                 ELSE Larger(Smaller(ReadAheadPages, Smaller(Larger(d, 1), Len(file) - p + 1)), 1)
  OBVIOUS
<1>3. x = read_ahead_span(p)
  BY DEF read_ahead_span
<1>4. x \in 1 .. capacity /\ p + x - 1 <= Len(file)
  <2> PICK n : n = Len(file)
    OBVIOUS
  <2> PICK y : y = Larger(Smaller(ReadAheadPages, Smaller(Larger(d, 1), n - p + 1)), 1)
    OBVIOUS
  <2>1. y \in 1 .. capacity /\ p + y - 1 <= n
    BY <1>1, <1>2 DEF Larger, Smaller
  <2>2. x = 1 \/ x = y
    OBVIOUS
  <2> QED
    BY <1>1, <2>1, <2>2
<1> QED
  BY <1>3, <1>4

\* A miss starts to load the page.
LEMMA MissStep ==
    ASSUME PoolInv, NEW p, NEW w \in BOOLEAN, miss(p, w)
    PROVE  PoolInv'
<1>1. FileInv /\ FrameInv /\ ClockInv /\ CallInv
  BY DEF PoolInv
<1>2. /\ p \in 1 .. Len(file) /\ call = Idle
      /\ UNCHANGED <<file, synced, frames, capacity, clock, latest, pool_crashes>>
  BY DEF miss
<1>3. /\ Len(file) \in Nat /\ p \in Nat /\ p >= 1 /\ capacity \in Nat \ {0}
  <2>1. Len(file) \in Nat
    BY <1>1, PoolFacts
  <2> QED
    BY <1>1, <1>2, <2>1 DEF CallInv
<1>4. FileInv' /\ FrameInv' /\ ClockInv'
  BY <1>1, <1>2 DEF FileInv, FrameInv, ClockInv, Clock, Distinct, Tracked, Resident, clock
<1> PICK k : k = read_ahead_span(p)
  OBVIOUS
<1>5. k \in 1 .. capacity /\ p + k - 1 <= Len(file) /\ k \in Nat
  <2>1. k \in 1 .. capacity /\ p + k - 1 <= Len(file)
    BY <1>1, <1>2, <1>3, SpanFits
  <2> QED
    BY <1>3, <2>1
<1>6. ahead' \in [on : BOOLEAN, last : Nat, run : Nat]
  <2>1. ahead' = [ahead EXCEPT !.last = p, !.run = Smaller(RunAt(p), RunBeforeReadAhead)]
    BY DEF miss
  <2>2. Smaller(RunAt(p), RunBeforeReadAhead) \in Nat
    <3>1. RunAt(p) \in Nat
      BY <1>1 DEF RunAt, CallInv
    <3> QED
      BY <3>1, PoolAssumption DEF PoolAssumption, Smaller
  <2> QED
    BY <1>1, <1>3, <2>1, <2>2 DEF CallInv
<1>7. /\ call' \in [op : Operations, page : Nat, span : Nat, write : BOOLEAN]
      /\ call'.op = "load" /\ call'.page = p /\ call'.span = k
      /\ call'.write => latest[p] < MaxVersion
  <2>1. call' = [op |-> "load", page |-> p, span |-> k, write |-> w]
    BY DEF miss
  <2>2. w => latest[p] < MaxVersion
    BY DEF miss
  <2>3. /\ [op |-> "load", page |-> p, span |-> k, write |-> w]
              \in [op : Operations, page : Nat, span : Nat, write : BOOLEAN]
        /\ [op |-> "load", page |-> p, span |-> k, write |-> w].write = w
    BY <1>3, <1>5 DEF Operations
  <2> QED
    BY <2>1, <2>2, <2>3
<1>8. Cardinality(Resident) <= capacity
  BY <1>1, <1>2, IdleCall DEF CallInv
<1>9. capacity' = capacity /\ Len(file') = Len(file) /\ latest' = latest /\ Resident' = Resident
  BY <1>2 DEF Resident
<1>10. CallInv'
  BY <1>3, <1>5, <1>6, <1>7, <1>8, <1>9 DEF CallInv
<1> QED
  BY <1>4, <1>10 DEF PoolInv

\* The pages of a load come in; those already resident keep their frames.
LEMMA LoadStep ==
    ASSUME PoolInv, load
    PROVE  PoolInv'
<1>1. FileInv /\ FrameInv /\ ClockInv /\ CallInv
  BY DEF PoolInv
<1> PICK p, n, w : p = call.page /\ n = call.span /\ w = call.write
  OBVIOUS
<1>2. /\ p \in Nat /\ n \in 1 .. capacity /\ p >= 1 /\ p + n - 1 <= Len(file)
      /\ w => latest[p] < MaxVersion
      /\ capacity \in Nat \ {0}
  BY <1>1 DEF load, CallInv
<1>3. /\ ~ (Cardinality(Resident) + n > capacity)
      /\ entries' = touch(TouchAll(entries, p, n), p)
      /\ frames' = IF w THEN Changed(Loaded, p) ELSE Loaded
      /\ latest' = IF w THEN [latest EXCEPT ![p] = @ + 1] ELSE latest
      /\ call' = Idle
      /\ UNCHANGED <<file, synced, capacity, hand, ahead, pool_crashes>>
  BY DEF load, Crowded
<1> PICK S : S = p .. p + n - 1
  OBVIOUS
<1> PICK D : D = Resident \cup S
  OBVIOUS
<1> PICK fs : fs = Loaded
  OBVIOUS
<1>4. p \in S /\ n \in Nat
  BY <1>2
<1>5. S \subseteq 1 .. Len(file) /\ p \in 1 .. Len(file) /\ D \subseteq 1 .. Len(file)
  <2>1. Len(file) \in Nat
    BY <1>1, PoolFacts
  <2>2. S \subseteq 1 .. Len(file)
    BY <1>2, <2>1
  <2> QED
    BY <1>1, <1>4, <2>2 DEF FrameInv
<1>6. /\ fs \in [D -> FrameType]
      /\ \A q \in D : /\ q \in Resident => fs[q] = frames[q]
                      /\ q \notin Resident => fs[q].v = file[q]
  <2>1. fs = [q \in D |-> IF q \in Resident THEN frames[q] ELSE [v |-> file[q], dirty |-> FALSE]]
    BY DEF Loaded, Span
  <2>2. \A q \in D : file[q] \in Versions
    BY <1>1, <1>5, PoolFacts
  <2>3. \A x \in Versions : /\ [v |-> x, dirty |-> FALSE] \in FrameType
                            /\ [v |-> x, dirty |-> FALSE].v = x
    BY DEF FrameType
  <2>4. \A q \in Resident : frames[q] \in FrameType
    BY <1>1 DEF FrameInv, FrameType
  <2>5. \A q \in D : fs[q] \in FrameType
    BY <2>1, <2>2, <2>3, <2>4
  <2> QED
    BY <2>1, <2>2, <2>3, <2>5
<1>7. /\ \A q \in D : fs[q].v = latest[q]
      /\ \A q \in 1 .. Len(file) : file[q] # latest[q] => q \in D /\ fs[q].dirty
  <2>1. ASSUME NEW q \in D PROVE fs[q].v = latest[q]
    BY <1>1, <1>5, <1>6 DEF FrameInv
  <2>2. ASSUME NEW q \in 1 .. Len(file), file[q] # latest[q] PROVE q \in D /\ fs[q].dirty
    <3>1. q \in Resident /\ frames[q].dirty
      BY <1>1, <2>2 DEF FrameInv
    <3>2. q \in D
      BY <3>1
    <3>3. fs[q] = frames[q]
      BY <1>6, <3>1, <3>2
    <3> QED
      BY <3>1, <3>2, <3>3
  <2> QED
    BY <2>1, <2>2
<1>8. /\ frames' \in [D -> FrameType] /\ Resident' = D /\ FileInv'
      /\ \A q \in D : frames'[q].v = latest'[q]
      /\ \A q \in 1 .. Len(file) : file[q] # latest'[q] => q \in D /\ frames'[q].dirty
  <2>1. CASE w
    <3>1. /\ FileInv'
          /\ \A q \in 1 .. Len(file) : latest'[q] = IF q = p THEN latest[p] + 1 ELSE latest[q]
      BY <1>1, <1>2, <1>3, <1>5, <2>1, OneChange
    <3>2. latest[p] + 1 \in Versions
      BY <1>1, <1>2, <1>5, <2>1, PoolFacts DEF Versions
    <3>3. /\ frames' \in [D -> FrameType] /\ DOMAIN frames' = D
          /\ frames'[p].v = latest[p] + 1 /\ frames'[p].dirty
          /\ \A q \in D : q # p => frames'[q] = fs[q]
      BY <1>3, <1>4, <1>6, <2>1, <3>2, FrameChanged
    <3>4. \A q \in D : frames'[q].v = latest'[q]
      BY <1>5, <1>7, <3>1, <3>3
    <3>5. \A q \in 1 .. Len(file) : file[q] # latest'[q] => q \in D /\ frames'[q].dirty
      BY <1>4, <1>7, <3>1, <3>3
    <3> QED
      BY <3>1, <3>3, <3>4, <3>5 DEF Resident
  <2>2. CASE ~ w
    <3>1. UNCHANGED <<file, synced, latest>> /\ frames' = fs
      BY <1>3, <2>2
    <3> QED
      BY <1>1, <1>6, <1>7, <3>1 DEF FileInv, Resident
  <2> QED
    BY <2>1, <2>2
<1>9. FrameInv'
  BY <1>3, <1>5, <1>8 DEF FrameInv, FrameType
<1>10. ClockInv'
  <2> PICK es : es = TouchAll(entries, p, n)
    OBVIOUS
  <2>1. TouchedBy(entries, es, S)
    BY <1>1, <1>2, <1>4, TouchMany DEF ClockInv
  <2>2. TouchedBy(es, entries', {p})
    BY <1>2, <1>3, <2>1, TouchOne DEF TouchedBy
  <2>3. Len(entries) \in Nat /\ Len(es) \in Nat /\ Len(entries') \in Nat
    BY <1>1, <2>1, <2>2, EntryFacts DEF ClockInv, TouchedBy, Clock
  <2>4. hand' \in 0 .. Len(entries')
    BY <1>1, <1>3, <2>1, <2>2, <2>3 DEF ClockInv, TouchedBy
  <2>5. D \subseteq Tracked(entries')
    BY <1>1, <2>1, <2>2 DEF ClockInv, TouchedBy
  <2> QED
    BY <1>8, <2>2, <2>4, <2>5 DEF ClockInv, TouchedBy
<1>11. Cardinality(D) <= capacity
  <2> PICK R : R = Resident
    OBVIOUS
  <2>1. IsFiniteSet(R) /\ Cardinality(R) \in Nat
    BY <1>1, PoolFacts
  <2>2. IsFiniteSet(S) /\ Cardinality(S) = n
    <3>1. p \in Int /\ p + n - 1 \in Int /\ ~ (p > p + n - 1) /\ (p + n - 1) - p + 1 = n
      BY <1>2
    <3>2. /\ IsFiniteSet(p .. p + n - 1)
          /\ Cardinality(p .. p + n - 1) = IF p > p + n - 1 THEN 0 ELSE (p + n - 1) - p + 1
      BY <3>1, FS_Interval
    <3> QED
      BY <3>1, <3>2
  <2>3. /\ IsFiniteSet(R \cup S)
        /\ Cardinality(R \cup S) = Cardinality(R) + Cardinality(S) - Cardinality(R \cap S)
    <3>1. IsFiniteSet(R) /\ IsFiniteSet(S)
      BY <2>1, <2>2
    <3> QED
      BY <3>1, FS_Union
  <2>4. Cardinality(R \cap S) \in Nat
    <3>1. IsFiniteSet(R \cap S)
      BY <2>1, FS_Subset
    <3> QED
      BY <3>1, FS_CardinalityType
  <2>5. Cardinality(R) + n <= capacity
    BY <1>2, <1>3, <2>1
  <2> QED
    BY <1>2, <2>1, <2>2, <2>3, <2>4, <2>5
<1>12. CallInv'
  <2>1. ahead' \in [on : BOOLEAN, last : Nat, run : Nat]
    BY <1>1, <1>3 DEF CallInv
  <2> QED
    BY <1>1, <1>3, <1>8, <1>11, <2>1, CallEnds
<1> QED
  BY <1>8, <1>9, <1>10, <1>12 DEF PoolInv

-----------------------------------------------------------------------------
(* Making room *)

\* A pool that has to make room has something to evict: the error path of an empty clock
\* is not taken.
LEMMA SomethingToEvict ==
    ASSUME PoolInv, evict_one
    PROVE  entries # <<>>
<1>1. FileInv /\ FrameInv /\ ClockInv /\ CallInv
  BY DEF PoolInv
<1>2. /\ call.op \in {"load", "allocate", "shrink"} /\ Cardinality(Resident) + call.span > capacity
      /\ capacity \in Nat \ {0} /\ Cardinality(Resident) \in Nat
  BY <1>1, PoolFacts DEF evict_one, Crowded, CallInv
<1>3. call.span \in Nat /\ call.span <= capacity
  BY <1>1, <1>2 DEF CallInv
<1>4. Cardinality(Resident) # 0
  BY <1>2, <1>3
<1>5. Resident # {}
  BY <1>4, FS_EmptySet
<1>6. Tracked(entries) # {}
  BY <1>1, <1>5 DEF ClockInv
<1>7. DOMAIN entries # {}
  BY <1>6 DEF Tracked
<1>8. DOMAIN entries = 1 .. Len(entries)
  BY <1>1, EntryFacts DEF ClockInv, Clock
<1>9. Len(<<>>) = 0
  BY EmptySeq
<1> QED
  BY <1>7, <1>8, <1>9

\* One page leaves, written back if it changed.
LEMMA EvictStep ==
    ASSUME PoolInv, evict_one
    PROVE  PoolInv'
<1>1. FileInv /\ FrameInv /\ ClockInv /\ CallInv
  BY DEF PoolInv
<1>2. entries # <<>>
  BY SomethingToEvict
<1> PICK k : k = VictimAt
  OBVIOUS
<1> PICK x : x = victim
  OBVIOUS
<1>3. /\ entries' = Without(Cleared, k) /\ hand' = k - 1 /\ call' = call
      /\ UNCHANGED <<synced, capacity, ahead, latest, pool_crashes>>
      /\ call.op \in {"load", "allocate", "shrink"}
  BY <1>2 DEF evict_one
<1>4. /\ x \in Resident => /\ frames' = Outside(frames, {x})
                           /\ file' = IF frames[x].dirty THEN Written(x) ELSE file
      /\ x \notin Resident => frames' = frames /\ file' = file
  BY <1>2 DEF evict_one
<1>5. /\ k \in 1 .. Len(entries) /\ Clock(Cleared) /\ Len(Cleared) = Len(entries)
      /\ Tracked(Cleared) = Tracked(entries) /\ Cleared[k][1] = x
  BY <1>1, <1>2, VictimFound DEF ClockInv
<1> PICK es : es = Cleared
  OBVIOUS
<1>6. /\ Clock(entries') /\ Len(entries') = Len(entries) - 1
      /\ Tracked(entries) \ {x} \subseteq Tracked(entries')
  <2>1. Clock(es) /\ k \in 1 .. Len(es) /\ entries' = Without(es, k) /\ es[k][1] = x
    BY <1>3, <1>5
  <2>2. /\ Clock(entries') /\ Len(entries') = Len(es) - 1
        /\ Tracked(es) \ {es[k][1]} \subseteq Tracked(entries')
    BY <2>1, WithoutOne
  <2> QED
    BY <1>5, <2>1, <2>2
<1>7. Resident' = Resident \ {x} /\ \A q \in Resident' : frames'[q] = frames[q]
  <2>1. CASE x \in Resident
    BY <1>4, <2>1 DEF Resident, Outside
  <2>2. CASE x \notin Resident
    BY <1>4, <2>2 DEF Resident
  <2> QED
    BY <2>1, <2>2
<1>8. frames' \in [Resident' -> [v : Versions, dirty : BOOLEAN]]
  <2>1. CASE x \in Resident
    BY <1>1, <1>4, <2>1 DEF Resident, Outside, FrameInv
  <2>2. CASE x \notin Resident
    BY <1>1, <1>4, <2>2 DEF Resident, FrameInv
  <2> QED
    BY <2>1, <2>2
<1>9. /\ FileInv' /\ Len(file') = Len(file)
      /\ \A q \in 1 .. Len(file) :
           \/ file'[q] = file[q] /\ (q = x /\ x \in Resident => ~ frames[x].dirty)
           \/ q = x /\ file'[q] = latest[q]
  <2>1. CASE x \in Resident /\ frames[x].dirty
    <3>1. file' = Written(x) /\ UNCHANGED <<synced, latest>>
      BY <1>3, <1>4, <2>1
    <3>2. /\ FileInv' /\ Len(file') = Len(file)
          /\ \A q \in 1 .. Len(file) : file'[q] = IF q = x THEN latest[x] ELSE file[q]
      BY <1>1, <2>1, <3>1, WriteBack
    <3> QED
      BY <3>2
  <2>2. CASE ~ (x \in Resident /\ frames[x].dirty)
    <3>1. UNCHANGED <<file, synced, latest>>
      BY <1>3, <1>4, <2>2
    <3>2. FileInv'
      BY <1>1, <3>1 DEF FileInv
    <3> QED
      BY <2>2, <3>1, <3>2
  <2> QED
    BY <2>1, <2>2
<1>10. FrameInv'
  <2>1. Resident' \subseteq 1 .. Len(file')
    BY <1>1, <1>7, <1>9 DEF FrameInv
  <2>2. \A q \in Resident' : frames'[q].v = latest'[q]
    BY <1>1, <1>3, <1>7 DEF FrameInv
  <2>3. ASSUME NEW q \in 1 .. Len(file'), file'[q] # latest'[q]
        PROVE  q \in Resident' /\ frames'[q].dirty
    <3>1. file'[q] = file[q] /\ (q = x /\ x \in Resident => ~ frames[x].dirty)
      BY <1>3, <1>9, <2>3
    <3>2. q \in Resident /\ frames[q].dirty
      BY <1>1, <1>3, <1>9, <2>3, <3>1 DEF FrameInv
    <3> QED
      BY <1>7, <3>1, <3>2
  <2> QED
    BY <1>8, <2>1, <2>2, <2>3 DEF FrameInv
<1>11. ClockInv'
  <2>1. hand' \in 0 .. Len(entries')
    <3>1. Len(entries) \in Nat
      BY <1>1, EntryFacts DEF ClockInv, Clock
    <3> QED
      BY <1>3, <1>5, <1>6, <3>1
  <2>2. Resident' \subseteq Tracked(entries')
    BY <1>1, <1>6, <1>7 DEF ClockInv
  <2> QED
    BY <1>6, <2>1, <2>2 DEF ClockInv
<1>12. CallInv'
  <2> PICK R, Q : R = Resident /\ Q = Resident'
    OBVIOUS
  <2>1. IsFiniteSet(R) /\ Q \in SUBSET R /\ Cardinality(R) \in Nat
    BY <1>1, <1>7, PoolFacts
  <2>2. Cardinality(Q) <= Cardinality(R) /\ Cardinality(Q) \in Nat
    BY <2>1, FS_Subset, FS_CardinalityType
  <2>3. call.op # "shrink" => Cardinality(Resident') <= capacity
    <3>1. capacity \in Nat
      BY <1>1 DEF CallInv
    <3> QED
      BY <1>1, <2>1, <2>2, <3>1 DEF CallInv
  <2> QED
    BY <1>1, <1>3, <1>9, <2>3 DEF CallInv
<1> QED
  BY <1>9, <1>10, <1>11, <1>12 DEF PoolInv

-----------------------------------------------------------------------------
(* Growing, resizing, flushing, truncating *)

\* The file grows by a fresh page.
LEMMA AllocateStep ==
    ASSUME PoolInv, allocate
    PROVE  PoolInv'
<1>1. FileInv /\ FrameInv /\ ClockInv /\ CallInv
  BY DEF PoolInv
<1> PICK n : n = Len(file)
  OBVIOUS
<1>2. /\ n < MaxFilePages /\ file' = Append(file, 0) /\ latest' = Append(latest, 0)
      /\ call' = [op |-> "allocate", page |-> n + 1, span |-> 1, write |-> FALSE]
      /\ UNCHANGED <<synced, frames, capacity, clock, ahead, pool_crashes>>
      /\ call = Idle
  BY DEF allocate
<1>3. /\ n \in Nat /\ Len(synced) \in Nat /\ MaxFilePages \in Nat /\ MaxVersion \in Nat
      /\ Len(latest) = n /\ Len(synced) <= n
      /\ file \in Seq(Versions) /\ latest \in Seq(Versions) /\ 0 \in Versions
  BY <1>1, PoolFacts DEF FileInv, Versions
<1>4. /\ file' \in Seq(Versions) /\ Len(file') = n + 1
      /\ \A i \in 1 .. n : file'[i] = file[i]
      /\ file'[n + 1] = 0
  BY <1>2, <1>3, AppendFacts
<1>5. /\ latest' \in Seq(Versions) /\ Len(latest') = n + 1
      /\ \A i \in 1 .. n : latest'[i] = latest[i]
      /\ latest'[n + 1] = 0
  BY <1>2, <1>3, AppendFacts
<1>6. \A i \in 1 .. n + 1 : i \in 1 .. n \/ i = n + 1
  BY <1>3
<1>7. FileInv'
  <2>1. \A p \in 1 .. Len(synced') : synced'[p] <= file'[p]
    BY <1>1, <1>2, <1>3, <1>4 DEF FileInv
  <2>2. \A p \in 1 .. Len(file') : file'[p] <= latest'[p]
    BY <1>1, <1>4, <1>5, <1>6 DEF FileInv
  <2> QED
    BY <1>1, <1>2, <1>3, <1>4, <1>5, <2>1, <2>2 DEF FileInv
<1>8. Resident' = Resident /\ Resident \subseteq 1 .. n
  BY <1>1, <1>2 DEF Resident, FrameInv
<1>9. FrameInv'
  <2>1. Resident' \subseteq 1 .. Len(file')
    BY <1>3, <1>4, <1>8
  <2>2. \A p \in Resident' : frames'[p].v = latest'[p]
    BY <1>1, <1>2, <1>5, <1>8 DEF FrameInv
  <2>3. \A p \in 1 .. Len(file') : file'[p] # latest'[p] => p \in Resident' /\ frames'[p].dirty
    BY <1>1, <1>2, <1>4, <1>5, <1>6, <1>8 DEF FrameInv
  <2>4. frames' \in [Resident' -> [v : Versions, dirty : BOOLEAN]]
    BY <1>1, <1>2, <1>8 DEF FrameInv
  <2> QED
    BY <2>1, <2>2, <2>3, <2>4 DEF FrameInv
<1>10. ClockInv'
  BY <1>1, <1>2, <1>8 DEF ClockInv, Clock, Distinct, Tracked, clock
<1>11. CallInv'
  <2>1. /\ call' \in [op : Operations, page : Nat, span : Nat, write : BOOLEAN]
        /\ call'.op = "allocate" /\ call'.page = n + 1 /\ call'.span = 1
    BY <1>2, <1>3 DEF Operations
  <2>2. Cardinality(Resident) <= capacity
    BY <1>1, <1>2, IdleCall DEF CallInv
  <2>3. n + 1 \in 1 .. Len(file')
    BY <1>3, <1>4
  <2> QED
    BY <1>1, <1>2, <1>5, <1>8, <2>1, <2>2, <2>3 DEF CallInv
<1> QED
  BY <1>7, <1>9, <1>10, <1>11 DEF PoolInv

\* The fresh page gets a frame.
LEMMA AllocatedStep ==
    ASSUME PoolInv, allocated
    PROVE  PoolInv'
<1>1. FileInv /\ FrameInv /\ ClockInv /\ CallInv
  BY DEF PoolInv
<1> PICK p : p = call.page
  OBVIOUS
<1>2. /\ p \in 1 .. Len(file) /\ call.span = 1 /\ latest[p] = 0
      /\ ~ (Cardinality(Resident) + 1 > capacity)
      /\ frames' = With(frames, p, [v |-> 0, dirty |-> TRUE])
      /\ entries' = touch(entries, p) /\ call' = Idle
      /\ UNCHANGED <<file, synced, capacity, hand, ahead, latest, pool_crashes>>
  BY <1>1 DEF allocated, CallInv, Crowded
<1>3. p \in Nat /\ Len(file) \in Nat /\ 0 \in Versions /\ capacity \in Nat
  BY <1>1, <1>2, PoolFacts DEF Versions, CallInv
<1> PICK D : D = Resident \cup {p}
  OBVIOUS
<1>4. /\ Resident' = D /\ frames' \in [D -> FrameType]
      /\ \A q \in D : /\ q # p => q \in Resident /\ frames'[q] = frames[q]
                      /\ q = p => frames'[q].v = 0 /\ frames'[q].dirty
  <2> PICK e : e = [v |-> 0, dirty |-> TRUE]
    OBVIOUS
  <2>1. e \in FrameType /\ e.v = 0 /\ e.dirty
    BY <1>3 DEF FrameType
  <2>2. frames' = [q \in D |-> IF q = p THEN e ELSE frames[q]]
    BY <1>2 DEF With, Resident
  <2>3. \A q \in Resident : frames[q] \in FrameType
    BY <1>1 DEF FrameInv, FrameType
  <2>4. \A q \in D : /\ frames'[q] \in FrameType
                     /\ q # p => q \in Resident /\ frames'[q] = frames[q]
                     /\ q = p => frames'[q] = e
    BY <2>1, <2>2, <2>3
  <2>5. DOMAIN frames' = D /\ frames' = [q \in D |-> frames'[q]]
    BY <2>2
  <2> QED
    BY <2>1, <2>4, <2>5 DEF Resident
<1>5. FileInv'
  BY <1>1, <1>2 DEF FileInv
<1>6. FrameInv'
  <2>1. D \subseteq 1 .. Len(file)
    BY <1>1, <1>2 DEF FrameInv
  <2>2. \A q \in D : frames'[q].v = latest[q]
    BY <1>1, <1>2, <1>4 DEF FrameInv
  <2>3. \A q \in 1 .. Len(file) : file[q] # latest[q] => q \in D /\ frames'[q].dirty
    BY <1>1, <1>4 DEF FrameInv
  <2> QED
    BY <1>2, <1>4, <2>1, <2>2, <2>3 DEF FrameInv, FrameType
<1>7. ClockInv'
  <2>1. TouchedBy(entries, entries', {p})
    BY <1>1, <1>2, <1>3, TouchOne DEF ClockInv
  <2>2. Len(entries) \in Nat /\ Len(entries') \in Nat
    BY <1>1, <2>1, EntryFacts DEF ClockInv, TouchedBy, Clock
  <2>3. hand' \in 0 .. Len(entries')
    BY <1>1, <1>2, <2>1, <2>2 DEF ClockInv, TouchedBy
  <2>4. D \subseteq Tracked(entries')
    BY <1>1, <2>1 DEF ClockInv, TouchedBy
  <2> QED
    BY <1>4, <2>1, <2>3, <2>4 DEF ClockInv, TouchedBy
<1>8. Cardinality(D) <= capacity
  <2> PICK R : R = Resident
    OBVIOUS
  <2>1. IsFiniteSet(R) /\ Cardinality(R) \in Nat /\ Cardinality(R) + 1 <= capacity
    <3>1. IsFiniteSet(R) /\ Cardinality(R) \in Nat
      BY <1>1, PoolFacts
    <3> QED
      BY <1>2, <1>3, <3>1
  <2>2. Cardinality(R \cup {p}) = IF p \in R THEN Cardinality(R) ELSE Cardinality(R) + 1
    BY <2>1, FS_AddElement
  <2> QED
    BY <1>3, <2>1, <2>2
<1>9. CallInv'
  <2>1. ahead' \in [on : BOOLEAN, last : Nat, run : Nat]
    BY <1>1, <1>2 DEF CallInv
  <2> QED
    BY <1>1, <1>2, <1>4, <1>8, <2>1, CallEnds
<1> QED
  BY <1>5, <1>6, <1>7, <1>9 DEF PoolInv

\* A step that only moves the call on.
LEMMA OnlyTheCall ==
    ASSUME FileInv, FrameInv, ClockInv, UNCHANGED <<file, synced, frames, clock, latest>>, CallInv'
    PROVE  PoolInv'
BY DEF PoolInv, FileInv, FrameInv, ClockInv, Clock, Distinct, Tracked, Resident, clock

\* The calls that start or end with nothing but a change of the pool's settings.
LEMMA SettingsStep ==
    ASSUME PoolInv,
           \/ \E n \in Capacities : set_capacity(n)
           \/ shrunk
           \/ \E on \in BOOLEAN : set_read_ahead(on)
           \/ checkpoint
           \/ \E n \in 0 .. MaxFilePages : truncate_to(n)
    PROVE  PoolInv'
<1>1. FileInv /\ FrameInv /\ ClockInv /\ CallInv /\ Cardinality(Resident) \in Nat
  BY PoolFacts DEF PoolInv
<1>2. ASSUME NEW n \in Capacities, set_capacity(n) PROVE PoolInv'
  <2>1. /\ capacity' = n /\ call' = [Idle EXCEPT !.op = "shrink"] /\ ahead' = ahead
        /\ UNCHANGED <<file, synced, frames, clock, latest>>
    BY <1>2 DEF set_capacity
  <2>2. "shrink" \in Operations /\ n \in Nat \ {0}
    BY PoolAssumption DEF PoolAssumption, Operations
  <2>3. /\ call' \in [op : Operations, page : Nat, span : Nat, write : BOOLEAN]
        /\ call'.op = "shrink" /\ call'.span = 0
    BY <2>1, <2>2, IdleCall
  <2>4. CallInv'
    BY <1>1, <2>1, <2>2, <2>3 DEF CallInv
  <2> QED
    BY <1>1, <2>1, <2>4, OnlyTheCall
<1>3. CASE shrunk
  <2>1. /\ call.op = "shrink" /\ ~ (Cardinality(Resident) + call.span > capacity) /\ call' = Idle
        /\ UNCHANGED <<file, synced, frames, clock, latest>> /\ UNCHANGED <<capacity, ahead>>
    BY <1>3 DEF shrunk, Crowded
  <2>2. Cardinality(Resident') <= capacity
    <3>1. call.span = 0 /\ capacity \in Nat /\ Resident' = Resident
      BY <1>1, <2>1 DEF CallInv, Resident
    <3> QED
      BY <1>1, <2>1, <3>1
  <2>3. ahead' \in [on : BOOLEAN, last : Nat, run : Nat]
    BY <1>1, <2>1 DEF CallInv
  <2>4. CallInv'
    BY <1>1, <2>1, <2>2, <2>3, CallEnds
  <2> QED
    BY <1>1, <2>1, <2>4, OnlyTheCall
<1>4. ASSUME NEW on \in BOOLEAN, set_read_ahead(on) PROVE PoolInv'
  <2>1. /\ ahead' = [on |-> on, last |-> 0, run |-> 0] /\ call = Idle /\ call' = Idle
        /\ UNCHANGED <<file, synced, frames, clock, latest>> /\ UNCHANGED <<capacity>>
    BY <1>4 DEF set_read_ahead
  <2>2. ahead' \in [on : BOOLEAN, last : Nat, run : Nat]
    BY <2>1
  <2>3. Cardinality(Resident') <= capacity
    BY <1>1, <2>1, IdleCall DEF CallInv, Resident
  <2>4. CallInv'
    BY <1>1, <2>1, <2>2, <2>3, CallEnds
  <2> QED
    BY <1>1, <2>1, <2>4, OnlyTheCall
<1>5. ASSUME NEW op \in {"checkpoint", "truncate"}, call = Idle,
             call'.op = op,
             call' \in [op : Operations, page : Nat, span : Nat, write : BOOLEAN],
             UNCHANGED <<file, synced, frames, capacity, clock, ahead, latest, pool_crashes>>
      PROVE  PoolInv'
  <2>1. Cardinality(Resident') <= capacity
    BY <1>1, <1>5, IdleCall DEF CallInv, Resident
  <2>2. CallInv'
    BY <1>1, <1>5, <2>1 DEF CallInv
  <2> QED
    BY <1>1, <1>5, <2>2, OnlyTheCall
<1>6. CASE checkpoint
  <2>1. /\ call = Idle /\ call' = [Idle EXCEPT !.op = "checkpoint"]
        /\ UNCHANGED <<file, synced, frames, capacity, clock, ahead, latest, pool_crashes>>
    BY <1>6 DEF checkpoint
  <2>2. "checkpoint" \in Operations
    BY DEF Operations
  <2>3. /\ call'.op = "checkpoint"
        /\ call' \in [op : Operations, page : Nat, span : Nat, write : BOOLEAN]
    BY <2>1, <2>2, IdleCall
  <2> QED
    BY <1>5, <2>1, <2>3
<1>7. ASSUME NEW n \in 0 .. MaxFilePages, truncate_to(n) PROVE PoolInv'
  <2>1. /\ call = Idle /\ call' = [Idle EXCEPT !.op = "truncate", !.page = n]
        /\ UNCHANGED <<file, synced, frames, capacity, clock, ahead, latest, pool_crashes>>
    BY <1>7 DEF truncate_to
  <2>2. n \in Nat
    BY PoolAssumption DEF PoolAssumption
  <2>3. /\ call'.op = "truncate"
        /\ call' \in [op : Operations, page : Nat, span : Nat, write : BOOLEAN]
    BY <2>1, <2>2 DEF Idle, Operations
  <2> QED
    BY <1>5, <2>1, <2>3
<1> QED
  BY <1>2, <1>3, <1>4, <1>6, <1>7

\* A dirty page is written and stays resident, clean.
LEMMA FlushStep ==
    ASSUME PoolInv, NEW p, flush_page(p)
    PROVE  PoolInv'
<1>1. FileInv /\ FrameInv /\ ClockInv /\ CallInv
  BY DEF PoolInv
<1>2. /\ call.op \in {"checkpoint", "truncate"} /\ p \in Resident /\ frames[p].dirty
      /\ file' = Written(p) /\ frames' = [frames EXCEPT ![p].dirty = FALSE]
      /\ UNCHANGED <<synced, latest>>
      /\ UNCHANGED <<capacity, clock, ahead, call, pool_crashes>>
  BY DEF flush_page, Dirty
<1>3. /\ FileInv' /\ Len(file') = Len(file)
      /\ \A q \in 1 .. Len(file) : file'[q] = IF q = p THEN latest[p] ELSE file[q]
  BY <1>1, <1>2, WriteBack
<1>4. /\ Resident' = Resident /\ frames' \in [Resident -> FrameType]
      /\ \A q \in Resident : frames'[q].v = frames[q].v
      /\ \A q \in Resident : q # p => frames'[q] = frames[q]
  <2>1. frames \in [Resident -> FrameType]
    BY <1>1 DEF FrameInv, FrameType
  <2> PICK e : e = [frames[p] EXCEPT !.dirty = FALSE]
    OBVIOUS
  <2>2. e \in FrameType /\ e.v = frames[p].v
    BY <1>2, <2>1 DEF FrameType
  <2>3. frames' = [frames EXCEPT ![p] = e]
    BY <1>2
  <2> QED
    BY <1>2, <2>1, <2>2, <2>3 DEF Resident
<1>5. FrameInv'
  <2>1. \A q \in Resident : frames'[q].v = latest[q]
    BY <1>1, <1>4 DEF FrameInv
  <2>2. \A q \in 1 .. Len(file) : file'[q] # latest[q] => q \in Resident /\ frames'[q].dirty
    BY <1>1, <1>3, <1>4 DEF FrameInv
  <2> QED
    BY <1>1, <1>2, <1>3, <1>4, <2>1, <2>2 DEF FrameInv, FrameType
<1>6. ClockInv'
  BY <1>1, <1>2, <1>4 DEF ClockInv, Clock, Distinct, Tracked, clock
<1>7. CallInv'
  BY <1>1, <1>2, <1>3, <1>4 DEF CallInv
<1> QED
  BY <1>3, <1>5, <1>6, <1>7 DEF PoolInv

\* With no dirty page left, the file holds every last change.
LEMMA CleanFile ==
    ASSUME FileInv, FrameInv, Dirty = {}
    PROVE  file = latest
<1>1. \A p \in 1 .. Len(file) : file[p] = latest[p]
  BY DEF Dirty, FrameInv
<1> QED
  BY <1>1, SeqEqual DEF FileInv

\* A checkpoint ends with an fsync.
LEMMA CheckpointStep ==
    ASSUME PoolInv, checkpointed
    PROVE  PoolInv'
<1>1. FileInv /\ FrameInv /\ ClockInv /\ CallInv
  BY DEF PoolInv
<1>2. /\ call.op = "checkpoint" /\ synced' = file /\ call' = Idle
      /\ UNCHANGED <<file, frames, capacity, clock, ahead, latest, pool_crashes>>
  BY DEF checkpointed, sync
<1>3. Resident' = Resident
  BY <1>2 DEF Resident
<1>4. FileInv'
  <2>1. \A p \in 1 .. Len(file) : file[p] <= file[p]
    BY <1>1, PoolFacts
  <2>2. Len(file) <= Len(file)
    BY <1>1, PoolFacts
  <2> QED
    BY <1>1, <1>2, <2>1, <2>2 DEF FileInv
<1>5. FrameInv' /\ ClockInv'
  BY <1>1, <1>2, <1>3 DEF FrameInv, ClockInv, Clock, Distinct, Tracked, clock
<1>6. CallInv'
  <2>1. Cardinality(Resident') <= capacity /\ ahead' \in [on : BOOLEAN, last : Nat, run : Nat]
    BY <1>1, <1>2, <1>3 DEF CallInv
  <2> QED
    BY <1>1, <1>2, <2>1, CallEnds
<1> QED
  BY <1>4, <1>5, <1>6 DEF PoolInv

\* A truncation ends with a shorter file, and no frame beyond it.
LEMMA TruncateStep ==
    ASSUME PoolInv, truncated
    PROVE  PoolInv'
<1>1. FileInv /\ FrameInv /\ ClockInv /\ CallInv
  BY DEF PoolInv
<1> PICK n : n = call.page
  OBVIOUS
<1> PICK m : m = Smaller(n, Len(file))
  OBVIOUS
<1>2. /\ call.op = "truncate" /\ Dirty = {} /\ call' = Idle
      /\ file' = SubSeq(file, 1, m) /\ synced' = SubSeq(file, 1, m)
      /\ latest' = SubSeq(latest, 1, m)
      /\ frames' = Outside(frames, {p \in Pages : p > n})
      /\ UNCHANGED <<capacity, clock, ahead, pool_crashes>>
  BY <1>1 DEF truncated, Retained, FileInv
<1>3. /\ n \in Nat /\ Len(file) \in Nat /\ m \in Nat /\ m \in 0 .. Len(file) /\ m <= Len(file)
      /\ Len(file) <= MaxFilePages /\ MaxFilePages \in Nat
      /\ m = n \/ m = Len(file)
      /\ file \in Seq(Versions) /\ latest \in Seq(Versions) /\ Len(latest) = Len(file)
  <2>1. n \in Nat /\ Len(file) \in Nat
    BY <1>1, PoolFacts DEF CallInv
  <2>2. m \in 0 .. Len(file) /\ (m = n \/ m = Len(file))
    BY <2>1 DEF Smaller
  <2> QED
    BY <1>1, <2>1, <2>2, PoolFacts DEF FileInv
<1>4. file = latest
  BY <1>1, <1>2, CleanFile
<1>5. /\ file' \in Seq(Versions) /\ Len(file') = m
      /\ \A i \in 1 .. m : file'[i] = file[i]
  BY <1>2, <1>3, PrefixFacts
<1>6. synced' = file' /\ latest' = file'
  BY <1>2, <1>4
<1>7. \A i \in 1 .. m : file'[i] \in Nat
  BY <1>1, <1>3, <1>5, PoolFacts
<1>8. FileInv'
  <2>1. Len(file') <= MaxFilePages
    BY <1>3, <1>5
  <2>2. \A p \in 1 .. Len(file') : file'[p] <= file'[p]
    BY <1>5, <1>7
  <2> QED
    BY <1>3, <1>5, <1>6, <2>1, <2>2 DEF FileInv
<1>9. /\ Resident' = Resident \ {p \in Pages : p > n}
      /\ \A p \in Resident' : frames'[p] = frames[p]
      /\ frames' = [p \in Resident' |-> frames'[p]]
  BY <1>2 DEF Outside, Resident
<1>10. Resident' \subseteq 1 .. m
  <2> SUFFICES ASSUME NEW p \in Resident' PROVE p \in 1 .. m
    OBVIOUS
  <2>1. p \in Resident /\ p \in Nat /\ p \in 1 .. Len(file)
    BY <1>1, <1>9, PoolFacts
  <2>2. p \in Pages
    BY <1>3, <2>1 DEF Pages
  <2>3. ~ (p > n)
    BY <1>9, <2>2
  <2> QED
    BY <1>3, <2>1, <2>3
<1>11. FrameInv'
  <2>1. frames' \in [Resident' -> [v : Versions, dirty : BOOLEAN]]
    BY <1>1, <1>9 DEF FrameInv
  <2>2. \A p \in Resident' : frames'[p].v = latest'[p]
    BY <1>1, <1>4, <1>5, <1>6, <1>9, <1>10 DEF FrameInv
  <2> QED
    BY <1>5, <1>6, <1>10, <2>1, <2>2 DEF FrameInv
<1>12. ClockInv'
  BY <1>1, <1>2, <1>9 DEF ClockInv, Clock, Distinct, Tracked, clock
<1>13. CallInv'
  <2> PICK R, Q : R = Resident /\ Q = Resident'
    OBVIOUS
  <2>1. IsFiniteSet(R) /\ Q \in SUBSET R /\ Cardinality(R) \in Nat /\ Cardinality(R) <= capacity
    BY <1>1, <1>2, <1>9, PoolFacts DEF CallInv
  <2>2. Cardinality(Q) <= Cardinality(R) /\ Cardinality(Q) \in Nat
    BY <2>1, FS_Subset, FS_CardinalityType
  <2>3. capacity \in Nat /\ ahead' \in [on : BOOLEAN, last : Nat, run : Nat]
    BY <1>1, <1>2 DEF CallInv
  <2>4. Cardinality(Resident') <= capacity
    BY <2>1, <2>2, <2>3
  <2> QED
    BY <1>1, <1>2, <2>3, <2>4, CallEnds
<1> QED
  BY <1>8, <1>11, <1>12, <1>13 DEF PoolInv

\* A crash keeps, of each page, what was fsynced or what was written since.
LEMMA CrashStep ==
    ASSUME PoolInv, crash
    PROVE  PoolInv' /\ Len(synced) <= Len(synced') /\ synced' = latest'
           /\ \A p \in 1 .. Len(synced) : synced'[p] >= synced[p]
<1>1. FileInv /\ FrameInv /\ ClockInv /\ CallInv
  BY DEF PoolInv
<1>2. /\ Len(file) \in Nat /\ Len(synced) \in Nat /\ Len(file) <= MaxFilePages
      /\ MaxFilePages \in Nat
      /\ \A p \in 1 .. Len(file) : file[p] \in Nat
      /\ \A p \in 1 .. Len(synced) : synced[p] \in Nat /\ synced[p] <= file[p]
      /\ DOMAIN synced = 1 .. Len(synced)
  BY <1>1, PoolFacts DEF FileInv
<1>3. PICK n \in Len(synced) .. Len(file) : \E f \in [1 .. n -> 0 .. MaxVersion] :
        /\ \A p \in 1 .. n : f[p] \in {file[p]} \cup {synced[q] : q \in {p} \cap DOMAIN synced}
        /\ file' = f /\ synced' = f /\ latest' = f
  BY DEF crash
<1>4. PICK f \in [1 .. n -> 0 .. MaxVersion] :
        /\ \A p \in 1 .. n : f[p] \in {file[p]} \cup {synced[q] : q \in {p} \cap DOMAIN synced}
        /\ file' = f /\ synced' = f /\ latest' = f
  BY <1>3
<1>5. /\ frames' = <<>> /\ entries' = <<>> /\ hand' = 0
      /\ ahead' = [on |-> FALSE, last |-> 0, run |-> 0]
      /\ call' = Idle /\ capacity' = capacity
  BY DEF crash
<1>6. n \in Nat /\ f \in Seq(Versions) /\ Len(f) = n /\ n <= MaxFilePages /\ Len(synced) <= n
  <2>1. n \in Nat /\ n <= MaxFilePages /\ Len(synced) <= n
    BY <1>2
  <2>2. f \in [1 .. n -> Versions]
    BY DEF Versions
  <2> QED
    BY <2>1, <2>2, FunctionIsSeq
<1>7. \A p \in 1 .. n : f[p] \in Nat
  BY PoolAssumption DEF PoolAssumption
<1>8. FileInv'
  <2>1. Len(f) <= Len(f) /\ \A p \in 1 .. Len(f) : f[p] <= f[p]
    BY <1>6, <1>7
  <2> QED
    BY <1>4, <1>6, <2>1 DEF FileInv
<1>9. DOMAIN <<>> = {} /\ <<>> \in [{} -> [v : Versions, dirty : BOOLEAN]] /\ <<>> \in Entries
      /\ Len(<<>>) = 0 /\ 1 .. 0 = {}
  BY EmptySeq, SeqFacts DEF Entries
<1>10. Resident' = {}
  BY <1>5, <1>9 DEF Resident
<1>11. FrameInv'
  BY <1>4, <1>5, <1>9, <1>10 DEF FrameInv
<1>12. ClockInv'
  BY <1>5, <1>9, <1>10 DEF ClockInv, Clock, Distinct
<1>13. CallInv'
  <2>1. Cardinality(Resident') = 0 /\ capacity \in Nat
    BY <1>1, <1>10, FS_EmptySet DEF CallInv
  <2>2. ahead' \in [on : BOOLEAN, last : Nat, run : Nat] /\ Cardinality(Resident') <= capacity
    BY <1>5, <2>1
  <2> QED
    BY <1>1, <1>5, <2>2, CallEnds
<1>14. ASSUME NEW p \in 1 .. Len(synced) PROVE f[p] >= synced[p]
  <2>1. p \in 1 .. n
    BY <1>2, <1>6
  <2>2. f[p] = file[p] \/ f[p] = synced[p]
    BY <1>4, <2>1
  <2>3. synced[p] \in Nat /\ synced[p] <= file[p] /\ file[p] \in Nat
    BY <1>2
  <2> QED
    BY <2>2, <2>3
<1> QED
  BY <1>4, <1>6, <1>8, <1>11, <1>12, <1>13, <1>14 DEF PoolInv

-----------------------------------------------------------------------------
(* What the steps together preserve *)

\* Every step of the pool keeps the invariant.
LEMMA PoolStep == PoolInv /\ [PoolNext]_poolvars => PoolInv'
<1> SUFFICES ASSUME PoolInv, [PoolNext]_poolvars PROVE PoolInv'
  OBVIOUS
<1>1. ASSUME NEW p \in Pages, NEW w \in BOOLEAN, hit(p, w) PROVE PoolInv'
  BY <1>1, HitStep
<1>2. ASSUME NEW p \in Pages, NEW w \in BOOLEAN, miss(p, w) PROVE PoolInv'
  BY <1>2, MissStep
<1>3. CASE evict_one
  BY <1>3, EvictStep
<1>4. CASE load
  BY <1>4, LoadStep
<1>5. CASE allocate
  BY <1>5, AllocateStep
<1>6. CASE allocated
  BY <1>6, AllocatedStep
<1>7. CASE \/ \E n \in Capacities : set_capacity(n)
           \/ shrunk
           \/ \E on \in BOOLEAN : set_read_ahead(on)
           \/ checkpoint
           \/ \E n \in 0 .. MaxFilePages : truncate_to(n)
  BY <1>7, SettingsStep
<1>8. CASE checkpointed
  BY <1>8, CheckpointStep
<1>9. ASSUME NEW p \in Pages, flush_page(p) PROVE PoolInv'
  BY <1>9, FlushStep
<1>10. CASE truncated
  BY <1>10, TruncateStep
<1>11. CASE crash
  BY <1>11, CrashStep
<1>12. CASE UNCHANGED poolvars
  <2>1. /\ UNCHANGED <<file, synced, frames, clock, latest>>
        /\ UNCHANGED <<capacity, ahead, call>>
    BY <1>12 DEF poolvars
  <2>2. CallInv'
    BY <2>1 DEF PoolInv, CallInv, Resident
  <2> QED
    BY <2>1, <2>2, OnlyTheCall DEF PoolInv
<1> QED
  BY <1>1, <1>2, <1>3, <1>4, <1>5, <1>6, <1>7, <1>8, <1>9, <1>10, <1>11, <1>12 DEF PoolNext

\* The invariant holds of the pool in any file, of any size, under any sequence of calls.
THEOREM PoolInvariance == PoolSpec => []PoolInv
<1>1. PoolInv /\ [PoolNext]_poolvars => PoolInv'
  BY PoolStep
<1> QED
  BY InitPoolInv, <1>1, PTL DEF PoolSpec

\* No change to a page is lost between its frame and the file, the pool keeps to its
\* capacity, and the clock always has a victim to offer (pager.rs: evict_one, load_run,
\* flush, truncate_to), whatever the sizes of the file, the pool and a read-ahead.
THEOREM PoolIsTrue == PoolSpec => []PoolInvariant
<1>1. ASSUME PoolInv PROVE PoolInvariant
  <2>1. FileInv /\ FrameInv /\ ClockInv /\ CallInv
    BY <1>1 DEF PoolInv
  <2>2. call.op # "failed" /\ call.op \in Operations
    BY <2>1 DEF CallInv, Operations
  <2>3. /\ Len(entries) \in Nat /\ hand \in Nat /\ hand <= Len(entries)
        /\ Len(entries) = Cardinality(Tracked(entries))
    BY <2>1, TrackedCount, EntryFacts DEF ClockInv, Clock
  <2>4. PoolTypeOK
    <3>1. \A p \in Resident : frames[p] \in [v : 0 .. MaxVersion, dirty : BOOLEAN]
      BY <2>1 DEF FrameInv, Versions
    <3> QED
      BY <2>1, <2>2, <2>3, <3>1 DEF PoolTypeOK, FileInv, FrameInv, Versions, Operations
  <2>5. NoChangeIsLost
    <3>1. DOMAIN latest = 1 .. Len(file)
      BY <2>1, PoolFacts
    <3> QED
      BY <2>1, <3>1 DEF NoChangeIsLost, FrameInv, Dirty
  <2>6. RoomIsKept
    BY <2>1, <2>2 DEF RoomIsKept, CallInv, ClockInv
  <2> QED
    BY <2>4, <2>5, <2>6 DEF PoolInvariant
<1>2. PoolInv => PoolInvariant
  BY <1>1
<1> QED
  BY <1>2, PoolInvariance, PTL

\* What one step does to the fsynced pages: the promise of CheckpointHolds.
Holding ==
    /\ call.op = "checkpoint" /\ call'.op # "checkpoint" => synced' = latest'
    /\ \A p \in DOMAIN synced :
         IF p \in DOMAIN synced' THEN synced'[p] >= synced[p] ELSE call.op = "truncate"

\* A step that leaves the fsynced pages alone, and does not end a checkpoint.
LEMMA NothingSynced ==
    ASSUME PoolInv, synced' = synced, call.op # "checkpoint" \/ call' = call
    PROVE  Holding
<1>1. \A p \in DOMAIN synced : synced[p] >= synced[p]
  BY PoolFacts DEF PoolInv
<1> QED
  BY <1>1 DEF Holding

\* A checkpoint ends with the file fsynced, and the file by then holds every change.
LEMMA CheckpointSyncs ==
    ASSUME PoolInv, checkpointed
    PROVE  Holding
<1>1. /\ FileInv /\ FrameInv /\ Dirty = {} /\ synced' = file /\ latest' = latest
  BY DEF checkpointed, sync, PoolInv
<1>2. file = latest
  BY <1>1, CleanFile
<1>3. ASSUME NEW p \in DOMAIN synced PROVE p \in DOMAIN file /\ file[p] >= synced[p]
  <2>1. /\ DOMAIN synced = 1 .. Len(synced) /\ DOMAIN file = 1 .. Len(file)
        /\ Len(file) \in Nat /\ Len(synced) \in Nat
        /\ \A q \in 1 .. Len(file) : file[q] \in Nat
        /\ \A q \in 1 .. Len(synced) : synced[q] \in Nat
    BY <1>1, PoolFacts
  <2>2. Len(synced) <= Len(file) /\ \A q \in 1 .. Len(synced) : synced[q] <= file[q]
    BY <1>1 DEF FileInv
  <2> QED
    BY <2>1, <2>2
<1> QED
  BY <1>1, <1>2, <1>3 DEF Holding

\* A truncation removes pages, and fsyncs those it keeps.
LEMMA TruncationSyncs ==
    ASSUME PoolInv, truncated
    PROVE  Holding
<1> PICK m : m = Smaller(call.page, Len(file))
  OBVIOUS
<1>1. /\ FileInv /\ FrameInv /\ CallInv /\ call.op = "truncate"
      /\ synced' = SubSeq(file, 1, m)
  BY DEF truncated, PoolInv
<1>2. /\ DOMAIN synced = 1 .. Len(synced) /\ Len(file) \in Nat /\ Len(synced) \in Nat
      /\ \A q \in 1 .. Len(file) : file[q] \in Nat
      /\ \A q \in 1 .. Len(synced) : synced[q] \in Nat
  BY <1>1, PoolFacts
<1>3. Len(synced) <= Len(file) /\ \A q \in 1 .. Len(synced) : synced[q] <= file[q]
  BY <1>1 DEF FileInv
<1>4. m \in 0 .. Len(file)
  <2>1. call.page \in Nat
    BY <1>1 DEF CallInv
  <2> QED
    BY <1>2, <2>1 DEF Smaller
<1>5. /\ DOMAIN synced' = 1 .. m
      /\ \A p \in 1 .. m : synced'[p] = file[p]
  BY <1>1, <1>2, <1>4, PrefixFacts, SeqFacts DEF FileInv
<1> QED
  BY <1>1, <1>2, <1>3, <1>4, <1>5 DEF Holding

\* A crash takes back nothing that was fsynced.
LEMMA CrashHolds ==
    ASSUME PoolInv, crash
    PROVE  Holding
<1>1. /\ PoolInv' /\ Len(synced) <= Len(synced') /\ synced' = latest'
      /\ \A p \in 1 .. Len(synced) : synced'[p] >= synced[p]
  BY CrashStep
<1>2. DOMAIN synced = 1 .. Len(synced) /\ Len(synced) \in Nat
  BY PoolFacts DEF PoolInv
<1>3. DOMAIN synced' = 1 .. Len(synced') /\ Len(synced') \in Nat
  BY <1>1, SeqFacts DEF PoolInv, FileInv
<1> QED
  BY <1>1, <1>2, <1>3 DEF Holding

\* A checkpoint that returned is beyond the reach of a crash, and nothing later brings an
\* older page back (pager.rs: checkpoint, truncate_to, evict_one).
THEOREM CheckpointsHold == PoolSpec => CheckpointHolds
<1>1. ASSUME PoolInv, [PoolNext]_poolvars PROVE Holding \/ UNCHANGED poolvars
  <2>1. ASSUME NEW p \in Pages, NEW w \in BOOLEAN, hit(p, w) \/ miss(p, w) PROVE Holding
    <3>1. synced' = synced /\ call = Idle
      BY <2>1 DEF hit, miss
    <3> QED
      BY <1>1, <3>1, NothingSynced, IdleCall
  <2>2. CASE evict_one \/ load \/ allocated \/ shrunk
    <3>1. synced' = synced /\ call.op # "checkpoint"
      BY <2>2 DEF evict_one, load, allocated, shrunk
    <3> QED
      BY <1>1, <3>1, NothingSynced
  <2>3. CASE \/ allocate \/ checkpoint
             \/ \E n \in Capacities : set_capacity(n)
             \/ \E on \in BOOLEAN : set_read_ahead(on)
             \/ \E n \in 0 .. MaxFilePages : truncate_to(n)
    <3>1. synced' = synced /\ call = Idle
      BY <2>3 DEF allocate, checkpoint, set_capacity, set_read_ahead, truncate_to
    <3> QED
      BY <1>1, <3>1, NothingSynced, IdleCall
  <2>4. ASSUME NEW p \in Pages, flush_page(p) PROVE Holding
    <3>1. synced' = synced /\ call' = call
      BY <2>4 DEF flush_page
    <3> QED
      BY <1>1, <3>1, NothingSynced
  <2>5. CASE checkpointed
    BY <1>1, <2>5, CheckpointSyncs
  <2>6. CASE truncated
    BY <1>1, <2>6, TruncationSyncs
  <2>7. CASE crash
    BY <1>1, <2>7, CrashHolds
  <2> QED
    BY <1>1, <2>1, <2>2, <2>3, <2>4, <2>5, <2>6, <2>7 DEF PoolNext
<1>2. PoolInv /\ [PoolNext]_poolvars => [Holding]_poolvars
  BY <1>1
<1>3. PoolSpec => [][Holding]_poolvars
  BY PoolInvariance, <1>2, PTL DEF PoolSpec
<1> QED
  BY <1>3 DEF CheckpointHolds, Holding

-----------------------------------------------------------------------------
(* A page: the inductive invariant *)

Indices == 0 .. MaxSlots - 1
SlotType == [off : Nat, len : Nat]

PageTyped ==
    /\ bytes \in [HeaderSize .. PageSize - 1 -> Marks \cup {SlotByte, Zero}]
    /\ slot_count \in 0 .. MaxSlots /\ free_end \in Nat
    /\ page_slots \in [Indices -> SlotType]
    /\ content \in [Indices -> PagePayloads \cup {Nothing}]
    /\ outcome \in {"ok", "error", "compacted"}

\* The slot array and the payloads do not meet, and the live payloads fit in the region
\* of the payloads.
RoomOK == free_start <= free_end /\ free_end <= PageSize /\ free_end <= Packed[MaxSlots]

\* A dead slot is vacant, a live one lies in the region of the payloads.
PlacesOK ==
    \A i \in Indices :
        /\ ~ is_live(i) => page_slots[i] = Vacant
        /\ i >= slot_count => page_slots[i] = Vacant
        /\ is_live(i) => free_end <= page_slots[i].off /\ page_slots[i].off + page_slots[i].len <= PageSize

\* The payloads of two slots do not meet.
ApartOK ==
    \A i, j \in Indices : is_live(i) /\ is_live(j) /\ i # j =>
        \/ page_slots[i].off + page_slots[i].len <= page_slots[j].off
        \/ page_slots[j].off + page_slots[j].len <= page_slots[i].off

ContentsOK ==
    \A i \in Indices :
        /\ is_live(i) <=> content[i] # Nothing
        /\ is_live(i) => /\ page_slots[i].len = content[i].len
                         /\ \A k \in page_slots[i].off .. page_slots[i].off + page_slots[i].len - 1 :
                              bytes[k] = content[i].mark

ArrayOK == \A k \in HeaderSize .. free_start - 1 : bytes[k] = SlotByte

CompactedOK ==
    outcome = "compacted" => free_end = Packed[MaxSlots] /\ (Live = {} => slot_count = 0)

PageIInv ==
    PageTyped /\ RoomOK /\ PlacesOK /\ ApartOK /\ ContentsOK /\ ArrayOK /\ CompactedOK

-----------------------------------------------------------------------------
(* Numbers and packings                                                      *)

\* A nonempty set of naturals with a bound has a greatest element.
LEMMA GreatestOf ==
    ASSUME NEW S \in SUBSET Nat, S # {}, NEW m \in Nat, \A x \in S : x <= m
    PROVE  \E x \in S : \A y \in S : y <= x
<1> PICK T : T = {m - x : x \in S}
  OBVIOUS
<1>1. T \in SUBSET Nat /\ T # {}
  <2>1. \A x \in S : x \in Nat /\ m - x \in Nat
    OBVIOUS
  <2> QED
    BY <2>1
<1>2. PICK t \in T : \A u \in T : t <= u
  BY <1>1, LeastOf
<1>3. PICK x \in S : t = m - x
  OBVIOUS
<1>4. ASSUME NEW y \in S PROVE y <= x
  <2>1. m - y \in T
    OBVIOUS
  <2>2. m - x <= m - y
    BY <1>2, <1>3, <2>1
  <2> QED
    BY <2>2
<1> QED
  BY <1>4

\* Where the live payloads of ss end when they are packed.
WidthOf(ss, i) == IF ss[i].off # 0 THEN ss[i].len ELSE 0
PackedOf(ss) ==
    LET low[n \in 0 .. MaxSlots] == IF n = 0 THEN PageSize ELSE low[n - 1] - WidthOf(ss, n - 1)
    IN low

\* The page's packing is that of its slots.
LEMMA PackedIs ==
    /\ Packed = PackedOf(page_slots) /\ Packed' = PackedOf(page_slots')
    /\ \A i : Width(i) = WidthOf(page_slots, i)
BY DEF Packed, PackedOf, Width, WidthOf, is_live

\* There is a packing of any widths.
LEMMA PackingExists ==
    ASSUME NEW w \in [Indices -> Nat]
    PROVE  \E f : f = [n \in 0 .. MaxSlots |-> IF n = 0 THEN PageSize ELSE f[n - 1] - w[n - 1]]
<1> DEFINE Good(m) ==
      \E f \in [0 .. m -> Int] : f[0] = PageSize /\ \A n \in 0 .. m : n # 0 => f[n] = f[n - 1] - w[n - 1]
<1>0. MaxSlots \in Nat /\ PageSize \in Int
  BY PageAssumption
<1>1. Good(MaxSlots)
  <2>1. SUFFICES ASSUME ~ Good(MaxSlots) PROVE FALSE
    OBVIOUS
  <2>2. PICK Bad : Bad = {m \in 0 .. MaxSlots : ~ Good(m)}
    OBVIOUS
  <2>3. Bad \in SUBSET Nat /\ Bad # {}
    <3>1. MaxSlots \in 0 .. MaxSlots /\ \A m \in 0 .. MaxSlots : m \in Nat
      BY <1>0
    <3> HIDE DEF Good
    <3> QED
      BY <2>1, <2>2, <3>1
  <2>4. PICK m \in Bad : \A x \in Bad : m <= x
    BY <2>3, LeastOf
  <2>5. m \in 0 .. MaxSlots /\ ~ Good(m)
    BY <2>2, <2>4
  <2>6. CASE m = 0
    <3>1. PICK f : f = [n \in 0 .. m |-> PageSize]
      OBVIOUS
    <3>2. f \in [0 .. m -> Int] /\ f[0] = PageSize /\ \A n \in 0 .. m : n # 0 => f[n] = f[n - 1] - w[n - 1]
      BY <1>0, <2>6, <3>1
    <3> QED
      BY <2>5, <3>2
  <2>7. CASE m # 0
    <3>1. m - 1 \in 0 .. MaxSlots /\ m \in Nat /\ m - 1 \in Indices
      BY <1>0, <2>5, <2>7 DEF Indices
    <3>2. Good(m - 1)
      BY <2>2, <2>4, <3>1
    <3>3. PICK f \in [0 .. m - 1 -> Int] :
             f[0] = PageSize /\ \A n \in 0 .. m - 1 : n # 0 => f[n] = f[n - 1] - w[n - 1]
      BY <3>2
    <3>4. PICK g : g = [n \in 0 .. m |-> IF n = m THEN f[m - 1] - w[m - 1] ELSE f[n]]
      OBVIOUS
    <3>5. g \in [0 .. m -> Int] /\ g[0] = PageSize
      BY <2>7, <3>1, <3>3, <3>4
    <3>6. ASSUME NEW n \in 0 .. m, n # 0 PROVE g[n] = g[n - 1] - w[n - 1]
      <4>1. CASE n = m
        BY <3>1, <3>4, <4>1
      <4>2. CASE n # m
        BY <3>1, <3>3, <3>4, <3>6, <4>2
      <4> QED
        BY <4>1, <4>2
    <3> QED
      BY <2>5, <3>5, <3>6
  <2> QED
    BY <2>6, <2>7
<1>2. PICK f \in [0 .. MaxSlots -> Int] :
         f[0] = PageSize /\ \A n \in 0 .. MaxSlots : n # 0 => f[n] = f[n - 1] - w[n - 1]
  BY <1>1
<1>3. f = [n \in 0 .. MaxSlots |-> IF n = 0 THEN PageSize ELSE f[n - 1] - w[n - 1]]
  BY <1>2
<1> QED
  BY <1>3

\* What the packing of the slots is.
LEMMA PackedFacts ==
    ASSUME NEW ss \in [Indices -> SlotType]
    PROVE  /\ PackedOf(ss) \in [0 .. MaxSlots -> Int]
           /\ PackedOf(ss)[0] = PageSize
           /\ \A i \in Indices : /\ WidthOf(ss, i) \in Nat /\ i \in 0 .. MaxSlots /\ i + 1 \in 0 .. MaxSlots
                                 /\ PackedOf(ss)[i + 1] = PackedOf(ss)[i] - WidthOf(ss, i)
<1>0. MaxSlots \in Nat /\ PageSize \in Int
  BY PageAssumption
<1>1. \A i \in Indices : WidthOf(ss, i) \in Nat /\ i \in 0 .. MaxSlots /\ i + 1 \in 0 .. MaxSlots /\ i \in Nat
  BY <1>0 DEF Indices, SlotType, WidthOf
<1>2. PICK w : w = [i \in Indices |-> WidthOf(ss, i)]
  OBVIOUS
<1>3. w \in [Indices -> Nat]
  BY <1>1, <1>2
<1>4. PICK f : f = [n \in 0 .. MaxSlots |-> IF n = 0 THEN PageSize ELSE f[n - 1] - w[n - 1]]
  BY <1>3, PackingExists
<1>5. f = [n \in 0 .. MaxSlots |-> IF n = 0 THEN PageSize ELSE f[n - 1] - WidthOf(ss, n - 1)]
  <2>1. \A n \in 0 .. MaxSlots : n # 0 => n - 1 \in Indices
    BY <1>0 DEF Indices
  <2> QED
    BY <1>2, <1>4, <2>1
<1>6. PICK g : g = PackedOf(ss)
  OBVIOUS
<1>7. g = [n \in 0 .. MaxSlots |-> IF n = 0 THEN PageSize ELSE g[n - 1] - WidthOf(ss, n - 1)]
  BY <1>5, <1>6 DEF PackedOf
<1>8. g[0] = PageSize /\ \A n \in 0 .. MaxSlots : n # 0 => g[n] = g[n - 1] - WidthOf(ss, n - 1)
  BY <1>0, <1>7
<1>9. \A n \in 0 .. MaxSlots : g[n] \in Int
  <2>1. PICK Bad : Bad = {n \in 0 .. MaxSlots : g[n] \notin Int}
    OBVIOUS
  <2>2. SUFFICES ASSUME Bad # {} PROVE FALSE
    BY <2>1
  <2>3. Bad \in SUBSET Nat
    BY <1>0, <2>1
  <2>4. PICK m \in Bad : \A x \in Bad : m <= x
    BY <2>2, <2>3, LeastOf
  <2>5. m \in 0 .. MaxSlots /\ g[m] \notin Int
    BY <2>1, <2>4
  <2>6. m # 0
    BY <1>0, <1>8, <2>5
  <2>7. m - 1 \in 0 .. MaxSlots /\ m - 1 \in Indices /\ ~ (m <= m - 1)
    BY <1>0, <2>5, <2>6 DEF Indices
  <2>8. g[m - 1] \in Int
    BY <2>1, <2>4, <2>7
  <2>9. g[m] = g[m - 1] - WidthOf(ss, m - 1) /\ WidthOf(ss, m - 1) \in Nat
    BY <1>1, <1>8, <2>5, <2>6, <2>7
  <2> QED
    BY <2>5, <2>8, <2>9
<1>10. g \in [0 .. MaxSlots -> Int]
  BY <1>7, <1>9
<1>11. ASSUME NEW i \in Indices PROVE g[i + 1] = g[i] - WidthOf(ss, i)
  <2>1. i + 1 \in 0 .. MaxSlots /\ i + 1 # 0 /\ (i + 1) - 1 = i
    BY <1>1
  <2> QED
    BY <1>8, <2>1
<1> QED
  BY <1>1, <1>6, <1>8, <1>10, <1>11

\* The later a slot, the lower its payload.
LEMMA PackedDescends ==
    ASSUME NEW ss \in [Indices -> SlotType], NEW a \in 0 .. MaxSlots, NEW b \in 0 .. MaxSlots, a <= b
    PROVE  PackedOf(ss)[b] <= PackedOf(ss)[a]
<1>0. MaxSlots \in Nat
  BY PageAssumption
<1>1. PICK g : g = PackedOf(ss)
  OBVIOUS
<1>2. g \in [0 .. MaxSlots -> Int] /\ \A i \in Indices : WidthOf(ss, i) \in Nat /\ g[i + 1] = g[i] - WidthOf(ss, i)
  BY <1>1, PackedFacts
<1>3. PICK Bad : Bad = {n \in a .. MaxSlots : ~ (g[n] <= g[a])}
  OBVIOUS
<1>4. SUFFICES ASSUME Bad # {} PROVE FALSE
  BY <1>0, <1>1, <1>3
<1>5. Bad \in SUBSET Nat
  BY <1>0, <1>3
<1>6. PICK m \in Bad : \A x \in Bad : m <= x
  BY <1>4, <1>5, LeastOf
<1>7. m \in a .. MaxSlots /\ ~ (g[m] <= g[a]) /\ a \in Nat
  BY <1>0, <1>3, <1>6
<1>8. m # a
  BY <1>0, <1>2, <1>7
<1>9. m - 1 \in Indices /\ m - 1 \in a .. MaxSlots /\ (m - 1) + 1 = m /\ ~ (m <= m - 1)
  BY <1>0, <1>7, <1>8 DEF Indices
<1>10. g[m - 1] <= g[a]
  BY <1>3, <1>6, <1>9
<1>11. g[m] = g[m - 1] - WidthOf(ss, m - 1) /\ WidthOf(ss, m - 1) \in Nat
  BY <1>2, <1>9
<1>12. g[m - 1] \in Int /\ g[a] \in Int
  BY <1>0, <1>2, <1>9
<1> QED
  BY <1>7, <1>10, <1>11, <1>12

\* A slot that gives up d bytes moves the ends of the slots after it by d.
LEMMA PackedChanges ==
    ASSUME NEW ss \in [Indices -> SlotType], NEW tt \in [Indices -> SlotType],
           NEW i \in Nat, NEW d \in Int,
           \A j \in Indices : WidthOf(tt, j) = WidthOf(ss, j) - (IF j = i THEN d ELSE 0)
    PROVE  \A n \in 0 .. MaxSlots : PackedOf(tt)[n] = PackedOf(ss)[n] + (IF i < n THEN d ELSE 0)
<1>0. MaxSlots \in Nat
  BY PageAssumption
<1>1. PICK g, h : g = PackedOf(ss) /\ h = PackedOf(tt)
  OBVIOUS
<1>2. /\ g \in [0 .. MaxSlots -> Int] /\ g[0] = PageSize
      /\ \A j \in Indices : WidthOf(ss, j) \in Nat /\ g[j + 1] = g[j] - WidthOf(ss, j)
  BY <1>1, PackedFacts
<1>3. /\ h \in [0 .. MaxSlots -> Int] /\ h[0] = PageSize
      /\ \A j \in Indices : WidthOf(tt, j) \in Nat /\ h[j + 1] = h[j] - WidthOf(tt, j)
  BY <1>1, PackedFacts
<1>4. PICK Bad : Bad = {n \in 0 .. MaxSlots : ~ (h[n] = g[n] + (IF i < n THEN d ELSE 0))}
  OBVIOUS
<1>5. SUFFICES ASSUME Bad # {} PROVE FALSE
  BY <1>1, <1>4
<1>6. Bad \in SUBSET Nat
  BY <1>0, <1>4
<1>7. PICK m \in Bad : \A x \in Bad : m <= x
  BY <1>5, <1>6, LeastOf
<1>8. m \in 0 .. MaxSlots /\ h[m] # g[m] + (IF i < m THEN d ELSE 0)
  BY <1>4, <1>7
<1>9. m # 0
  BY <1>0, <1>2, <1>3, <1>8
<1>10. m - 1 \in Indices /\ m - 1 \in 0 .. MaxSlots /\ (m - 1) + 1 = m /\ ~ (m <= m - 1) /\ m \in Nat
  BY <1>0, <1>8, <1>9 DEF Indices
<1>11. h[m - 1] = g[m - 1] + (IF i < m - 1 THEN d ELSE 0)
  BY <1>4, <1>7, <1>10
<1>12. g[m] = g[m - 1] - WidthOf(ss, m - 1) /\ h[m] = h[m - 1] - WidthOf(tt, m - 1)
  BY <1>2, <1>3, <1>10
<1>13. WidthOf(ss, m - 1) \in Int /\ WidthOf(tt, m - 1) = WidthOf(ss, m - 1) - (IF m - 1 = i THEN d ELSE 0)
  BY <1>2, <1>10
<1>14. g[m - 1] \in Int /\ h[m - 1] \in Int /\ m - 1 \in Int
  BY <1>2, <1>3, <1>10
<1> QED
  BY <1>8, <1>10, <1>11, <1>12, <1>13, <1>14

\* The payloads of two live slots, packed, do not meet.
LEMMA PackedApart ==
    ASSUME NEW ss \in [Indices -> SlotType], NEW i \in Indices, NEW j \in Indices, i < j
    PROVE  PackedOf(ss)[j + 1] + WidthOf(ss, j) <= PackedOf(ss)[i + 1]
<1>0. MaxSlots \in Nat /\ i \in Nat /\ j \in Nat
  BY PageAssumption DEF Indices
<1>1. i + 1 \in 0 .. MaxSlots /\ j \in 0 .. MaxSlots /\ j + 1 \in 0 .. MaxSlots /\ i + 1 <= j
  BY <1>0 DEF Indices
<1>2. PackedOf(ss)[j] <= PackedOf(ss)[i + 1]
  BY <1>1, PackedDescends
<1>3. /\ PackedOf(ss) \in [0 .. MaxSlots -> Int]
      /\ WidthOf(ss, j) \in Nat /\ PackedOf(ss)[j + 1] = PackedOf(ss)[j] - WidthOf(ss, j)
  BY PackedFacts
<1>4. PackedOf(ss)[j] \in Int /\ PackedOf(ss)[i + 1] \in Int
  BY <1>1, <1>3
<1> QED
  BY <1>2, <1>3, <1>4

\* A packed payload lies in the page, above all that follows it.
LEMMA PackedBounds ==
    ASSUME NEW ss \in [Indices -> SlotType], NEW i \in Indices
    PROVE  /\ PackedOf(ss)[i + 1] \in Int /\ PackedOf(ss)[MaxSlots] \in Int
           /\ PackedOf(ss)[MaxSlots] <= PackedOf(ss)[i + 1]
           /\ PackedOf(ss)[i + 1] + WidthOf(ss, i) <= PageSize
<1>0. MaxSlots \in Nat /\ PageSize \in Int
  BY PageAssumption
<1>1. 0 \in 0 .. MaxSlots /\ i \in 0 .. MaxSlots /\ i + 1 \in 0 .. MaxSlots /\ MaxSlots \in 0 .. MaxSlots
      /\ i + 1 <= MaxSlots /\ 0 <= i
  BY <1>0 DEF Indices
<1>2. /\ PackedOf(ss) \in [0 .. MaxSlots -> Int] /\ PackedOf(ss)[0] = PageSize
      /\ WidthOf(ss, i) \in Nat /\ PackedOf(ss)[i + 1] = PackedOf(ss)[i] - WidthOf(ss, i)
  BY PackedFacts
<1>3. PackedOf(ss)[i] <= PackedOf(ss)[0] /\ PackedOf(ss)[MaxSlots] <= PackedOf(ss)[i + 1]
  BY <1>1, PackedDescends
<1>4. PackedOf(ss)[i] \in Int /\ PackedOf(ss)[i + 1] \in Int /\ PackedOf(ss)[MaxSlots] \in Int
  BY <1>1, <1>2
<1> QED
  BY <1>0, <1>2, <1>3, <1>4

\* Where the slot array ends.
LEMMA ArrayEnds ==
    ASSUME NEW a \in Nat, NEW b \in Nat
    PROVE  /\ a * SlotSize \in Nat /\ (a + 1) * SlotSize = a * SlotSize + SlotSize
           /\ a <= b => a * SlotSize <= b * SlotSize
<1>1. SlotSize \in Nat
  BY PageAssumption
<1>2. a * SlotSize \in Nat /\ (a + 1) * SlotSize = a * SlotSize + SlotSize
  BY <1>1
<1>3. ASSUME a <= b PROVE a * SlotSize <= b * SlotSize
  <2>1. PICK c \in Nat : b = a + c
    <3>1. b - a \in Nat /\ b = a + (b - a)
      BY <1>3
    <3> QED
      BY <3>1
  <2>2. b * SlotSize = a * SlotSize + c * SlotSize
    BY <1>1, <2>1
  <2>3. c * SlotSize \in Nat
    BY <1>1
  <2> QED
    BY <1>2, <2>2, <2>3
<1> QED
  BY <1>2, <1>3

-----------------------------------------------------------------------------
(* Steps                                                                     *)

\* What the invariant says of the page as numbers.
LEMMA PageFacts ==
    ASSUME PageIInv
    PROVE  /\ slot_count \in Nat /\ slot_count <= MaxSlots /\ MaxSlots \in Nat
           /\ free_end \in Nat /\ PageSize \in Nat /\ HeaderSize \in Nat /\ 0 < HeaderSize
           /\ SlotSize \in Nat /\ 0 < SlotSize
           /\ slot_count * SlotSize \in Nat /\ free_start = HeaderSize + slot_count * SlotSize
           /\ free_start \in Nat /\ HeaderSize <= free_start /\ free_start <= free_end /\ free_end <= PageSize
           /\ free_space = free_end - free_start
           /\ Packed[MaxSlots] \in Int /\ free_end <= Packed[MaxSlots]
           /\ Packed = PackedOf(page_slots)
<1>1. slot_count \in Nat /\ slot_count <= MaxSlots /\ MaxSlots \in Nat /\ free_end \in Nat
      /\ PageSize \in Nat /\ HeaderSize \in Nat /\ 0 < HeaderSize /\ SlotSize \in Nat /\ 0 < SlotSize
      /\ page_slots \in [Indices -> SlotType]
  BY PageAssumption DEF PageIInv, PageTyped
<1>2. slot_count * SlotSize \in Nat
  BY <1>1, ArrayEnds
<1>3. free_start = HeaderSize + slot_count * SlotSize
  BY DEF free_start
<1>4. free_start <= free_end /\ free_end <= PageSize /\ free_end <= Packed[MaxSlots]
  BY DEF PageIInv, RoomOK
<1>5. free_start \in Nat /\ HeaderSize <= free_start
  BY <1>1, <1>2, <1>3
<1>6. free_space = free_end - free_start
  BY <1>1, <1>4, <1>5 DEF free_space
<1>7. Packed = PackedOf(page_slots)
  BY PackedIs
<1>8. Packed[MaxSlots] \in Int
  <2>1. MaxSlots \in 0 .. MaxSlots
    BY <1>1
  <2> QED
    BY <1>1, <1>7, <2>1, PackedFacts
<1> QED
  BY <1>1, <1>2, <1>3, <1>4, <1>5, <1>6, <1>7, <1>8

\* A call that changes no byte.
LEMMA NothingChanges ==
    ASSUME PageIInv, UNCHANGED <<bytes, slot_count, free_end, page_slots, content>>,
           outcome' \in {"ok", "error"} \/ outcome' = outcome
    PROVE  PageIInv'
<1>1. /\ bytes' = bytes /\ slot_count' = slot_count /\ free_end' = free_end /\ page_slots' = page_slots
      /\ content' = content
  OBVIOUS
<1>2. free_start' = free_start /\ Packed' = Packed /\ Live' = Live /\ \A i : is_live(i)' = is_live(i)
  BY <1>1, PackedIs DEF free_start, Live, Slots, is_live
<1>3. PageTyped' /\ RoomOK' /\ PlacesOK' /\ ApartOK' /\ ContentsOK' /\ ArrayOK'
  BY <1>1, <1>2 DEF PageIInv, PageTyped, RoomOK, PlacesOK, ApartOK, ContentsOK, ArrayOK
<1>4. CompactedOK'
  BY <1>1, <1>2 DEF PageIInv, CompactedOK
<1> QED
  BY <1>3, <1>4 DEF PageIInv

\* A payload is placed at the low end of the region of the payloads, under a slot of the
\* array or the one just made.
LEMMA PlacingKeeps ==
    ASSUME PageIInv, NEW p \in PagePayloads, NEW i \in Indices, PlaceAt(i, p),
           slot_count' \in 0 .. MaxSlots, i < slot_count',
           slot_count' = slot_count \/ (slot_count' = slot_count + 1 /\ i = slot_count),
           free_start' + p.len <= free_end, outcome' = "ok"
    PROVE  PageIInv'
<1> DEFINE off == free_end - p.len
           at == HeaderSize + i * SlotSize
           Cells == HeaderSize .. PageSize - 1
<1>1. /\ slot_count \in Nat /\ MaxSlots \in Nat /\ free_end \in Nat /\ PageSize \in Nat /\ HeaderSize \in Nat
      /\ 0 < HeaderSize /\ SlotSize \in Nat /\ 0 < SlotSize
      /\ free_start = HeaderSize + slot_count * SlotSize /\ slot_count * SlotSize \in Nat
      /\ free_start <= free_end /\ free_end <= PageSize
      /\ Packed[MaxSlots] \in Int /\ free_end <= Packed[MaxSlots] /\ Packed = PackedOf(page_slots)
  BY PageFacts
<1>2. /\ bytes \in [Cells -> Marks \cup {SlotByte, Zero}]
      /\ page_slots \in [Indices -> SlotType]
      /\ content \in [Indices -> PagePayloads \cup {Nothing}]
  BY DEF PageIInv, PageTyped
<1>3. p.mark \in Marks /\ p.len \in Nat /\ i \in Nat /\ slot_count' \in Nat
  <2>1. p.mark \in Marks /\ p.len \in Nat
    BY PageAssumption DEF PagePayloads
  <2>2. i \in Nat /\ slot_count' \in Nat
    BY <1>1 DEF Indices
  <2> QED
    BY <2>1, <2>2
<1>4. /\ i * SlotSize \in Nat /\ slot_count' * SlotSize \in Nat
      /\ free_start' = HeaderSize + slot_count' * SlotSize
      /\ (i + 1) * SlotSize = i * SlotSize + SlotSize /\ (i + 1) * SlotSize <= slot_count' * SlotSize
  <2>1. i + 1 \in Nat /\ i + 1 <= slot_count'
    BY <1>3
  <2>2. free_start' = HeaderSize + slot_count' * SlotSize
    BY DEF free_start
  <2> QED
    BY <1>3, <2>1, <2>2, ArrayEnds
<1>5. off \in Nat /\ off # 0 /\ off + p.len = free_end /\ HeaderSize <= at /\ at + SlotSize <= free_start'
      /\ free_start' <= off /\ at \in Nat /\ free_start' \in Nat
  <2>1. PICK a, b, c : a = i * SlotSize /\ b = slot_count' * SlotSize /\ c = (i + 1) * SlotSize
    OBVIOUS
  <2>2. at = HeaderSize + a /\ free_start' = HeaderSize + b /\ c = a + SlotSize /\ c <= b /\ a \in Nat /\ b \in Nat
    BY <1>4, <2>1
  <2>3. at \in Nat /\ free_start' \in Nat /\ HeaderSize <= at /\ at + SlotSize <= free_start' /\ HeaderSize <= free_start'
    BY <1>1, <2>2
  <2>4. free_start' + p.len <= free_end
    OBVIOUS
  <2> HIDE DEF at
  <2>5. off \in Nat /\ off # 0 /\ off + p.len = free_end /\ free_start' <= off
    BY <1>1, <1>3, <2>3, <2>4
  <2> QED
    BY <2>3, <2>5
<1>6. /\ bytes' = Point(Stored(bytes, off, p), i) /\ free_end' = off
      /\ page_slots' = [page_slots EXCEPT ![i] = [off |-> off, len |-> p.len]]
      /\ content' = [content EXCEPT ![i] = p]
  BY DEF PlaceAt
<1>7. /\ page_slots' \in [Indices -> SlotType]
      /\ page_slots'[i].off = off /\ page_slots'[i].len = p.len
      /\ \A j \in Indices : j # i => page_slots'[j] = page_slots[j]
  <2>1. [off |-> off, len |-> p.len] \in SlotType
    BY <1>3, <1>5 DEF SlotType
  <2> HIDE DEF off
  <2> QED
    BY <1>2, <1>6, <2>1
<1>8. /\ content' \in [Indices -> PagePayloads \cup {Nothing}]
      /\ content'[i] = p /\ \A j \in Indices : j # i => content'[j] = content[j]
  BY <1>2, <1>6
<1>9. /\ bytes' \in [Cells -> Marks \cup {SlotByte, Zero}]
      /\ \A k \in Cells : bytes'[k] = IF at <= k /\ k < at + SlotSize THEN SlotByte
                                      ELSE IF off <= k /\ k < off + p.len THEN p.mark ELSE bytes[k]
  <2>1. PICK mid : mid = Stored(bytes, off, p)
    OBVIOUS
  <2>2. mid = [k \in Cells |-> IF off <= k /\ k < off + p.len THEN p.mark ELSE bytes[k]]
    BY <1>2, <2>1 DEF Stored, Fill
  <2>3. bytes' = [k \in Cells |-> IF at <= k /\ k < at + SlotSize THEN SlotByte ELSE mid[k]]
    BY <1>6, <2>1, <2>2 DEF Point, Fill
  <2> HIDE DEF off, at
  <2> QED
    BY <1>2, <1>3, <2>2, <2>3
<1>10. \A j \in Indices : /\ is_live(j) <=> page_slots[j].off # 0
                          /\ is_live(j)' <=> page_slots'[j].off # 0
                          /\ page_slots[j].off \in Nat /\ page_slots[j].len \in Nat
  BY <1>2 DEF is_live, SlotType
<1> HIDE DEF off, at
<1>11. PageTyped'
  <2>1. slot_count' \in 0 .. MaxSlots /\ free_end' \in Nat /\ outcome' \in {"ok", "error", "compacted"}
    BY <1>5, <1>6
  <2> QED
    BY <1>7, <1>8, <1>9, <2>1 DEF PageTyped
<1>12. RoomOK'
  <2>1. PICK d : d = WidthOf(page_slots, i) - p.len
    OBVIOUS
  <2>2. WidthOf(page_slots, i) \in Nat /\ d \in Int
    <3>1. WidthOf(page_slots, i) \in Nat
      BY <1>2, PackedFacts
    <3> QED
      BY <1>3, <2>1, <3>1
  <2>3. ASSUME NEW j \in Indices
        PROVE  WidthOf(page_slots', j) = WidthOf(page_slots, j) - (IF j = i THEN d ELSE 0)
    <3>0. WidthOf(page_slots, j) \in Nat
      BY <1>2, PackedFacts
    <3>1. CASE j = i
      BY <1>3, <1>5, <1>7, <2>1, <2>2, <3>1 DEF WidthOf
    <3>2. CASE j # i
      <4>1. WidthOf(page_slots', j) = WidthOf(page_slots, j)
        BY <1>7, <3>2 DEF WidthOf
      <4> QED
        BY <3>0, <3>2, <4>1
    <3> QED
      BY <3>1, <3>2
  <2>4. MaxSlots \in 0 .. MaxSlots /\ i < MaxSlots
    BY <1>1 DEF Indices
  <2>5. PackedOf(page_slots')[MaxSlots] = PackedOf(page_slots)[MaxSlots] + d
    BY <1>2, <1>3, <1>7, <2>2, <2>3, <2>4, PackedChanges
  <2>6. Packed' = PackedOf(page_slots')
    BY PackedIs
  <2>7. free_end' <= Packed'[MaxSlots]
    BY <1>1, <1>3, <1>5, <1>6, <2>1, <2>2, <2>5, <2>6
  <2>8. free_start' <= free_end' /\ free_end' <= PageSize
    BY <1>1, <1>3, <1>5, <1>6
  <2> QED
    BY <2>7, <2>8 DEF RoomOK
<1>13. PlacesOK'
  <2>1. ASSUME NEW j \in Indices
        PROVE  /\ ~ is_live(j)' => page_slots'[j] = Vacant
               /\ j >= slot_count' => page_slots'[j] = Vacant
               /\ is_live(j)' => free_end' <= page_slots'[j].off /\ page_slots'[j].off + page_slots'[j].len <= PageSize
    <3>1. CASE j = i
      BY <1>1, <1>3, <1>5, <1>6, <1>7, <1>10, <3>1
    <3>2. CASE j # i
      <4>1. /\ ~ is_live(j) => page_slots[j] = Vacant
            /\ j >= slot_count => page_slots[j] = Vacant
            /\ is_live(j) => free_end <= page_slots[j].off /\ page_slots[j].off + page_slots[j].len <= PageSize
        BY DEF PageIInv, PlacesOK
      <4>2. page_slots'[j] = page_slots[j] /\ j \in Nat
        BY <1>1, <1>7, <3>2 DEF Indices
      <4>3. j >= slot_count' => j >= slot_count
        BY <1>1, <1>3, <4>2
      <4> QED
        BY <1>1, <1>3, <1>5, <1>6, <1>10, <4>1, <4>2, <4>3
    <3> QED
      BY <3>1, <3>2
  <2> QED
    BY <2>1 DEF PlacesOK, Vacant
<1>14. \A j \in Indices : j # i /\ is_live(j)' =>
           /\ is_live(j) /\ page_slots'[j] = page_slots[j] /\ free_end <= page_slots[j].off
           /\ page_slots[j].off + page_slots[j].len <= PageSize
  BY <1>7, <1>10 DEF PageIInv, PlacesOK
<1>15. ApartOK'
  <2>1. ASSUME NEW j \in Indices, NEW n \in Indices, is_live(j)', is_live(n)', j # n
        PROVE  \/ page_slots'[j].off + page_slots'[j].len <= page_slots'[n].off
               \/ page_slots'[n].off + page_slots'[n].len <= page_slots'[j].off
    <3>1. CASE j = i
      BY <1>5, <1>7, <1>14, <2>1, <3>1
    <3>2. CASE n = i
      BY <1>5, <1>7, <1>14, <2>1, <3>2
    <3>3. CASE j # i /\ n # i
      BY <1>14, <2>1, <3>3 DEF PageIInv, ApartOK
    <3> QED
      BY <3>1, <3>2, <3>3
  <2> QED
    BY <2>1 DEF ApartOK
<1>16. ContentsOK'
  <2>1. ASSUME NEW j \in Indices
        PROVE  is_live(j)' <=> content'[j] # Nothing
    <3>1. CASE j = i
      BY PageAssumption, <1>3, <1>5, <1>7, <1>8, <1>10, <3>1 DEF Nothing
    <3>2. CASE j # i
      BY <1>7, <1>8, <1>10, <3>2 DEF PageIInv, ContentsOK
    <3> QED
      BY <3>1, <3>2
  <2>2. ASSUME NEW j \in Indices, is_live(j)'
        PROVE  /\ page_slots'[j].len = content'[j].len
               /\ \A k \in page_slots'[j].off .. page_slots'[j].off + page_slots'[j].len - 1 :
                    bytes'[k] = content'[j].mark
    <3>1. CASE j = i
      <4>1. ASSUME NEW k \in off .. off + p.len - 1 PROVE bytes'[k] = p.mark
        <5>1. k \in Cells /\ ~ (k < at + SlotSize) /\ off <= k /\ k < off + p.len
          BY <1>1, <1>3, <1>5
        <5> QED
          BY <1>9, <5>1
      <4> QED
        BY <1>7, <1>8, <3>1, <4>1
    <3>2. CASE j # i
      <4>1. /\ is_live(j) /\ page_slots'[j] = page_slots[j] /\ content'[j] = content[j]
            /\ free_end <= page_slots[j].off /\ page_slots[j].off + page_slots[j].len <= PageSize
            /\ page_slots[j].off \in Nat /\ page_slots[j].len \in Nat
        BY <1>8, <1>10, <1>14, <2>2, <3>2
      <4>2. /\ page_slots[j].len = content[j].len
            /\ \A k \in page_slots[j].off .. page_slots[j].off + page_slots[j].len - 1 :
                 bytes[k] = content[j].mark
        BY <4>1 DEF PageIInv, ContentsOK
      <4>3. ASSUME NEW k \in page_slots[j].off .. page_slots[j].off + page_slots[j].len - 1
            PROVE  bytes'[k] = bytes[k]
        <5>1. k \in Cells /\ ~ (k < at + SlotSize) /\ ~ (k < off + p.len)
          BY <1>1, <1>3, <1>5, <4>1
        <5> QED
          BY <1>9, <5>1
      <4> QED
        BY <4>1, <4>2, <4>3
    <3> QED
      BY <3>1, <3>2
  <2> QED
    BY <2>1, <2>2 DEF ContentsOK
<1>17. ArrayOK'
  <2>1. ASSUME NEW k \in HeaderSize .. free_start' - 1 PROVE bytes'[k] = SlotByte
    <3>1. k \in Cells /\ k < off
      <4>1. PICK h, e, f, z, l : h = HeaderSize /\ e = free_start' /\ f = off /\ z = PageSize /\ l = p.len
        OBVIOUS
      <4>2. h \in Nat /\ e \in Nat /\ f \in Nat /\ z \in Nat /\ l \in Nat /\ e <= f /\ f + l <= z
        BY <1>1, <1>3, <1>5, <4>1
      <4>3. k \in h .. e - 1
        BY <4>1
      <4>4. k \in h .. z - 1 /\ k < f
        BY <4>2, <4>3
      <4> QED
        BY <4>1, <4>4
    <3>2. CASE at <= k /\ k < at + SlotSize
      BY <1>9, <3>1, <3>2
    <3>3. CASE ~ (at <= k /\ k < at + SlotSize)
      <4>1. bytes'[k] = bytes[k]
        BY <1>5, <1>9, <3>1, <3>3
      <4>2. k < free_start
        <5>1. CASE slot_count' = slot_count
          <6>1. free_start' = free_start
            BY <1>1, <1>4, <5>1
          <6> QED
            BY <1>5, <6>1
        <5>2. CASE slot_count' = slot_count + 1 /\ i = slot_count
          <6>1. at = free_start /\ free_start' = at + SlotSize
            BY <1>1, <1>4, <5>2 DEF at
          <6> QED
            BY <1>1, <1>5, <3>3, <6>1
        <5> QED
          BY <5>1, <5>2
      <4>3. k \in HeaderSize .. free_start - 1
        BY <1>1, <1>5, <4>2
      <4> QED
        BY <4>1, <4>3 DEF PageIInv, ArrayOK
    <3> QED
      BY <3>2, <3>3
  <2> QED
    BY <2>1 DEF ArrayOK
<1>18. CompactedOK'
  BY DEF CompactedOK
<1> QED
  BY <1>11, <1>12, <1>13, <1>15, <1>16, <1>17, <1>18 DEF PageIInv

\* A payload that comes in, under a dead slot or a new one.
LEMMA InsertKeeps ==
    ASSUME PageIInv, NEW p \in PagePayloads, page_insert(p)
    PROVE  PageIInv'
<1>1. CASE Fail
  BY <1>1, NothingChanges DEF Fail
<1>2. CASE /\ p.len # 0 /\ p.len <= MAX_PAYLOAD /\ free_space >= Need(p.len)
           /\ SlotFor < MaxSlots
           /\ PlaceAt(SlotFor, p)
           /\ slot_count' = IF Reusable # {} THEN slot_count ELSE slot_count + 1
           /\ outcome' = "ok"
  <2>1. /\ slot_count \in Nat /\ slot_count <= MaxSlots /\ MaxSlots \in Nat
        /\ free_end \in Nat /\ free_start \in Nat /\ free_space = free_end - free_start
        /\ free_start = HeaderSize + slot_count * SlotSize /\ HeaderSize \in Nat /\ SlotSize \in Nat
        /\ slot_count * SlotSize \in Nat
    BY PageFacts
  <2>2. p.len \in Nat
    BY PageAssumption DEF PagePayloads
  <2>3. free_start' = HeaderSize + slot_count' * SlotSize
    BY DEF free_start
  <2>4. CASE Reusable # {}
    <3>1. Reusable \in SUBSET Nat /\ \A x \in Reusable : x < slot_count
      BY <2>1 DEF Reusable, Slots
    <3>2. SlotFor \in Reusable
      <4>1. \E x \in Reusable : \A y \in Reusable : x <= y
        BY <2>4, <3>1, LeastOf
      <4> QED
        BY <2>4, <4>1 DEF SlotFor, Min
    <3>3. SlotFor \in Indices /\ SlotFor < slot_count
      BY <2>1, <3>1, <3>2 DEF Indices
    <3>4. slot_count' = slot_count /\ free_start' = free_start
      BY <1>2, <2>1, <2>3, <2>4
    <3>5. free_start' + p.len <= free_end
      BY <1>2, <2>1, <2>2, <2>4, <3>4 DEF Need
    <3>6. slot_count' \in 0 .. MaxSlots /\ SlotFor < slot_count'
      BY <2>1, <3>3, <3>4
    <3> QED
      BY <1>2, <3>3, <3>4, <3>5, <3>6, PlacingKeeps
  <2>5. CASE Reusable = {}
    <3>1. SlotFor = slot_count /\ slot_count' = slot_count + 1 /\ Need(p.len) = p.len + SlotSize
      BY <1>2, <2>5 DEF SlotFor, Need
    <3>2. slot_count' \in 0 .. MaxSlots /\ SlotFor \in Indices /\ SlotFor < slot_count'
      BY <1>2, <2>1, <3>1 DEF Indices
    <3>3. (slot_count + 1) * SlotSize = slot_count * SlotSize + SlotSize
      BY <2>1, ArrayEnds
    <3>4. free_start' = free_start + SlotSize
      <4>1. PICK a, b : a = slot_count * SlotSize /\ b = slot_count' * SlotSize
        OBVIOUS
      <4>2. b = a + SlotSize /\ a \in Nat /\ free_start' = HeaderSize + b /\ free_start = HeaderSize + a
        BY <2>1, <2>3, <3>1, <3>3, <4>1
      <4> QED
        BY <2>1, <4>2
    <3>5. free_start' + p.len <= free_end
      BY <1>2, <2>1, <2>2, <3>1, <3>4
    <3> QED
      BY <1>2, <3>1, <3>2, <3>5, PlacingKeeps
  <2> QED
    BY <2>4, <2>5
<1> QED
  BY <1>1, <1>2 DEF page_insert

\* A slot that dies: its payload stays where it is.
LEMMA DeleteKeeps ==
    ASSUME PageIInv, NEW i \in Indices, page_delete(i)
    PROVE  PageIInv'
<1>1. CASE i \notin Live /\ Fail
  BY <1>1, NothingChanges DEF Fail
<1>2. CASE /\ i \in Live
           /\ page_slots' = [page_slots EXCEPT ![i] = Vacant]
           /\ content' = [content EXCEPT ![i] = Nothing]
           /\ outcome' = "ok"
           /\ UNCHANGED <<bytes, slot_count, free_end>>
  <2>1. /\ page_slots \in [Indices -> SlotType] /\ content \in [Indices -> PagePayloads \cup {Nothing}]
        /\ bytes \in [HeaderSize .. PageSize - 1 -> Marks \cup {SlotByte, Zero}]
        /\ slot_count \in 0 .. MaxSlots /\ free_end \in Nat
    BY DEF PageIInv, PageTyped
  <2>2. /\ page_slots' \in [Indices -> SlotType] /\ page_slots'[i] = Vacant
        /\ \A j \in Indices : j # i => page_slots'[j] = page_slots[j]
    <3>1. Vacant \in SlotType
      BY DEF Vacant, SlotType
    <3> QED
      BY <1>2, <2>1, <3>1
  <2>3. /\ content' \in [Indices -> PagePayloads \cup {Nothing}] /\ content'[i] = Nothing
        /\ \A j \in Indices : j # i => content'[j] = content[j]
    BY <1>2, <2>1
  <2>4. bytes' = bytes /\ slot_count' = slot_count /\ free_end' = free_end /\ free_start' = free_start
    BY <1>2 DEF free_start
  <2>5. /\ ~ is_live(i)'
        /\ \A j \in Indices : j # i => (is_live(j)' <=> is_live(j))
    BY <2>2 DEF is_live, Vacant
  <2>6. PageTyped'
    BY <1>2, <2>1, <2>2, <2>3, <2>4 DEF PageTyped
  <2>7. RoomOK'
    <3>1. PICK d : d = WidthOf(page_slots, i)
      OBVIOUS
    <3>2. d \in Nat /\ d \in Int
      BY <2>1, <3>1, PackedFacts
    <3>3. ASSUME NEW j \in Indices
          PROVE  WidthOf(page_slots', j) = WidthOf(page_slots, j) - (IF j = i THEN d ELSE 0)
      <4>0. WidthOf(page_slots, j) \in Nat
        BY <2>1, PackedFacts
      <4>1. CASE j = i
        BY <2>2, <3>1, <3>2, <4>1 DEF WidthOf, Vacant
      <4>2. CASE j # i
        <5>1. WidthOf(page_slots', j) = WidthOf(page_slots, j)
          BY <2>2, <4>2 DEF WidthOf
        <5> QED
          BY <4>0, <4>2, <5>1
      <4> QED
        BY <4>1, <4>2
    <3>4. MaxSlots \in 0 .. MaxSlots /\ i < MaxSlots /\ i \in Nat
      BY PageAssumption DEF Indices
    <3>5. PackedOf(page_slots')[MaxSlots] = PackedOf(page_slots)[MaxSlots] + d
      BY <2>1, <2>2, <3>2, <3>3, <3>4, PackedChanges
    <3>6. Packed' = PackedOf(page_slots') /\ Packed = PackedOf(page_slots) /\ Packed[MaxSlots] \in Int
          /\ free_end <= Packed[MaxSlots] /\ free_start <= free_end /\ free_end <= PageSize
      BY PackedIs, PageFacts
    <3>7. free_end <= Packed'[MaxSlots]
      BY <2>1, <3>2, <3>5, <3>6
    <3> QED
      BY <2>4, <3>6, <3>7 DEF RoomOK
  <2>8. PlacesOK'
    BY <2>2, <2>4, <2>5 DEF PageIInv, PlacesOK
  <2>9. ApartOK'
    BY <2>2, <2>5 DEF PageIInv, ApartOK
  <2>10. ContentsOK'
    BY <2>2, <2>3, <2>4, <2>5 DEF PageIInv, ContentsOK
  <2>11. ArrayOK'
    BY <2>4 DEF PageIInv, ArrayOK
  <2>12. CompactedOK'
    BY <1>2 DEF CompactedOK
  <2> QED
    BY <2>6, <2>7, <2>8, <2>9, <2>10, <2>11, <2>12 DEF PageIInv
<1> QED
  BY <1>1, <1>2 DEF page_delete

\* A payload that is no longer than the one it replaces is written over it.
LEMMA InPlaceKeeps ==
    ASSUME PageIInv, NEW i \in Indices, NEW p \in PagePayloads, i \in Live,
           p.len <= page_slots[i].len,
           bytes' = Stored(bytes, page_slots[i].off, p),
           page_slots' = [page_slots EXCEPT ![i].len = p.len],
           content' = [content EXCEPT ![i] = p],
           outcome' = "ok", UNCHANGED <<slot_count, free_end>>
    PROVE  PageIInv'
<1> DEFINE Cells == HeaderSize .. PageSize - 1
<1>1. /\ page_slots \in [Indices -> SlotType] /\ content \in [Indices -> PagePayloads \cup {Nothing}]
      /\ bytes \in [Cells -> Marks \cup {SlotByte, Zero}]
      /\ slot_count \in 0 .. MaxSlots /\ free_end \in Nat
  BY DEF PageIInv, PageTyped
<1>2. p.mark \in Marks /\ p.len \in Nat
  BY PageAssumption DEF PagePayloads
<1>3. /\ free_start \in Nat /\ HeaderSize \in Nat /\ HeaderSize <= free_start /\ free_start <= free_end
      /\ free_end <= PageSize /\ PageSize \in Nat /\ 0 < HeaderSize
  BY PageFacts
<1>4. PICK off, len : off = page_slots[i].off /\ len = page_slots[i].len
  OBVIOUS
<1>5. off \in Nat /\ len \in Nat /\ p.len <= len /\ off # 0 /\ is_live(i)
  BY <1>1, <1>4 DEF SlotType, Live, is_live
<1>6. free_end <= off /\ off + len <= PageSize
  BY <1>4, <1>5 DEF PageIInv, PlacesOK
<1>7. /\ page_slots' \in [Indices -> SlotType]
      /\ page_slots'[i].off = off /\ page_slots'[i].len = p.len
      /\ \A j \in Indices : j # i => page_slots'[j] = page_slots[j]
  <2>1. PICK rec : rec = [page_slots[i] EXCEPT !.len = p.len]
    OBVIOUS
  <2>2. page_slots[i] \in SlotType
    BY <1>1
  <2>3. rec \in SlotType /\ rec.off = off /\ rec.len = p.len
    BY <1>2, <1>4, <2>1, <2>2 DEF SlotType
  <2>4. page_slots' = [page_slots EXCEPT ![i] = rec]
    BY <2>1
  <2> QED
    BY <1>1, <2>3, <2>4
<1>8. /\ content' \in [Indices -> PagePayloads \cup {Nothing}]
      /\ content'[i] = p /\ \A j \in Indices : j # i => content'[j] = content[j]
  BY <1>1
<1>9. /\ bytes' \in [Cells -> Marks \cup {SlotByte, Zero}]
      /\ \A k \in Cells : bytes'[k] = IF off <= k /\ k < off + p.len THEN p.mark ELSE bytes[k]
  <2>1. bytes' = [k \in Cells |-> IF off <= k /\ k < off + p.len THEN p.mark ELSE bytes[k]]
    BY <1>1, <1>4 DEF Stored, Fill
  <2> QED
    BY <1>1, <1>2, <2>1
<1>10. slot_count' = slot_count /\ free_end' = free_end /\ free_start' = free_start
  BY DEF free_start
<1>11. \A j \in Indices : /\ is_live(j)' <=> is_live(j)
                          /\ page_slots'[j].off = page_slots[j].off
                          /\ page_slots[j].off \in Nat /\ page_slots[j].len \in Nat
                          /\ page_slots'[j].len \in Nat /\ page_slots'[j].len <= page_slots[j].len
  <2>1. ASSUME NEW j \in Indices PROVE page_slots[j].off \in Nat /\ page_slots[j].len \in Nat
    BY <1>1 DEF SlotType
  <2>2. ASSUME NEW j \in Indices
        PROVE  /\ page_slots'[j].off = page_slots[j].off
               /\ page_slots'[j].len \in Nat /\ page_slots'[j].len <= page_slots[j].len
    <3>1. CASE j = i
      BY <1>2, <1>4, <1>5, <1>7, <3>1
    <3>2. CASE j # i
      BY <1>7, <2>1, <3>2
    <3> QED
      BY <3>1, <3>2
  <2> QED
    BY <2>1, <2>2 DEF is_live
<1>12. PageTyped'
  BY <1>1, <1>7, <1>8, <1>9, <1>10 DEF PageTyped
<1>13. RoomOK'
  <2>1. PICK d : d = len - p.len
    OBVIOUS
  <2>2. d \in Nat /\ d \in Int
    BY <1>2, <1>5, <2>1
  <2>3. ASSUME NEW j \in Indices
        PROVE  WidthOf(page_slots', j) = WidthOf(page_slots, j) - (IF j = i THEN d ELSE 0)
    <3>0. WidthOf(page_slots, j) \in Nat
      BY <1>1, PackedFacts
    <3>1. CASE j = i
      <4>1. WidthOf(page_slots', j) = p.len /\ WidthOf(page_slots, j) = len
        BY <1>4, <1>5, <1>7, <3>1 DEF WidthOf
      <4> QED
        BY <1>2, <1>5, <2>1, <3>1, <4>1
    <3>2. CASE j # i
      <4>1. WidthOf(page_slots', j) = WidthOf(page_slots, j)
        BY <1>7, <3>2 DEF WidthOf
      <4> QED
        BY <3>0, <3>2, <4>1
    <3> QED
      BY <3>1, <3>2
  <2>4. MaxSlots \in 0 .. MaxSlots /\ i < MaxSlots /\ i \in Nat
    BY PageAssumption DEF Indices
  <2>5. PackedOf(page_slots')[MaxSlots] = PackedOf(page_slots)[MaxSlots] + d
    <3>1. page_slots \in [Indices -> SlotType] /\ page_slots' \in [Indices -> SlotType]
      BY <1>1, <1>7
    <3>2. \A n \in 0 .. MaxSlots :
             PackedOf(page_slots')[n] = PackedOf(page_slots)[n] + (IF i < n THEN d ELSE 0)
      <4>1. PICK ss, tt : ss = page_slots /\ tt = page_slots'
        OBVIOUS
      <4>2. ss \in [Indices -> SlotType] /\ tt \in [Indices -> SlotType]
        BY <3>1, <4>1
      <4>3. \A j \in Indices : WidthOf(tt, j) = WidthOf(ss, j) - (IF j = i THEN d ELSE 0)
        BY <2>3, <4>1
      <4>4. \A n \in 0 .. MaxSlots : PackedOf(tt)[n] = PackedOf(ss)[n] + (IF i < n THEN d ELSE 0)
        BY <2>2, <2>4, <4>2, <4>3, PackedChanges
      <4> QED
        BY <4>1, <4>4
    <3> QED
      BY <2>4, <3>2
  <2>6. Packed' = PackedOf(page_slots') /\ Packed = PackedOf(page_slots) /\ Packed[MaxSlots] \in Int
        /\ free_end <= Packed[MaxSlots]
    BY PackedIs, PageFacts
  <2>7. free_end <= Packed'[MaxSlots]
    BY <1>1, <2>2, <2>5, <2>6
  <2> QED
    BY <1>3, <1>10, <2>7 DEF RoomOK
<1>14. PlacesOK'
  <2>1. ASSUME NEW j \in Indices
        PROVE  /\ ~ is_live(j)' => page_slots'[j] = Vacant
               /\ j >= slot_count' => page_slots'[j] = Vacant
               /\ is_live(j)' => free_end' <= page_slots'[j].off /\ page_slots'[j].off + page_slots'[j].len <= PageSize
    <3>1. /\ ~ is_live(j) => page_slots[j] = Vacant
          /\ j >= slot_count => page_slots[j] = Vacant
          /\ is_live(j) => free_end <= page_slots[j].off /\ page_slots[j].off + page_slots[j].len <= PageSize
      BY DEF PageIInv, PlacesOK
    <3>2. CASE j = i
      <4>1. ~ (i >= slot_count)
        BY <1>4, <1>5, <3>1, <3>2 DEF Vacant
      <4> QED
        BY <1>2, <1>3, <1>5, <1>6, <1>7, <1>10, <1>11, <3>2, <4>1
    <3>3. CASE j # i
      BY <1>7, <1>10, <1>11, <3>1, <3>3
    <3> QED
      BY <3>2, <3>3
  <2> QED
    BY <2>1 DEF PlacesOK, Vacant
<1>15. ApartOK'
  <2>1. ASSUME NEW j \in Indices, NEW n \in Indices, is_live(j)', is_live(n)', j # n
        PROVE  \/ page_slots'[j].off + page_slots'[j].len <= page_slots'[n].off
               \/ page_slots'[n].off + page_slots'[n].len <= page_slots'[j].off
    <3>1. \/ page_slots[j].off + page_slots[j].len <= page_slots[n].off
          \/ page_slots[n].off + page_slots[n].len <= page_slots[j].off
      BY <1>11, <2>1 DEF PageIInv, ApartOK
    <3> QED
      BY <1>11, <3>1
  <2> QED
    BY <2>1 DEF ApartOK
<1>16. ContentsOK'
  <2>1. ASSUME NEW j \in Indices
        PROVE  is_live(j)' <=> content'[j] # Nothing
    <3>1. CASE j = i
      BY PageAssumption, <1>2, <1>5, <1>8, <1>11, <3>1 DEF Nothing
    <3>2. CASE j # i
      BY <1>8, <1>11, <3>2 DEF PageIInv, ContentsOK
    <3> QED
      BY <3>1, <3>2
  <2>2. ASSUME NEW j \in Indices, is_live(j)'
        PROVE  /\ page_slots'[j].len = content'[j].len
               /\ \A k \in page_slots'[j].off .. page_slots'[j].off + page_slots'[j].len - 1 :
                    bytes'[k] = content'[j].mark
    <3>1. CASE j = i
      <4>1. ASSUME NEW k \in off .. off + p.len - 1 PROVE bytes'[k] = p.mark
        <5>1. PICK m : m = p.len /\ m \in Nat /\ m <= len
          BY <1>2, <1>5
        <5>2. k \in off .. off + m - 1
          BY <5>1
        <5>3. k \in Cells /\ off <= k /\ k < off + m
          BY <1>1, <1>3, <1>5, <1>6, <5>1, <5>2
        <5> QED
          BY <1>9, <5>1, <5>3
      <4> QED
        BY <1>7, <1>8, <3>1, <4>1
    <3>2. CASE j # i
      <4>1. PICK o, n : o = page_slots[j].off /\ n = page_slots[j].len
        OBVIOUS
      <4>2. /\ is_live(j) /\ page_slots'[j] = page_slots[j] /\ content'[j] = content[j]
            /\ o \in Nat /\ n \in Nat
        BY <1>7, <1>8, <1>11, <2>2, <3>2, <4>1
      <4>3. free_end <= o /\ o + n <= PageSize
        BY <4>1, <4>2 DEF PageIInv, PlacesOK
      <4>4. /\ n = content[j].len
            /\ \A k \in o .. o + n - 1 : bytes[k] = content[j].mark
        BY <4>1, <4>2 DEF PageIInv, ContentsOK
      <4>5. off + len <= o \/ o + n <= off
        BY <1>4, <1>5, <3>2, <4>1, <4>2 DEF PageIInv, ApartOK
      <4>6. ASSUME NEW k \in o .. o + n - 1 PROVE bytes'[k] = bytes[k]
        <5>1. PICK m : m = p.len /\ m \in Nat /\ m <= len
          BY <1>2, <1>5
        <5>2. k \in Cells /\ ~ (off <= k /\ k < off + m)
          BY <1>1, <1>3, <1>5, <4>2, <4>3, <4>5, <5>1
        <5> QED
          BY <1>9, <5>1, <5>2
      <4> QED
        BY <4>1, <4>2, <4>4, <4>6
    <3> QED
      BY <3>1, <3>2
  <2> QED
    BY <2>1, <2>2 DEF ContentsOK
<1>17. ArrayOK'
  <2>1. ASSUME NEW k \in HeaderSize .. free_start - 1 PROVE bytes'[k] = SlotByte
    <3>1. k \in Cells /\ ~ (off <= k)
      BY <1>1, <1>3, <1>5, <1>6
    <3>2. bytes[k] = SlotByte
      BY DEF PageIInv, ArrayOK
    <3> QED
      BY <1>9, <3>1, <3>2
  <2> QED
    BY <1>10, <2>1 DEF ArrayOK
<1>18. CompactedOK'
  BY DEF CompactedOK
<1> QED
  BY <1>12, <1>13, <1>14, <1>15, <1>16, <1>17, <1>18 DEF PageIInv

\* A payload that replaces another, in place or at the end of the free space.
LEMMA UpdateKeeps ==
    ASSUME PageIInv, NEW i \in Indices, NEW p \in PagePayloads, page_update(i, p)
    PROVE  PageIInv'
<1>1. CASE i \notin Live /\ Fail
  BY <1>1, NothingChanges DEF Fail
<1>2. CASE /\ i \in Live /\ fits_in_place(i, p)
           /\ bytes' = Stored(bytes, page_slots[i].off, p)
           /\ page_slots' = [page_slots EXCEPT ![i].len = p.len]
           /\ content' = [content EXCEPT ![i] = p]
           /\ outcome' = "ok"
           /\ UNCHANGED <<slot_count, free_end>>
  BY <1>2, InPlaceKeeps DEF fits_in_place
<1>3. CASE i \in Live /\ free_space >= p.len /\ PlaceAt(i, p) /\ outcome' = "ok" /\ UNCHANGED slot_count
  <2>1. /\ slot_count \in Nat /\ slot_count <= MaxSlots /\ MaxSlots \in Nat
        /\ free_end \in Nat /\ free_start \in Nat /\ free_space = free_end - free_start
    BY PageFacts
  <2>2. p.len \in Nat
    BY PageAssumption DEF PagePayloads
  <2>3. slot_count' = slot_count /\ free_start' = free_start /\ i < slot_count' /\ slot_count' \in 0 .. MaxSlots
    BY <1>3, <2>1 DEF free_start, Live, Slots
  <2>4. free_start' + p.len <= free_end
    BY <1>3, <2>1, <2>2, <2>3
  <2> QED
    BY <1>3, <2>3, <2>4, PlacingKeeps
<1>4. CASE outcome' = "error" /\ UNCHANGED <<bytes, slot_count, free_end, page_slots, content>>
  BY <1>4, NothingChanges
<1> QED
  BY <1>1, <1>2, <1>3, <1>4 DEF page_update

\* The slots are cut after the last live one.
LEMMA HighestLiveFacts ==
    ASSUME PageIInv
    PROVE  /\ HighestLive \in Nat /\ HighestLive <= slot_count
           /\ \A j \in Indices : is_live(j) <=> j \in Live
           /\ \A j \in Live : j \in Indices /\ j < HighestLive
           /\ Live = {} => HighestLive = 0
<1>1. slot_count \in Nat /\ slot_count <= MaxSlots /\ MaxSlots \in Nat
  BY PageFacts
<1>2. Live \in SUBSET Nat /\ \A j \in Live : j <= slot_count - 1 /\ j \in Indices
  BY <1>1 DEF Live, Slots, Indices
<1>3. \A j \in Indices : is_live(j) <=> j \in Live
  <2>1. ASSUME NEW j \in Indices, is_live(j) PROVE j \in Live
    <3>1. ~ (j >= slot_count)
      <4>1. j >= slot_count => page_slots[j] = Vacant
        BY DEF PageIInv, PlacesOK
      <4> QED
        BY <2>1, <4>1 DEF is_live, Vacant
    <3> QED
      BY <1>1, <2>1, <3>1 DEF Live, Slots, Indices
  <2> QED
    BY <2>1 DEF Live
<1>4. CASE Live = {}
  BY <1>1, <1>2, <1>3, <1>4 DEF HighestLive
<1>5. CASE Live # {}
  <2>1. slot_count - 1 \in Nat
    <3>1. PICK x : x \in Live
      BY <1>5
    <3>2. x \in Nat /\ x <= slot_count - 1
      BY <1>2, <3>1
    <3> QED
      BY <1>1, <3>2
  <2>2. \E x \in Live : \A y \in Live : y <= x
    BY <1>2, <1>5, <2>1, GreatestOf
  <2>3. Max(Live) \in Live /\ \A y \in Live : y <= Max(Live)
    BY <2>2 DEF Max
  <2>4. HighestLive = Max(Live) + 1
    BY <1>5 DEF HighestLive
  <2>5. PICK m : m = Max(Live)
    OBVIOUS
  <2>6. m \in Nat /\ m <= slot_count - 1 /\ HighestLive = m + 1 /\ \A y \in Live : y \in Nat /\ y <= m
    BY <1>2, <2>3, <2>4, <2>5
  <2>7. HighestLive \in Nat /\ HighestLive <= slot_count
    BY <1>1, <2>6
  <2>8. ASSUME NEW j \in Live PROVE j \in Indices /\ j < HighestLive
    BY <1>2, <2>6
  <2> QED
    BY <1>3, <1>5, <2>7, <2>8
<1> QED
  BY <1>4, <1>5

\* Every live payload moves to its packed place; no two of them meet there.
LEMMA CompactKeeps ==
    ASSUME PageIInv, compact
    PROVE  PageIInv'
<1> DEFINE Cells == HeaderSize .. PageSize - 1
<1>1. /\ page_slots \in [Indices -> SlotType] /\ content \in [Indices -> PagePayloads \cup {Nothing}]
      /\ bytes \in [Cells -> Marks \cup {SlotByte, Zero}]
  BY DEF PageIInv, PageTyped
<1>2. /\ slot_count \in Nat /\ slot_count <= MaxSlots /\ MaxSlots \in Nat /\ free_end \in Nat
      /\ slot_count * SlotSize \in Nat /\ free_start = HeaderSize + slot_count * SlotSize
      /\ free_start \in Nat /\ HeaderSize \in Nat /\ HeaderSize <= free_start /\ free_start <= free_end
      /\ free_end <= PageSize /\ PageSize \in Nat /\ 0 < HeaderSize
  BY PageFacts
<1>3. /\ HighestLive \in Nat /\ HighestLive <= slot_count
      /\ \A j \in Indices : is_live(j) <=> j \in Live
      /\ \A j \in Live : j \in Indices /\ j < HighestLive
      /\ Live = {} => HighestLive = 0
  BY HighestLiveFacts
<1>4. PICK P : P = Packed
  OBVIOUS
<1>5. P[MaxSlots] \in Int /\ free_end <= P[MaxSlots] /\ P = PackedOf(page_slots)
  BY <1>4, PageFacts
<1>6. /\ slot_count' = HighestLive /\ free_end' = P[MaxSlots] /\ outcome' = "compacted" /\ content' = content
      /\ page_slots' = [i \in Indices |->
            IF i \in Live THEN [off |-> P[i + 1], len |-> page_slots[i].len] ELSE Vacant]
  BY <1>1, <1>4 DEF compact, Repacked
<1>6a. PICK L : L = [i \in Live |-> P[i + 1]]
  OBVIOUS
<1>7. ASSUME NEW i \in Live
      PROVE  /\ i \in Indices /\ is_live(i) /\ i \in Nat /\ L[i] = P[i + 1]
             /\ L[i] \in Nat /\ L[i] # 0 /\ P[MaxSlots] <= L[i] /\ free_end <= L[i]
             /\ L[i] + page_slots[i].len <= PageSize
             /\ page_slots[i].off \in Nat /\ page_slots[i].len \in Nat
             /\ WidthOf(page_slots, i) = page_slots[i].len
             /\ page_slots'[i].off = L[i] /\ page_slots'[i].len = page_slots[i].len
             /\ page_slots'[i] \in SlotType
  <2>1. i \in Indices /\ is_live(i) /\ i \in Nat /\ L[i] = P[i + 1]
    BY <1>2, <1>3, <1>6a DEF Indices
  <2>2. page_slots[i].off \in Nat /\ page_slots[i].len \in Nat
    BY <1>1, <2>1 DEF SlotType
  <2>3. WidthOf(page_slots, i) = page_slots[i].len
    BY <2>1 DEF WidthOf, is_live
  <2>4. PICK q, e, n : q = L[i] /\ e = P[MaxSlots] /\ n = page_slots[i].len
    OBVIOUS
  <2>5. q \in Int /\ e <= q /\ q + n <= PageSize /\ e \in Int /\ free_end <= e
    BY <1>1, <1>5, <2>1, <2>3, <2>4, PackedBounds
  <2>6. q \in Nat /\ q # 0 /\ free_end <= q
    BY <1>2, <2>5
  <2>7. page_slots'[i] = [off |-> q, len |-> n]
    BY <1>6, <2>1, <2>4
  <2>8. n \in Nat
    BY <2>2, <2>4
  <2>9. page_slots'[i] \in SlotType /\ page_slots'[i].off = q /\ page_slots'[i].len = n
    BY <2>6, <2>7, <2>8 DEF SlotType
  <2> QED
    BY <2>1, <2>2, <2>3, <2>4, <2>5, <2>6, <2>9
<1>7a. ASSUME NEW i \in Live, NEW j \in Live, i < j PROVE L[j] + page_slots[j].len <= L[i]
  <2>1. P[j + 1] + WidthOf(page_slots, j) <= P[i + 1]
    BY <1>1, <1>5, <1>7, <1>7a, PackedApart
  <2> QED
    BY <1>7, <2>1
<1>8. ASSUME NEW i \in Indices, i \notin Live PROVE page_slots'[i] = Vacant /\ page_slots[i] = Vacant
  <2>1. ~ is_live(i)
    BY <1>3, <1>8
  <2> QED
    BY <1>6, <1>8, <2>1 DEF PageIInv, PlacesOK
<1>9. page_slots' \in [Indices -> SlotType]
  <2>1. ASSUME NEW i \in Indices PROVE page_slots'[i] \in SlotType
    <3>1. CASE i \in Live
      BY <1>7, <3>1
    <3>2. CASE i \notin Live
      BY <1>8, <3>2 DEF SlotType, Vacant
    <3> QED
      BY <3>1, <3>2
  <2>2. page_slots' = [i \in Indices |-> page_slots'[i]]
    BY <1>6
  <2> QED
    BY <2>1, <2>2
<1>10. \A i \in Indices : is_live(i)' <=> i \in Live
  <2>1. ASSUME NEW i \in Live PROVE is_live(i)'
    BY <1>7 DEF is_live
  <2>2. ASSUME NEW i \in Indices, i \notin Live PROVE ~ is_live(i)'
    BY <1>8, <2>2 DEF is_live, Vacant
  <2> QED
    BY <2>1, <2>2
<1>11. Packed'[MaxSlots] = P[MaxSlots]
  <2>1. \A j \in Indices : WidthOf(page_slots', j) = WidthOf(page_slots, j) - (IF j = 0 THEN 0 ELSE 0)
    <3>1. ASSUME NEW j \in Indices PROVE WidthOf(page_slots', j) = WidthOf(page_slots, j)
      <4>1. CASE j \in Live
        BY <1>7, <1>10, <4>1 DEF WidthOf, is_live
      <4>2. CASE j \notin Live
        BY <1>8, <4>2 DEF WidthOf
      <4> QED
        BY <4>1, <4>2
    <3>2. ASSUME NEW j \in Indices PROVE WidthOf(page_slots, j) \in Nat
      BY <1>1, PackedFacts
    <3> QED
      BY <3>1, <3>2
  <2>2. PICK ss, tt : ss = page_slots /\ tt = page_slots'
    OBVIOUS
  <2>3. ss \in [Indices -> SlotType] /\ tt \in [Indices -> SlotType]
    BY <1>1, <1>9, <2>2
  <2>4. \A j \in Indices : WidthOf(tt, j) = WidthOf(ss, j) - (IF j = 0 THEN 0 ELSE 0)
    BY <2>1, <2>2
  <2>5. \A n \in 0 .. MaxSlots : PackedOf(tt)[n] = PackedOf(ss)[n] + (IF 0 < n THEN 0 ELSE 0)
    BY <2>3, <2>4, PackedChanges
  <2>6. MaxSlots \in 0 .. MaxSlots
    BY <1>2
  <2>7. PackedOf(tt)[MaxSlots] = PackedOf(ss)[MaxSlots]
    BY <1>5, <2>2, <2>5, <2>6
  <2> QED
    BY <1>5, <2>2, <2>7, PackedIs
<1>12. /\ slot_count' * SlotSize \in Nat /\ free_start' = HeaderSize + slot_count' * SlotSize
       /\ free_start' \in Nat /\ free_start' <= free_start
  <2>1. /\ HighestLive * SlotSize \in Nat /\ HighestLive * SlotSize <= slot_count * SlotSize
    BY <1>2, <1>3, ArrayEnds
  <2>2. free_start' = HeaderSize + slot_count' * SlotSize
    BY DEF free_start
  <2>3. PICK a, b : a = HighestLive * SlotSize /\ b = slot_count * SlotSize
    OBVIOUS
  <2> QED
    BY <1>2, <1>6, <2>1, <2>2, <2>3
<1>13. ASSUME NEW k \in Cells
       PROVE  bytes'[k] = IF \E i \in Live : Covered(i, k)
                            THEN LET i == CHOOSE i \in Live : Covered(i, k)
                                 IN bytes[page_slots[i].off + (k - P[i + 1])]
                          ELSE IF HeaderSize <= k /\ k < HeaderSize + HighestLive * SlotSize THEN SlotByte
                          ELSE Zero
  BY <1>1, <1>4 DEF compact, Repacked
<1>14. ASSUME NEW i \in Live, NEW k \in L[i] .. L[i] + page_slots[i].len - 1
       PROVE  k \in Cells /\ bytes'[k] = content[i].mark
  <2>0. PICK o, n, q : o = page_slots[i].off /\ n = page_slots[i].len /\ q = L[i]
    OBVIOUS
  <2>1. q \in Nat /\ n \in Nat /\ o \in Nat /\ free_end <= q /\ q + n <= PageSize /\ q = P[i + 1]
    BY <1>7, <2>0
  <2>2. k \in q .. q + n - 1
    BY <2>0
  <2>3. k \in Int /\ q <= k /\ k < q + n /\ k \in Cells
    BY <1>2, <2>1, <2>2
  <2>4. Covered(i, k)
    BY <1>4, <2>0, <2>1, <2>3 DEF Covered, Repacked
  <2>5. PICK c : c = CHOOSE j \in Live : Covered(j, k)
    OBVIOUS
  <2>6. c \in Live /\ Covered(c, k)
    BY <2>4, <2>5
  <2>7. PICK r, m : r = L[c] /\ m = page_slots[c].len
    OBVIOUS
  <2>8. r <= k /\ k < r + m /\ r \in Nat /\ m \in Nat /\ c \in Nat /\ i \in Nat
    BY <1>4, <1>7, <2>6, <2>7 DEF Covered, Repacked
  <2>9. c = i
    <3>1. CASE c < i
      <4>1. q + n <= r
        BY <1>7a, <2>0, <2>6, <2>7, <3>1
      <4> QED
        BY <2>1, <2>3, <2>8, <4>1
    <3>2. CASE i < c
      <4>1. r + m <= q
        BY <1>7a, <2>0, <2>6, <2>7, <3>2
      <4> QED
        BY <2>1, <2>3, <2>8, <4>1
    <3> QED
      BY <2>8, <3>1, <3>2
  <2>10. bytes'[k] = bytes[o + (k - q)]
    <3>1. \E j \in Live : Covered(j, k)
      BY <2>4
    <3>2. bytes'[k] = bytes[page_slots[c].off + (k - P[c + 1])]
      BY <1>13, <2>3, <2>5, <3>1
    <3> QED
      BY <2>0, <2>1, <2>9, <3>2
  <2>11. o + (k - q) \in o .. o + n - 1
    BY <2>1, <2>3
  <2>12. \A x \in o .. o + n - 1 : bytes[x] = content[i].mark
    BY <1>7, <2>0 DEF PageIInv, ContentsOK
  <2> QED
    BY <2>3, <2>10, <2>11, <2>12
<1>15. ASSUME NEW k \in HeaderSize .. free_start' - 1 PROVE k \in Cells /\ bytes'[k] = SlotByte
  <2>1. PICK h, s, z : h = HeaderSize /\ s = free_start' /\ z = PageSize
    OBVIOUS
  <2>2. k \in h .. s - 1 /\ h \in Nat /\ s \in Nat /\ z \in Nat /\ s <= free_end /\ free_end <= z /\ free_end \in Nat
    BY <1>2, <1>12, <2>1
  <2>3. k \in Int /\ h <= k /\ k < s /\ k < free_end /\ k \in h .. z - 1
    BY <2>2
  <2>4. ~ \E i \in Live : Covered(i, k)
    <3>1. ASSUME NEW i \in Live, Covered(i, k) PROVE FALSE
      <4>1. PICK q : q = L[i]
        OBVIOUS
      <4>2. q <= k /\ q \in Nat /\ free_end <= q
        BY <1>4, <1>7, <3>1, <4>1 DEF Covered, Repacked
      <4> QED
        BY <2>2, <2>3, <4>2
    <3> QED
      BY <3>1
  <2>5. HeaderSize <= k /\ k < HeaderSize + HighestLive * SlotSize
    BY <1>6, <1>12, <2>1, <2>3
  <2> QED
    BY <1>13, <2>1, <2>3, <2>4, <2>5
<1>16. ASSUME NEW i \in Live PROVE content[i] \in PagePayloads /\ content[i].mark \in Marks
  <2>1. content[i] # Nothing
    BY <1>7 DEF PageIInv, ContentsOK
  <2> QED
    BY <1>1, <1>7, <2>1 DEF PagePayloads
<1>17. bytes' \in [Cells -> Marks \cup {SlotByte, Zero}]
  <2>1. ASSUME NEW k \in Cells PROVE bytes'[k] \in Marks \cup {SlotByte, Zero}
    <3>1. CASE \E i \in Live : Covered(i, k)
      <4>1. PICK i \in Live : Covered(i, k)
        BY <3>1
      <4>2. PICK q, n : q = L[i] /\ n = page_slots[i].len
        OBVIOUS
      <4>6. q <= k /\ k < q + n /\ q \in Nat /\ n \in Nat
        BY <1>4, <1>7, <4>1, <4>2 DEF Covered, Repacked
      <4>3. q <= k /\ k < q + n /\ q \in Int /\ n \in Nat /\ k \in Int
        BY <1>2, <4>6
      <4>4. k \in q .. q + n - 1
        BY <4>3
      <4>5. bytes'[k] = content[i].mark
        BY <1>14, <4>2, <4>4
      <4> QED
        BY <1>16, <4>5
    <3>2. CASE ~ \E i \in Live : Covered(i, k)
      BY <1>13, <3>2
    <3> QED
      BY <3>1, <3>2
  <2>2. bytes' = [k \in Cells |-> bytes'[k]]
    <3>1. DOMAIN bytes = Cells
      BY <1>1
    <3> HIDE DEF Cells
    <3>2. PICK D : D = DOMAIN bytes
      OBVIOUS
    <3>3. bytes' = [k \in D |-> bytes'[k]]
      BY <3>2 DEF compact
    <3> QED
      BY <3>1, <3>2, <3>3
  <2> QED
    BY <2>1, <2>2
<1>18. PageTyped'
  <2>1. slot_count' \in 0 .. MaxSlots /\ free_end' \in Nat
    BY <1>2, <1>3, <1>5, <1>6
  <2> QED
    BY <1>1, <1>6, <1>9, <1>17, <2>1 DEF PageTyped
<1>19. P[MaxSlots] <= PageSize
  <2>1. MaxSlots \in 0 .. MaxSlots /\ 0 \in 0 .. MaxSlots /\ 0 <= MaxSlots
    BY <1>2
  <2>2. P[MaxSlots] <= P[0]
    BY <1>1, <1>5, <2>1, PackedDescends
  <2> QED
    BY <1>1, <1>5, <2>2, PackedFacts
<1>20. RoomOK'
  <2>1. free_start' <= free_end' /\ free_end' <= PageSize
    BY <1>2, <1>5, <1>6, <1>12, <1>19
  <2> QED
    BY <1>5, <1>6, <1>11, <2>1 DEF RoomOK
<1>21. PlacesOK'
  <2>1. ASSUME NEW i \in Indices
        PROVE  /\ ~ is_live(i)' => page_slots'[i] = Vacant
               /\ i >= slot_count' => page_slots'[i] = Vacant
               /\ is_live(i)' => free_end' <= page_slots'[i].off /\ page_slots'[i].off + page_slots'[i].len <= PageSize
    <3>1. CASE i \in Live
      <4>1. ~ (i >= slot_count')
        BY <1>3, <1>6, <1>7, <3>1
      <4> QED
        BY <1>6, <1>7, <1>10, <3>1, <4>1
    <3>2. CASE i \notin Live
      BY <1>8, <1>10, <3>2
    <3> QED
      BY <3>1, <3>2
  <2> QED
    BY <2>1 DEF PlacesOK, Vacant
<1>22. ApartOK'
  <2>1. ASSUME NEW i \in Live, NEW j \in Live, i < j
        PROVE  page_slots'[j].off + page_slots'[j].len <= page_slots'[i].off
    BY <1>7, <1>7a, <2>1
  <2>2. ASSUME NEW i \in Indices, NEW j \in Indices, is_live(i)', is_live(j)', i # j
        PROVE  \/ page_slots'[i].off + page_slots'[i].len <= page_slots'[j].off
               \/ page_slots'[j].off + page_slots'[j].len <= page_slots'[i].off
    <3>1. i \in Live /\ j \in Live /\ i \in Nat /\ j \in Nat
      BY <1>7, <1>10, <2>2
    <3>2. i < j \/ j < i
      BY <2>2, <3>1
    <3> QED
      BY <2>1, <3>1, <3>2
  <2> QED
    BY <2>2 DEF ApartOK
<1>23. ContentsOK'
  <2>1. ASSUME NEW i \in Indices PROVE is_live(i)' <=> content'[i] # Nothing
    BY <1>3, <1>6, <1>10 DEF PageIInv, ContentsOK
  <2>2. ASSUME NEW i \in Indices, is_live(i)'
        PROVE  /\ page_slots'[i].len = content'[i].len
               /\ \A k \in page_slots'[i].off .. page_slots'[i].off + page_slots'[i].len - 1 :
                    bytes'[k] = content'[i].mark
    <3>1. i \in Live
      BY <1>10, <2>2
    <3>2. page_slots[i].len = content[i].len
      BY <1>7, <3>1 DEF PageIInv, ContentsOK
    <3> QED
      BY <1>6, <1>7, <1>14, <3>1, <3>2
  <2> QED
    BY <2>1, <2>2 DEF ContentsOK
<1>24. ArrayOK'
  BY <1>15 DEF ArrayOK
<1>25. CompactedOK'
  <2>1. ASSUME Live' = {} PROVE slot_count' = 0
    <3>1. Live = {}
      <4>1. ASSUME NEW j \in Live PROVE FALSE
        <5>1. PICK c : c = slot_count'
          OBVIOUS
        <5>2. j \in Nat /\ j < c /\ is_live(j)' /\ c \in Nat
          BY <1>3, <1>6, <1>7, <1>10, <5>1
        <5>3. j \in 0 .. c - 1
          BY <5>2
        <5> QED
          BY <2>1, <5>1, <5>2, <5>3 DEF Live, Slots
      <4> QED
        BY <4>1
    <3> QED
      BY <1>3, <1>6, <3>1
  <2> QED
    BY <1>6, <1>11, <2>1 DEF CompactedOK
<1> QED
  BY <1>18, <1>20, <1>21, <1>22, <1>23, <1>24, <1>25 DEF PageIInv

-----------------------------------------------------------------------------
(* Theorems                                                                  *)

\* Without live payloads the packing ends where the page does.
LEMMA NoWidths ==
    ASSUME NEW ss \in [Indices -> SlotType], \A j \in Indices : WidthOf(ss, j) = 0
    PROVE  PackedOf(ss)[MaxSlots] = PageSize
<1>0. MaxSlots \in Nat /\ PageSize \in Int
  BY PageAssumption
<1>1. PICK g : g = PackedOf(ss)
  OBVIOUS
<1>2. g[0] = PageSize /\ \A i \in Indices : g[i + 1] = g[i] - 0
  BY <1>1, PackedFacts
<1>3. PICK Bad : Bad = {n \in 0 .. MaxSlots : g[n] # PageSize}
  OBVIOUS
<1>4. Bad = {}
  <2>1. SUFFICES ASSUME Bad # {} PROVE FALSE
    OBVIOUS
  <2>2. Bad \in SUBSET Nat
    BY <1>0, <1>3
  <2>3. PICK m \in Bad : \A x \in Bad : m <= x
    BY <2>1, <2>2, LeastOf
  <2>4. m \in 0 .. MaxSlots /\ g[m] # PageSize
    BY <1>3, <2>3
  <2>5. m - 1 \in Indices /\ m - 1 \in 0 .. MaxSlots /\ (m - 1) + 1 = m /\ ~ (m <= m - 1)
    BY <1>0, <1>2, <2>4 DEF Indices
  <2>6. g[m - 1] = PageSize
    BY <1>3, <2>3, <2>5
  <2>7. g[m] = g[m - 1] - 0
    BY <1>2, <2>5
  <2> QED
    BY <1>0, <2>4, <2>6, <2>7
<1>5. MaxSlots \in 0 .. MaxSlots
  BY <1>0
<1> QED
  BY <1>1, <1>3, <1>4, <1>5

\* A new page.
LEMMA NewPage == PageInit => PageIInv
<1> SUFFICES ASSUME PageInit PROVE PageIInv
  OBVIOUS
<1>1. /\ HeaderSize \in Nat /\ 0 < HeaderSize /\ SlotSize \in Nat /\ PageSize \in Nat /\ MaxSlots \in Nat
      /\ HeaderSize <= PageSize
  BY PageAssumption
<1>2. /\ bytes = [k \in HeaderSize .. PageSize - 1 |-> Zero] /\ slot_count = 0 /\ free_end = PageSize
      /\ page_slots = [i \in Indices |-> Vacant] /\ content = [i \in Indices |-> Nothing] /\ outcome = "ok"
  BY DEF PageInit, Indices
<1>3. page_slots \in [Indices -> SlotType] /\ \A i \in Indices : ~ is_live(i) /\ page_slots[i] = Vacant
  BY <1>2 DEF SlotType, Vacant, is_live
<1>4. PageTyped
  BY <1>1, <1>2, <1>3 DEF PageTyped
<1>5. free_start = HeaderSize
  <2>1. slot_count * SlotSize = 0
    BY <1>1, <1>2
  <2> QED
    BY <1>1, <2>1 DEF free_start
<1>6. Packed[MaxSlots] = PageSize
  <2>1. \A j \in Indices : WidthOf(page_slots, j) = 0
    BY <1>3 DEF WidthOf, is_live
  <2> QED
    BY <1>3, <2>1, NoWidths, PackedIs
<1>7. RoomOK
  BY <1>1, <1>2, <1>5, <1>6 DEF RoomOK
<1>8. PlacesOK /\ ApartOK
  BY <1>3 DEF PlacesOK, ApartOK
<1>9. ContentsOK
  BY <1>2, <1>3 DEF ContentsOK
<1>10. ArrayOK
  <2>1. HeaderSize .. HeaderSize - 1 = {}
    BY <1>1
  <2> QED
    BY <1>5, <2>1 DEF ArrayOK
<1>11. CompactedOK
  BY <1>2 DEF CompactedOK
<1> QED
  BY <1>4, <1>7, <1>8, <1>9, <1>10, <1>11 DEF PageIInv

\* Every step keeps the invariant.
LEMMA PageStep == PageIInv /\ [PageNext]_pagevars => PageIInv'
<1> SUFFICES ASSUME PageIInv, [PageNext]_pagevars PROVE PageIInv'
  OBVIOUS
<1>1. ASSUME NEW p \in PagePayloads, page_insert(p) PROVE PageIInv'
  BY <1>1, InsertKeeps
<1>2. ASSUME NEW i \in Indices, page_delete(i) PROVE PageIInv'
  BY <1>2, DeleteKeeps
<1>3. ASSUME NEW i \in Indices, NEW p \in PagePayloads, page_update(i, p) PROVE PageIInv'
  BY <1>3, UpdateKeeps
<1>4. CASE compact
  BY <1>4, CompactKeeps
<1>5. CASE from_bytes
  <2>1. free_start <= free_end /\ free_end <= PageSize /\ free_start \in Nat /\ free_end \in Nat /\ PageSize \in Nat
    BY PageFacts
  <2>2. ~ (free_end > PageSize \/ free_start > free_end)
    BY <2>1
  <2> QED
    BY <1>5, <2>2, NothingChanges DEF from_bytes
<1>6. CASE UNCHANGED pagevars
  BY <1>6, NothingChanges DEF pagevars
<1> QED
  BY <1>1, <1>2, <1>3, <1>4, <1>5, <1>6 DEF PageNext, Indices

\* What the invariant is for.
LEMMA PageIInvImplies == PageIInv => PageInvariant
<1> SUFFICES ASSUME PageIInv PROVE PageInvariant
  OBVIOUS
<1>1. /\ slot_count \in Nat /\ slot_count <= MaxSlots /\ MaxSlots \in Nat
      /\ free_end \in Nat /\ PageSize \in Nat /\ HeaderSize \in Nat
      /\ slot_count * SlotSize \in Nat /\ free_start = HeaderSize + slot_count * SlotSize
      /\ free_start \in Nat /\ HeaderSize <= free_start /\ free_start <= free_end /\ free_end <= PageSize
      /\ free_space = free_end - free_start
      /\ Packed[MaxSlots] \in Int /\ free_end <= Packed[MaxSlots]
  BY PageFacts
<1>2. page_slots \in [Indices -> SlotType] /\ DOMAIN page_slots = Indices
  BY DEF PageIInv, PageTyped
<1>3. PageTypeOK
  <2>1. slot_count \in 0 .. MaxSlots /\ free_end \in HeaderSize .. PageSize
    BY <1>1
  <2>2. ASSUME NEW i \in Indices
        PROVE  /\ i >= slot_count => page_slots[i] = Vacant
               /\ is_live(i) => page_slots[i].off >= free_end /\ page_slots[i].off + page_slots[i].len <= PageSize
    <3>1. page_slots[i].off \in Nat
      BY <1>2 DEF SlotType
    <3> QED
      BY <1>1, <3>1 DEF PageIInv, PlacesOK
  <2> QED
    BY <1>2, <2>1, <2>2 DEF PageTypeOK
<1>4. PayloadsReadBack
  <2>1. ASSUME NEW i \in Indices, is_live(i)
        PROVE  /\ page_slots[i].len = content[i].len
               /\ page_slots[i].off + content[i].len <= PageSize
               /\ \A k \in 0 .. content[i].len - 1 : bytes[page_slots[i].off + k] = content[i].mark
    <3>1. PICK o, n : o = page_slots[i].off /\ n = page_slots[i].len
      OBVIOUS
    <3>2. o \in Nat /\ n \in Nat
      BY <1>2, <3>1 DEF SlotType
    <3>3. n = content[i].len /\ \A k \in o .. o + n - 1 : bytes[k] = content[i].mark
      BY <2>1, <3>1 DEF PageIInv, ContentsOK
    <3>4. o + n <= PageSize
      BY <2>1, <3>1 DEF PageIInv, PlacesOK
    <3>5. ASSUME NEW k \in 0 .. n - 1 PROVE o + k \in o .. o + n - 1
      BY <3>2
    <3> QED
      BY <3>1, <3>3, <3>4, <3>5
  <2> QED
    BY <1>2, <2>1 DEF PayloadsReadBack, PageIInv, ContentsOK
<1>5. PageReadsAgain
  BY DEF PageReadsAgain, PageIInv, ArrayOK, PageTyped
<1>6. CompactionReclaims
  <2>1. PICK a, e, q : a = slot_count * SlotSize /\ e = PageSize - HeaderSize /\ q = Packed[MaxSlots]
    OBVIOUS
  <2>2. /\ HeldBytes = PageSize - q /\ free_start = HeaderSize + a /\ a \in Nat /\ e \in Int /\ q \in Int
        /\ free_end <= q
    BY <1>1, <2>1 DEF HeldBytes
  <2>3. free_space <= e - a - HeldBytes
    BY <1>1, <2>1, <2>2
  <2>4. ASSUME outcome = "compacted"
        PROVE  /\ fragmentation = 0 /\ free_space = e - a - HeldBytes
               /\ Live = {} => free_space = e
    <3>1. free_end = q /\ (Live = {} => slot_count = 0)
      BY <2>1, <2>4 DEF PageIInv, CompactedOK
    <3>2. fragmentation = 0
      BY <1>1, <2>2, <3>1 DEF fragmentation
    <3>3. free_space = e - a - HeldBytes
      BY <1>1, <2>1, <2>2, <3>1
    <3>4. ASSUME Live = {} PROVE free_space = e
      <4>1. slot_count = 0 /\ a = 0
        <5>1. SlotSize \in Nat /\ slot_count = 0
          BY <3>1, <3>4, PageFacts
        <5> QED
          BY <2>1, <5>1
      <4>2. q = PageSize
        <5>1. ASSUME NEW j \in Indices PROVE WidthOf(page_slots, j) = 0
          <6>1. ~ is_live(j)
            BY <3>4, HighestLiveFacts
          <6> QED
            BY <6>1 DEF WidthOf, is_live
        <5> QED
          BY <1>2, <2>1, <5>1, NoWidths, PackedIs
      <4>3. PICK s, z, h : s = free_start /\ z = PageSize /\ h = HeaderSize
        OBVIOUS
      <4>4. z \in Nat /\ h \in Nat /\ s = h + a /\ a = 0 /\ free_end = z /\ e = z - h
        BY <1>1, <2>1, <2>2, <3>1, <4>1, <4>2, <4>3
      <4>5. free_space = free_end - s
        BY <1>1, <4>3
      <4> QED
        BY <4>4, <4>5
    <3> QED
      BY <3>2, <3>3, <3>4
  <2> QED
    BY <2>1, <2>3, <2>4 DEF CompactionReclaims
<1> QED
  BY <1>3, <1>4, <1>5, <1>6 DEF PageInvariant

\* Every reachable page satisfies the inductive invariant: the array and the payloads keep
\* apart, live payloads lie apart and are what was stored (Page::insert, update, delete,
\* compact).
THEOREM PageInductive == PageSpec => []PageIInv
<1>1. PageInit => PageIInv
  BY NewPage
<1>2. PageIInv /\ [PageNext]_pagevars => PageIInv'
  BY PageStep
<1> QED
  BY <1>1, <1>2, PTL DEF PageSpec

\* A page keeps every payload under its slot through reuse, growth and compaction of the
\* others, is accepted when it is read again, and a compaction gives back all there is.
THEOREM PagesKeepTheirPayloads == PageSpec => []PageInvariant
<1>1. PageSpec => []PageIInv
  BY PageInductive
<1>2. PageIInv => PageInvariant
  BY PageIInvImplies
<1> QED
  BY <1>1, <1>2, PTL
=============================================================================
