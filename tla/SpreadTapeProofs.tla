---------------------------- MODULE SpreadTapeProofs ----------------------------
(***************************************************************************)
(* Proofs about the spread tape (SpreadTape): its types, the buckets, the  *)
(* range query and the backfill, for any resolution, window and clock.     *)
(***************************************************************************)
EXTENDS SpreadTape, TLAPS, WellFoundedInduction, FiniteSetTheorems, SequenceTheorems

-----------------------------------------------------------------------------
(* The inductive invariants *)

\* The open bucket is that of the last point that counted.
OpenIsLast ==
  IF log = <<>> THEN current = None /\ buckets = <<>>
  ELSE current # None /\ current.ts = log[Len(log)].bucket

OnGrid(t) == t % HistResolution = 0

LogInOrder ==
  \A j \in DOMAIN log : OnGrid(log[j].bucket) /\ \A i \in 1..j : log[i].bucket <= log[j].bucket

\* Closed buckets are in order, and at least a period apart from each other and
\* from the open one.
Spaced ==
  \A j \in DOMAIN buckets :
    /\ \A i \in 1..(j - 1) : buckets[i].ts < buckets[j].ts
    /\ buckets[j].ts + (Len(buckets) + 1 - j) * HistResolution <= current.ts

AllExact == (current # None => Exact(current)) /\ \A i \in DOMAIN buckets : Exact(buckets[i])

\* A bucket is forgotten only when the ring is full, and then it is older than
\* all that are left.
Retains ==
  \A j \in DOMAIN log :
    \/ log[j].bucket = current.ts
    \/ \E i \in DOMAIN buckets : buckets[i].ts = log[j].bucket
    \/ Len(buckets) = HistCapacity /\ log[j].bucket < buckets[1].ts

Ordered == TapeTypeOK /\ OpenIsLast /\ LogInOrder /\ Spaced

\* The samples since the clock was last set end the ring, in order, and all
\* within the window.
Ends ==
  /\ Len(steady) <= Len(buffer)
  /\ \A k \in DOMAIN steady : steady[k] = buffer[Len(buffer) - Len(steady) + k]

InWindow ==
  \A k \in DOMAIN steady : /\ steady[k] <= clock /\ steady[k] >= Last(steady) - Window
                           /\ \A i \in 1..k : steady[i] <= steady[k]

\* From a sample on there are at most as many as periods have passed since, and
\* as many more as the timer was late then.
Paced ==
  \A k \in DOMAIN steady :
    \E n \in Nat : /\ clock - steady[k] = n * Resolution
                   /\ Len(steady) - k + 1 + due <= MaxDue + n

RingInv == TapeTypeOK /\ Ends /\ InWindow /\ Paced

-----------------------------------------------------------------------------
(* Sequences *)

\* An induction over numbers starts from a smallest counterexample.
LEMMA LeastNumber ==
  ASSUME NEW X \in SUBSET Nat, X # {}
  PROVE  \E n \in X : \A m \in X : n <= m
<1> DEFINE Below(n) == 0..n - 1
           Lower == {Below(n) : n \in X}
           Order == StrictSubsetOrdering(Nat)
<1>1. IsWellFoundedOn(Order, FiniteSubsetsOf(Nat))
  BY FS_StrictSubsetOrderingWellFounded
<1>2. \A n \in X : Below(n) \in FiniteSubsetsOf(Nat)
  BY FS_Interval DEF FiniteSubsetsOf
<1>. HIDE DEF Order
<1>3. Lower \subseteq FiniteSubsetsOf(Nat) /\ Lower # {}
  BY <1>2
<1>. HIDE DEF Lower
<1>4. PICK L \in Lower : \A M \in Lower : <<M, L>> \notin Order
  BY <1>1, <1>3, WFMin
<1>5. PICK n \in X : L = Below(n)
  BY <1>4 DEF Lower
<1>6. \A m \in X : n <= m
  <2>. SUFFICES ASSUME NEW m \in X, m < n PROVE FALSE
    OBVIOUS
  <2>1. m \in Below(n) /\ m \notin Below(m) /\ Below(m) \subseteq Below(n) /\ Below(m) \in Lower
    BY DEF Lower
  <2>2. <<Below(m), L>> \in Order
    BY <1>5, <2>1 DEF Order, StrictSubsetOrdering
  <2>. QED BY <1>4, <2>1, <2>2
<1>. QED BY <1>6

\* The filter, step by step: its recursive definition has a solution.
LEMMA KeptParts ==
  ASSUME NEW S, NEW s \in Seq(S), NEW I
  PROVE  \E part \in [0..Len(s) -> Seq(S)] :
           /\ part[0] = <<>> /\ Kept(s, I) = part[Len(s)]
           /\ \A k \in 1..Len(s) :
                part[k] = IF k \in I THEN Append(part[k - 1], s[k]) ELSE part[k - 1]
<1> DEFINE n == Len(s)
           Parts(f) == [k \in 0..n |-> IF k = 0 THEN <<>>
                                       ELSE IF k \in I THEN Append(f[k - 1], s[k]) ELSE f[k - 1]]
           part == CHOOSE f : f = Parts(f)
           Solves(f, m) ==
             /\ f \in [0..m -> Seq(S)] /\ f[0] = <<>>
             /\ \A k \in 1..m : f[k] = IF k \in I THEN Append(f[k - 1], s[k]) ELSE f[k - 1]
           Unsolved == {m \in 0..n : ~\E f : Solves(f, m)}
<1>1. n \in Nat /\ \A k \in 1..n : s[k] \in S
  OBVIOUS
<1>2. Kept(s, I) = part[n]
  BY DEF Kept
<1>. HIDE DEF n
<1>3. ASSUME NEW m \in Unsolved, \A l \in Unsolved : m <= l PROVE FALSE
  <2>1. m \in 0..n /\ \A f : ~Solves(f, m)
    BY DEF Unsolved
  <2>2. \A l \in 0..n : l < m => \E f : Solves(f, l)
    <3>. HIDE DEF Solves
    <3>. QED BY <1>1, <1>3, <2>1
  <2>3. m # 0
    <3>1. Solves([k \in 0..0 |-> <<>>], 0)
      OBVIOUS
    <3>. HIDE DEF Solves
    <3>. QED BY <2>1, <3>1
  <2>4. m \in 1..n /\ m - 1 \in 0..n /\ m - 1 < m
    BY <1>1, <2>1, <2>3
  <2>5. PICK f : Solves(f, m - 1)
    <3>. HIDE DEF Solves
    <3>. QED BY <2>2, <2>4
  <2> DEFINE e == IF m \in I THEN Append(f[m - 1], s[m]) ELSE f[m - 1]
             g == [k \in 0..m |-> IF k = m THEN e ELSE f[k]]
  <2>6. f[m - 1] \in Seq(S) /\ e \in Seq(S)
    BY <1>1, <2>4, <2>5
  <2>7. g[m] = e /\ \A k \in 0..m - 1 : g[k] = f[k]
    BY <1>1, <2>4
  <2>8. g \in [0..m -> Seq(S)]
    BY <1>1, <2>4, <2>5, <2>6
  <2>9. g[0] = <<>>
    BY <1>1, <2>4, <2>5, <2>7
  <2>10. \A k \in 1..m : g[k] = IF k \in I THEN Append(g[k - 1], s[k]) ELSE g[k - 1]
    <3>. HIDE DEF g
    <3>1. \A k \in 1..m - 1 : f[k] = IF k \in I THEN Append(f[k - 1], s[k]) ELSE f[k - 1]
      BY <2>5
    <3>2. ASSUME NEW k \in 1..m - 1
          PROVE  g[k] = IF k \in I THEN Append(g[k - 1], s[k]) ELSE g[k - 1]
      <4>1. k \in 0..m - 1 /\ k - 1 \in 0..m - 1
        BY <2>4
      <4>2. g[k] = f[k] /\ g[k - 1] = f[k - 1]
        BY <2>7, <4>1
      <4>. QED BY <3>1, <4>2
    <3>3. g[m] = IF m \in I THEN Append(g[m - 1], s[m]) ELSE g[m - 1]
      <4>1. m - 1 \in 0..m - 1
        BY <2>4
      <4>. QED BY <2>7, <4>1
    <3>. QED BY <2>4, <3>2, <3>3
  <2>. HIDE DEF g
  <2>11. Solves(g, m)
    BY <2>8, <2>9, <2>10
  <2>. HIDE DEF Solves
  <2>. QED BY <2>1, <2>11
<1>4. PICK f : Solves(f, n)
  <2>1. Unsolved \in SUBSET Nat /\ (n \in Unsolved <=> ~\E f : Solves(f, n))
    <3>. HIDE DEF Solves
    <3>. QED BY <1>1
  <2>. HIDE DEF Unsolved, Solves
  <2>2. Unsolved = {}
    BY <1>3, <2>1, LeastNumber
  <2>. QED BY <2>1, <2>2
<1>5. f = Parts(f)
  <2>1. f = [k \in 0..n |-> f[k]]
    BY <1>4
  <2>2. \A k \in 0..n : k = 0 \/ k \in 1..n
    BY <1>1
  <2>. QED BY <1>4, <2>1, <2>2
<1>6. part = Parts(part)
  <2>. HIDE DEF Parts
  <2>. QED BY <1>5
<1>. HIDE DEF part
<1> DEFINE Apart == {k \in 0..n : part[k] # f[k]}
<1>7. part[0] = <<>> /\ \A k \in 1..n : part[k] = IF k \in I THEN Append(part[k - 1], s[k]) ELSE part[k - 1]
  <2>1. \A k \in 0..n : part[k] = Parts(part)[k]
    BY <1>6
  <2>. QED BY <1>1, <2>1
<1>8. ASSUME Apart # {} PROVE FALSE
  <2>1. Apart \in SUBSET Nat
    BY <1>1
  <2>2. PICK k \in Apart : \A l \in Apart : k <= l
    <3>. HIDE DEF Apart
    <3>. QED BY <1>8, <2>1, LeastNumber
  <2>3. k \in 1..n /\ k - 1 \in 0..n /\ k - 1 \notin Apart
    BY <1>1, <1>4, <1>7, <2>2
  <2>4. part[k - 1] = f[k - 1]
    BY <2>3
  <2>. QED BY <1>4, <1>7, <2>2, <2>3, <2>4
<1>9. part \in [0..n -> Seq(S)]
  <2>1. \A k \in 0..n : part[k] \in Seq(S)
    BY <1>1, <1>4, <1>8
  <2>2. DOMAIN part = 0..n /\ part = [k \in 0..n |-> part[k]]
    BY <1>6
  <2>. QED BY <2>1, <2>2
<1>. QED BY <1>2, <1>7, <1>9 DEF n

\* After the first before elements, q is s without the first t.
EndsLike(q, s, t, before) ==
  /\ Len(q) = before + Len(s) - t
  /\ \A j \in 1..Len(s) - t : q[before + j] = s[t + j]

\* What is kept ends with every stretch at the end that is kept whole, and is
\* that stretch if nothing before it is kept.
LEMMA KeptEnds ==
  ASSUME NEW S, NEW s \in Seq(S), NEW I, NEW t \in 0..Len(s),
         \A k \in t + 1..Len(s) : k \in I
  PROVE  \E before \in Nat :
           /\ Kept(s, I) \in Seq(S) /\ EndsLike(Kept(s, I), s, t, before)
           /\ (\A k \in 1..t : k \notin I) => before = 0
<1> DEFINE n == Len(s)
<1>1. PICK part \in [0..n -> Seq(S)] :
        /\ part[0] = <<>> /\ Kept(s, I) = part[n]
        /\ \A k \in 1..n : part[k] = IF k \in I THEN Append(part[k - 1], s[k]) ELSE part[k - 1]
  BY ZenonT(30), KeptParts
<1>2. n \in Nat /\ t \in 0..n /\ t \in Nat /\ t <= n /\ \A k \in 1..n : s[k] \in S
  OBVIOUS
<1>. HIDE DEF n
<1> DEFINE before == Len(part[t])
           Tailed(k) == /\ Len(part[k]) = before + k - t
                        /\ \A j \in 1..k - t : part[k][before + j] = s[t + j]
           Bad == {k \in t..n : ~Tailed(k)}
           Empty == {k \in 0..t : part[k] # <<>>}
<1>3. part[t] \in Seq(S) /\ before \in Nat
  BY <1>1, <1>2
<1>4. ASSUME Bad # {} PROVE FALSE
  <2>1. Bad \in SUBSET Nat
    BY <1>2
  <2>2. PICK k \in Bad : \A l \in Bad : k <= l
    <3>. HIDE DEF Bad
    <3>. QED BY <1>4, <2>1, LeastNumber
  <2>3. k # t
    <3>1. Len(part[t]) = before + t - t
      BY <1>2, <1>3
    <3>2. ASSUME NEW j \in 1..t - t PROVE FALSE
      BY <1>2
    <3>3. Tailed(t)
      <4>. HIDE DEF before
      <4>. QED BY <3>1, <3>2
    <3>. QED BY <2>2, <3>3
  <2>4. k \in t + 1..n /\ k \in 1..n /\ k - 1 \in t..n /\ k - 1 \in 0..n
    BY <1>2, <2>2, <2>3
  <2>5. Tailed(k - 1)
    <3>1. k - 1 \notin Bad
      <4>. HIDE DEF Bad
      <4>. QED BY <2>1, <2>2
    <3>. HIDE DEF Tailed
    <3>. QED BY <2>4, <3>1
  <2>6. part[k] = Append(part[k - 1], s[k]) /\ part[k - 1] \in Seq(S) /\ s[k] \in S
    BY <1>1, <1>2, <2>4 DEF n
  <2>. HIDE DEF before
  <2>7. Len(part[k]) = before + k - t
    BY <1>2, <1>3, <2>4, <2>5, <2>6
  <2>8. ASSUME NEW j \in 1..k - t PROVE part[k][before + j] = s[t + j]
    <3>1. CASE j = k - t
      BY <1>2, <1>3, <2>4, <2>5, <2>6, <2>7, <3>1
    <3>2. CASE j # k - t
      <4>1. j \in 1..(k - 1) - t /\ before + j \in 1..Len(part[k - 1])
        BY <1>2, <1>3, <2>4, <2>5, <3>2
      <4>2. part[k][before + j] = part[k - 1][before + j]
        BY <2>6, <4>1
      <4>. QED BY <2>5, <4>1, <4>2
    <3>. QED BY <3>1, <3>2
  <2>. QED BY <2>2, <2>7, <2>8
<1>5. ASSUME \A k \in 1..t : k \notin I, Empty # {} PROVE FALSE
  <2>1. Empty \in SUBSET Nat
    BY <1>2
  <2>2. PICK k \in Empty : \A l \in Empty : k <= l
    <3>. HIDE DEF Empty
    <3>. QED BY <1>5, <2>1, LeastNumber
  <2>3. k \in 1..t /\ k \in 1..n /\ k - 1 \in 0..t /\ k - 1 \notin Empty
    BY <1>1, <1>2, <2>2
  <2>. QED BY <1>1, <1>5, <2>2, <2>3
<1>6. (\A k \in 1..t : k \notin I) => before = 0
  <2>1. ASSUME \A k \in 1..t : k \notin I PROVE part[t] = <<>>
    <3>1. Empty = {}
      <4>. HIDE DEF Empty
      <4>. QED BY <1>5, <2>1
    <3>2. t \in 0..t
      BY <1>2
    <3>. QED BY <3>1, <3>2
  <2>. QED BY <2>1
<1>7. Tailed(n)
  <2>1. n \in t..n
    BY <1>1, <1>2
  <2>2. n \notin Bad
    <3>. HIDE DEF Bad
    <3>. QED BY <1>4
  <2>. HIDE DEF Tailed
  <2>. QED BY <2>1, <2>2
<1>8. part[n] \in Seq(S)
  BY <1>1, <1>2
<1>. HIDE DEF before
<1>. QED BY <1>1, <1>3, <1>6, <1>7, <1>8 DEF n, EndsLike

\* q without its d oldest elements.
Cut(q, d) == [k \in 1..Len(q) - d |-> q[k + d]]

\* Keeping an end of a sequence.
LEMMA KeptAbove ==
  ASSUME NEW S, NEW s \in Seq(S), NEW I \in SUBSET (1..Len(s)),
         \A k \in I : \A j \in k..Len(s) : j \in I
  PROVE  \E t \in 0..Len(s) :
           I = t + 1..Len(s) /\ Kept(s, I) \in Seq(S) /\ Kept(s, I) = Cut(s, t)
<1> DEFINE n == Len(s)
<1>1. n \in Nat /\ I \in SUBSET (1..n) /\ I \in SUBSET Nat /\ \A k \in I : \A j \in k..n : j \in I
  OBVIOUS
<1>. HIDE DEF n
<1>2. PICK t \in 0..n : I = t + 1..n
  <2>1. CASE I = {}
    <3>1. I = n + 1..n /\ n \in 0..n
      BY <1>1, <2>1
    <3>. QED BY <3>1, Zenon
  <2>2. CASE I # {}
    <3>1. PICK k \in I : \A l \in I : k <= l
      BY <1>1, <2>2, LeastNumber
    <3>2. k \in 1..n /\ \A l \in 1..n : l \in I <=> l >= k
      BY <1>1, <3>1
    <3>3. I \subseteq k..n /\ k..n \subseteq I
      <4>1. ASSUME NEW l \in I PROVE l \in k..n
        BY <1>1, <3>1
      <4>2. ASSUME NEW l \in k..n PROVE l \in I
        BY <1>1, <3>1
      <4>. QED BY <4>1, <4>2
    <3>4. k = (k - 1) + 1 /\ k - 1 \in 0..n
      BY <1>1, <3>2
    <3>5. I = (k - 1) + 1..n
      BY <3>3, <3>4
    <3>. QED BY <3>4, <3>5
  <2>. QED BY <2>1, <2>2
<1>3. (\A k \in t + 1..n : k \in I) /\ \A k \in 1..t : k \notin I
  BY <1>1, <1>2
<1>4. PICK before \in Nat :
        /\ Kept(s, I) \in Seq(S) /\ Len(Kept(s, I)) = before + n - t
        /\ \A j \in 1..n - t : Kept(s, I)[before + j] = s[t + j]
        /\ before = 0
  <2>1. \E before \in Nat :
          /\ Kept(s, I) \in Seq(S) /\ Len(Kept(s, I)) = before + n - t
          /\ \A j \in 1..n - t : Kept(s, I)[before + j] = s[t + j]
          /\ (\A k \in 1..t : k \notin I) => before = 0
    <3>1. t \in 0..Len(s) /\ \A k \in t + 1..Len(s) : k \in I
      BY <1>2, <1>3 DEF n
    <3>2. \E before \in Nat :
            /\ Kept(s, I) \in Seq(S) /\ EndsLike(Kept(s, I), s, t, before)
            /\ (\A k \in 1..t : k \notin I) => before = 0
      BY <3>1, KeptEnds
    <3>. QED BY <3>2 DEF n, EndsLike
  <2>. QED BY <1>3, <2>1
<1>5. Len(Kept(s, I)) = n - t /\ \A j \in 1..n - t : Kept(s, I)[j] = s[j + t]
  BY <1>1, <1>2, <1>4
<1>6. Kept(s, I) = [j \in 1..n - t |-> s[j + t]]
  BY <1>4, <1>5
<1>. QED BY <1>2, <1>4, <1>6 DEF n, Cut

LEMMA CutIs ==
  ASSUME NEW S, NEW q \in Seq(S), NEW d \in Nat, d < Len(q)
  PROVE  SubSeq(q, d + 1, Len(q)) = Cut(q, d)
  BY DEF Cut

\* How many elements a cut of len elements to cap drops.
Lost(len, cap) == IF len > cap THEN len - cap ELSE 0

LEMMA NewestIs ==
  ASSUME NEW S, NEW q \in Seq(S), NEW n \in Nat \ {0}, NEW d, d = Lost(Len(q), n)
  PROVE  /\ d \in Nat /\ d <= Len(q) /\ Newest(q, n) \in Seq(S)
         /\ Newest(q, n) = Cut(q, d)
<1>1. CASE Len(q) > n
  <2>1. Newest(q, n) = SubSeq(q, Len(q) - n + 1, Len(q))
    BY <1>1 DEF Newest
  <2>2. d = Len(q) - n /\ d \in Nat /\ d < Len(q) /\ Len(q) - n + 1 = d + 1 /\ Len(q) - d \in Nat
    BY <1>1 DEF Lost
  <2>3. Newest(q, n) = Cut(q, d)
    BY <2>1, <2>2, CutIs
  <2>4. \A k \in 1..Len(q) - d : q[k + d] \in S
    BY <2>2
  <2>5. Newest(q, n) \in Seq(S)
    BY <2>2, <2>3, <2>4 DEF Cut
  <2>6. d <= Len(q)
    BY <2>2
  <2>. QED BY <2>2, <2>3, <2>5, <2>6 DEF Cut
<1>2. CASE ~(Len(q) > n)
  <2>1. d = 0 /\ Newest(q, n) = q /\ Len(q) \in Nat
    BY <1>2 DEF Newest, Lost
  <2>2. q = [k \in 1..Len(q) - d |-> q[k + d]]
    <3>1. q = [k \in 1..Len(q) |-> q[k]] /\ Len(q) - d = Len(q) /\ \A k \in 1..Len(q) : k + d = k
      BY <2>1
    <3>. QED BY <3>1
  <2>. QED BY <2>1, <2>2 DEF Cut
<1>. QED BY <1>1, <1>2

-----------------------------------------------------------------------------
(* Types *)

Entry == [bucket : Int, net : Nets, pair : Pairs]

LEMMA Sizes ==
  /\ Capacity \in Nat \ {0} /\ HistCapacity \in Nat \ {0} /\ HistoryWindowMs \in Nat
  /\ Capacity >= Window \div Resolution + Slack
  /\ Window \div Resolution \in Nat
<1>1. Window \div Resolution \in Nat /\ HistWindow \div HistResolution \in Nat
  BY TapeAssumption
<1>2. Capacity \in Nat \ {0} /\ HistCapacity \in Nat \ {0}
  BY <1>1, TapeAssumption DEF Capacity, HistCapacity, Larger
<1>3. HistoryWindowMs \in Nat
  BY <1>2, TapeAssumption DEF HistoryWindowMs
<1>4. Capacity >= Window \div Resolution + Slack
  BY <1>1, TapeAssumption DEF Capacity, Larger
<1>. QED BY <1>1, <1>2, <1>3, <1>4

LEMMA AppendIs ==
  ASSUME NEW S, NEW q \in Seq(S), NEW e \in S
  PROVE  /\ Append(q, e) \in Seq(S) /\ Len(q) \in Nat /\ Len(Append(q, e)) = Len(q) + 1
         /\ \A k \in 1..Len(q) : Append(q, e)[k] = q[k]
         /\ Append(q, e)[Len(q) + 1] = e
  OBVIOUS

LEMMA BucketOfInt == \A t \in Int : BucketOf(t) \in Int
  BY TapeAssumption DEF BucketOf

Instants == 0..MaxClock

\* The ring after a sample: it has lost its d oldest.
LEMMA BufferedIs ==
  ASSUME TapeTypeOK,
         NEW d, d = Lost(Len(buffer) + 1, Capacity)
  PROVE  /\ d \in Nat /\ Buffered(clock) \in Seq(Instants)
         /\ Len(Buffered(clock)) = Len(buffer) + 1 - d /\ Len(Buffered(clock)) <= Capacity
         /\ \A k \in 1..Len(buffer) + 1 - d :
              Buffered(clock)[k] = IF k + d = Len(buffer) + 1 THEN clock ELSE buffer[k + d]
<1> DEFINE q == Append(buffer, clock)
           n == Len(buffer)
<1>1. buffer \in Seq(Instants) /\ clock \in Instants /\ Capacity \in Nat \ {0}
  BY Sizes DEF TapeTypeOK, Instants
<1>2. /\ q \in Seq(Instants) /\ n \in Nat /\ Len(q) = n + 1
      /\ \A k \in 1..n : q[k] = buffer[k]
      /\ q[n + 1] = clock
  BY <1>1, AppendIs
<1>. HIDE DEF q, n
<1>3. d = Lost(Len(q), Capacity)
  BY <1>2 DEF n
<1>4. /\ d \in Nat /\ d <= Len(q) /\ Newest(q, Capacity) \in Seq(Instants)
      /\ Newest(q, Capacity) = Cut(q, d)
  <2>1. q \in Seq(Instants) /\ Capacity \in Nat \ {0}
    BY <1>1, <1>2
  <2>. QED BY <1>3, <2>1, NewestIs
<1>5. Buffered(clock) = Newest(q, Capacity)
  BY DEF Buffered, q
<1>6. ASSUME NEW k \in 1..n + 1 - d
      PROVE  q[k + d] = IF k + d = n + 1 THEN clock ELSE buffer[k + d]
  <2>1. d \in Nat
    BY <1>4
  <2>2. k + d = n + 1 \/ k + d \in 1..n
    BY <1>2, <2>1
  <2>3. ~(k + d = n + 1 /\ k + d \in 1..n)
    BY <1>2
  <2>. QED BY <1>2, <2>2, <2>3
<1>7. n + 1 - d <= Capacity
  BY <1>1, <1>2, <1>3 DEF Lost
<1>. QED BY <1>2, <1>4, <1>5, <1>6, <1>7 DEF n, Cut

\* The ring after a bucket was closed.
LEMMA ClosedIs ==
  ASSUME TapeTypeOK, current # None,
         NEW d, d = Lost(Len(buckets) + 1, HistCapacity)
  PROVE  /\ d \in {0, 1} /\ (d = 1 => Len(buckets) = HistCapacity)
         /\ Closed \in Seq(SpreadBucket)
         /\ Len(Closed) = Len(buckets) + 1 - d /\ Len(Closed) <= HistCapacity
         /\ \A k \in 1..Len(buckets) + 1 - d :
              Closed[k] = IF k + d = Len(buckets) + 1 THEN current ELSE buckets[k + d]
<1> DEFINE q == Append(buckets, current)
           n == Len(buckets)
<1>1. /\ buckets \in Seq(SpreadBucket) /\ current \in SpreadBucket /\ HistCapacity \in Nat \ {0}
      /\ n <= HistCapacity
  BY Sizes DEF TapeTypeOK
<1>2. /\ q \in Seq(SpreadBucket) /\ n \in Nat /\ Len(q) = n + 1
      /\ \A k \in 1..n : q[k] = buckets[k]
      /\ q[n + 1] = current
  BY <1>1, AppendIs
<1>. HIDE DEF q, n
<1>3. d = Lost(Len(q), HistCapacity)
  BY <1>2 DEF n
<1>4. /\ d \in Nat /\ d <= Len(q) /\ Newest(q, HistCapacity) \in Seq(SpreadBucket)
      /\ Newest(q, HistCapacity) = Cut(q, d)
  BY <1>1, <1>2, <1>3, NewestIs
<1>5. Closed = Newest(q, HistCapacity)
  BY DEF Closed, q
<1>6. ASSUME NEW k \in 1..n + 1 - d
      PROVE  q[k + d] = IF k + d = n + 1 THEN current ELSE buckets[k + d]
  <2>1. d \in Nat
    BY <1>4
  <2>2. k + d = n + 1 \/ k + d \in 1..n
    BY <1>2, <2>1
  <2>3. ~(k + d = n + 1 /\ k + d \in 1..n)
    BY <1>2
  <2>. QED BY <1>2, <2>2, <2>3
<1>7. n + 1 - d <= HistCapacity /\ d \in {0, 1} /\ (d = 1 => n = HistCapacity)
  BY <1>1, <1>2, <1>3 DEF Lost
<1>. QED BY <1>2, <1>4, <1>5, <1>6, <1>7 DEF n, Cut

LEMMA KeptSeq ==
  ASSUME NEW S, NEW s \in Seq(S), NEW I
  PROVE  Kept(s, I) \in Seq(S)
<1>1. Len(s) \in 0..Len(s) /\ \A k \in Len(s) + 1..Len(s) : k \in I
  OBVIOUS
<1>. QED BY <1>1, KeptEnds

LEMMA OpenedIs ==
  ASSUME NEW p \in Point
  PROVE  Opened(p) \in SpreadBucket /\ Opened(p).ts = BucketOf(p.ts) /\ BucketOf(p.ts) \in Int
<1>1. p.ts \in Int /\ p.net \in Nets /\ p.pair \in Pairs
  BY DEF Point
<1>. QED BY <1>1, BucketOfInt DEF Opened, SpreadBucket

LEMMA FoldedIs ==
  ASSUME NEW p \in Point, NEW b \in SpreadBucket
  PROVE  Folded(b, p) \in SpreadBucket /\ Folded(b, p).ts = b.ts
  BY DEF Point, Folded, Larger, SpreadBucket

LEMMA InitTypes == TapeInit => TapeTypeOK
  BY TapeAssumption, Sizes DEF TapeInit, TapeTypeOK

LEMMA RecordTypes ==
  ASSUME TapeTypeOK, NEW p \in Point, RecordPoint(p)
  PROVE  /\ buckets' \in Seq(SpreadBucket) /\ Len(buckets') <= HistCapacity
         /\ current' \in SpreadBucket
<1>1. CASE current # None /\ current' = Folded(current, p) /\ buckets' = buckets
  BY <1>1, FoldedIs DEF TapeTypeOK
<1>2. CASE current # None /\ UNCHANGED <<current, buckets>>
  BY <1>2 DEF TapeTypeOK
<1>3. CASE buckets' = Closed /\ current' = Opened(p)
  <2>1. CASE current = None
    BY <1>3, <2>1, OpenedIs DEF TapeTypeOK, Closed
  <2>2. CASE current # None
    BY <1>3, <2>2, OpenedIs, ClosedIs
  <2>. QED BY <2>1, <2>2
<1>. QED BY <1>1, <1>2, <1>3 DEF RecordPoint

Noted(n, pair) == [bucket |-> BucketOf(clock), net |-> n, pair |-> pair]

\* The ways of a sample.
LEMMA SampleIs ==
  ASSUME Sample
  PROVE  /\ due > 0 /\ due' = due - 1 /\ UNCHANGED <<clock, steps>>
         /\ \/ UNCHANGED <<buffer, buckets, current, steady, log>>
            \/ /\ buffer' = Buffered(clock) /\ steady' = SteadyWith(clock)
               /\ \/ UNCHANGED <<buckets, current, log>>
                  \/ \E n \in Nets, pair \in Pairs :
                       /\ RecordPoint([ts |-> clock, net |-> n, pair |-> pair])
                       /\ log' = IF InOrder(clock) THEN Append(log, Noted(n, pair)) ELSE log
  BY DEF Sample, Noted

LEMMA TypesKept == TapeTypeOK /\ [TapeNext]_tapeVars => TapeTypeOK'
<1>. SUFFICES ASSUME TapeTypeOK, [TapeNext]_tapeVars PROVE TapeTypeOK'
  OBVIOUS
<1>1. CASE Elapse
  BY <1>1, TapeAssumption DEF Elapse, TapeTypeOK
<1>2. CASE SetClock
  BY <1>2, TapeAssumption DEF SetClock, TapeTypeOK
<1>3. CASE Sample
  <2>1. due' \in 0..MaxDue /\ clock' \in 0..MaxClock /\ steps' \in 0..MaxSteps
    BY <1>3, TapeAssumption DEF Sample, TapeTypeOK
  <2>2. /\ buffer' \in Seq(0..MaxClock) /\ Len(buffer') <= Capacity
        /\ steady' \in Seq(0..MaxClock)
    <3>1. CASE UNCHANGED <<buffer, steady>>
      BY <3>1 DEF TapeTypeOK
    <3>2. CASE buffer' = Buffered(clock) /\ steady' = SteadyWith(clock)
      <4>1. steady \in Seq(Instants) /\ clock \in Instants
        BY DEF TapeTypeOK, Instants
      <4>2. SteadyWith(clock) \in Seq(Instants)
        BY <4>1, KeptSeq, AppendIs DEF SteadyWith
      <4>3. Buffered(clock) \in Seq(Instants) /\ Len(Buffered(clock)) <= Capacity
        BY BufferedIs
      <4>. QED BY <3>2, <4>2, <4>3 DEF Instants
    <3>. QED BY <1>3, <3>1, <3>2, SampleIs
  <2>3. /\ buckets' \in Seq(SpreadBucket) /\ Len(buckets') <= HistCapacity
        /\ current' \in SpreadBucket \cup {None} /\ log' \in Seq(Entry)
    <3>1. CASE UNCHANGED <<buckets, current, log>>
      BY <3>1 DEF TapeTypeOK, Entry
    <3>2. ASSUME NEW n \in Nets, NEW pair \in Pairs,
                 RecordPoint([ts |-> clock, net |-> n, pair |-> pair]),
                 log' = IF InOrder(clock) THEN Append(log, Noted(n, pair)) ELSE log
          PROVE  /\ buckets' \in Seq(SpreadBucket) /\ Len(buckets') <= HistCapacity
                 /\ current' \in SpreadBucket \cup {None} /\ log' \in Seq(Entry)
      <4>1. [ts |-> clock, net |-> n, pair |-> pair] \in Point
        BY DEF TapeTypeOK, Point
      <4>2. Noted(n, pair) \in Entry /\ log \in Seq(Entry)
        BY BucketOfInt, TapeAssumption DEF TapeTypeOK, Noted, Entry
      <4>. QED BY <3>2, <4>1, <4>2, RecordTypes, AppendIs
    <3>. QED BY <1>3, <3>1, <3>2, SampleIs
  <2>. QED BY <2>1, <2>2, <2>3 DEF TapeTypeOK, Entry
<1>4. CASE UNCHANGED tapeVars
  BY <1>4 DEF tapeVars, TapeTypeOK
<1>. QED BY <1>1, <1>2, <1>3, <1>4 DEF TapeNext

\* The ring, the buckets and the counters stay in their types and sizes
\* (crates/spread_tape/src/lib.rs:115-143, 152-200).
THEOREM TapeTypes == TapeSpec => []TapeTypeOK
  BY InitTypes, TypesKept, PTL DEF TapeSpec

-----------------------------------------------------------------------------
(* The ring *)

LEMMA SteadyIs ==
  ASSUME TapeTypeOK, InWindow
  PROVE  \E t \in 0..Len(steady) :
           /\ SteadyWith(clock) \in Seq(Instants)
           /\ Len(SteadyWith(clock)) = Len(steady) - t + 1
           /\ \A j \in 1..Len(steady) - t :
                SteadyWith(clock)[j] = steady[t + j] /\ steady[t + j] >= clock - Window
           /\ SteadyWith(clock)[Len(steady) - t + 1] = clock
<1> DEFINE I == {k \in DOMAIN steady : steady[k] >= clock - Window}
           m == Len(steady)
           q == Kept(steady, I)
<1>1. /\ steady \in Seq(Instants) /\ clock \in Instants /\ clock \in Int /\ m \in Nat
      /\ Window \in Int /\ DOMAIN steady = 1..m /\ \A k \in 1..m : steady[k] \in Int
  BY TapeAssumption DEF TapeTypeOK, Instants
<1>2. I \in SUBSET (1..m)
  BY <1>1
<1>3. ASSUME NEW k \in I, NEW j \in k..m PROVE j \in I
  <2>1. j \in 1..m /\ k \in 1..j /\ k \in 1..m
    BY <1>1, <1>2
  <2>2. steady[k] <= steady[j]
    BY <1>1, <2>1 DEF InWindow
  <2>. QED BY <1>1, <2>1, <2>2
<1>. HIDE DEF I
<1>4. PICK t \in 0..m : I = t + 1..m /\ q \in Seq(Instants) /\ q = Cut(steady, t)
  BY <1>1, <1>2, <1>3, KeptAbove
<1>5. Len(q) = m - t /\ \A j \in 1..m - t : q[j] = steady[t + j]
  <2>1. m - t \in Nat /\ q = [j \in 1..m - t |-> steady[j + t]] /\ t \in Nat
    BY <1>1, <1>4 DEF Cut
  <2>. HIDE DEF q, m
  <2>2. Len(q) = m - t /\ \A j \in 1..m - t : q[j] = steady[j + t]
    BY <2>1
  <2>3. \A j \in 1..m - t : j + t = t + j
    BY <2>1
  <2>. QED BY <2>2, <2>3
<1>6. SteadyWith(clock) = Append(q, clock)
  BY DEF SteadyWith, I
<1>. HIDE DEF q, m
<1>7. /\ Append(q, clock) \in Seq(Instants) /\ Len(Append(q, clock)) = m - t + 1
      /\ \A j \in 1..m - t : Append(q, clock)[j] = q[j]
      /\ Append(q, clock)[m - t + 1] = clock
  BY <1>1, <1>4, <1>5, AppendIs
<1>8. \A j \in 1..m - t : t + j \in I
  BY <1>1, <1>4
<1>. QED BY <1>4, <1>5, <1>6, <1>7, <1>8 DEF I, m

\* A late timer fits into the slack.
Prompt == MaxDue <= Slack

LEMMA PacedFits ==
  ASSUME Prompt, TapeTypeOK, NEW n \in Nat, n * Resolution <= Window, NEW len \in Nat,
         NEW late \in Nat, len + late <= MaxDue + n
  PROVE  len <= Capacity
<1> DEFINE whole == Window \div Resolution
<1>1. whole \in Nat /\ Capacity >= whole + Slack /\ Capacity \in Nat
  BY Sizes
<1>2. Window < (whole + 1) * Resolution
  BY TapeAssumption
<1>3. Resolution \in Nat \ {0} /\ Window \in Nat /\ MaxDue \in Nat /\ Slack \in Nat
  BY TapeAssumption
<1>. HIDE DEF whole
<1>4. n <= whole
  <2>1. n >= whole + 1 => n * Resolution >= (whole + 1) * Resolution
    BY <1>1, <1>3
  <2>2. n * Resolution \in Int /\ (whole + 1) * Resolution \in Int
    BY <1>1, <1>3
  <2>. QED BY <1>1, <1>2, <1>3, <2>1, <2>2
<1>. QED BY <1>1, <1>3, <1>4 DEF Prompt

LEMMA SampleRing ==
  ASSUME Prompt, RingInv, due > 0, due' = due - 1, clock' = clock,
         buffer' = Buffered(clock), steady' = SteadyWith(clock)
  PROVE  Ends' /\ InWindow' /\ Paced'
<1> DEFINE m == Len(steady)
           b == Len(buffer)
           d == Lost(b + 1, Capacity)
<1>1. /\ m \in Nat /\ b \in Nat /\ m <= b /\ Capacity \in Nat \ {0} /\ clock \in Int
      /\ DOMAIN steady = 1..m /\ Window \in Nat /\ MaxDue \in Nat /\ due \in Nat /\ due <= MaxDue
      /\ \A k \in 1..m : steady[k] \in Int
  BY SMTT(30), Sizes, TapeAssumption DEF RingInv, TapeTypeOK, Ends
<1>2. PICK t \in 0..m :
        /\ steady' \in Seq(Instants) /\ Len(steady') = m - t + 1
        /\ \A j \in 1..m - t : steady'[j] = steady[t + j] /\ steady[t + j] >= clock - Window
        /\ steady'[m - t + 1] = clock
  BY SteadyIs DEF RingInv
<1>3. /\ d \in Nat /\ Len(buffer') = b + 1 - d
      /\ \A k \in 1..b + 1 - d : buffer'[k] = IF k + d = b + 1 THEN clock ELSE buffer[k + d]
  BY BufferedIs DEF RingInv
<1> DEFINE l == m - t + 1
<1>4. l \in Nat \ {0} /\ l <= m + 1 /\ Len(steady') = l /\ DOMAIN steady' = 1..l /\ Last(steady') = clock
  BY <1>1, <1>2 DEF Last
<1>. HIDE DEF m, b
<1>5. d = IF b + 1 > Capacity THEN b + 1 - Capacity ELSE 0
  BY <1>1 DEF Lost
<1>. HIDE DEF d
<1>6. Paced'
  <2>. SUFFICES ASSUME NEW j \in 1..l
                PROVE  \E n \in Nat : /\ clock - steady'[j] = n * Resolution
                                      /\ l - j + 1 + due' <= MaxDue + n
    BY <1>4 DEF Paced
  <2>1. CASE j = l
    <3>1. clock - steady'[j] = 0 * Resolution /\ l - j + 1 + due' <= MaxDue + 0
      BY <1>1, <1>2, <1>4, <2>1, TapeAssumption
    <3>. QED BY <3>1
  <2>2. CASE j # l
    <3>1. j \in 1..m - t /\ t + j \in 1..m
      BY <1>1, <1>2, <2>2
    <3>2. PICK n \in Nat : /\ clock - steady[t + j] = n * Resolution
                           /\ m - (t + j) + 1 + due <= MaxDue + n
      BY <1>1, <3>1 DEF RingInv, Paced, m
    <3>3. steady'[j] = steady[t + j] /\ l - j + 1 + due' = m - (t + j) + 1 + due
      BY <1>1, <1>2, <3>1
    <3>. QED BY <3>2, <3>3
  <2>. QED BY <2>1, <2>2
<1>7. InWindow'
  <2>1. \A j \in 1..l : steady'[j] <= clock /\ steady'[j] >= clock - Window
    <3>. SUFFICES ASSUME NEW j \in 1..l PROVE steady'[j] <= clock /\ steady'[j] >= clock - Window
      OBVIOUS
    <3>1. CASE j = l
      BY <1>1, <1>2, <3>1
    <3>2. CASE j # l
      <4>1. j \in 1..m - t /\ t + j \in 1..m
        BY <1>1, <1>2, <3>2
      <4>. QED BY <1>1, <1>2, <4>1 DEF RingInv, InWindow, m
    <3>. QED BY <3>1, <3>2
  <2>2. ASSUME NEW j \in 1..l, NEW i \in 1..j PROVE steady'[i] <= steady'[j]
    <3>1. CASE j = l
      <4>1. i \in 1..l
        BY <1>4
      <4>. QED BY <1>2, <2>1, <3>1, <4>1
    <3>2. CASE j # l
      <4>1. j \in 1..m - t /\ i \in 1..m - t /\ t + j \in 1..m /\ t + i \in 1..t + j
        BY <1>1, <1>2, <3>2
      <4>2. steady[t + i] <= steady[t + j]
        BY <1>1, <4>1 DEF RingInv, InWindow, m
      <4>. QED BY <1>2, <4>1, <4>2
    <3>. QED BY <3>1, <3>2
  <2>. QED BY <1>4, <2>1, <2>2 DEF InWindow
<1>8. l <= Capacity
  <2>1. PICK n \in Nat : clock - steady'[1] = n * Resolution /\ l - 1 + 1 + due' <= MaxDue + n
    BY <1>4, <1>6 DEF Paced
  <2>2. steady'[1] >= clock - Window
    BY <1>4, <1>7 DEF InWindow
  <2>3. steady'[1] \in Int
    BY <1>2, <1>4, TapeAssumption DEF Instants
  <2>4. n * Resolution <= Window /\ due' \in Nat /\ l + due' <= MaxDue + n
    BY <1>1, <1>4, <2>1, <2>2, <2>3
  <2>. QED BY <1>4, <2>4, PacedFits DEF RingInv
<1>9. Ends'
  <2>1. l <= b + 1 - d
    BY <1>1, <1>4, <1>5, <1>8
  <2>2. ASSUME NEW j \in 1..l PROVE steady'[j] = buffer'[b + 1 - d - l + j]
    <3>1. b + 1 - d - l + j \in 1..b + 1 - d /\ (b + 1 - d - l + j) + d = b - m + t + j
      BY <1>1, <1>2, <1>3, <2>1
    <3>2. CASE j = l
      BY <1>1, <1>2, <1>3, <3>1, <3>2
    <3>3. CASE j # l
      <4>1. j \in 1..m - t /\ t + j \in 1..m /\ b - m + t + j # b + 1
        BY <1>1, <1>2, <3>3
      <4>2. steady[t + j] = buffer[b - m + (t + j)]
        BY <1>1, <4>1 DEF RingInv, Ends, m, b
      <4>3. b - m + (t + j) = b - m + t + j
        BY <1>1, <1>2
      <4>. QED BY <1>2, <1>3, <3>1, <4>1, <4>2, <4>3
    <3>. QED BY <3>2, <3>3
  <2>3. Len(steady') <= Len(buffer') /\ Len(buffer') - Len(steady') = b + 1 - d - l
    BY <1>1, <1>3, <1>4, <2>1
  <2>. QED BY <1>4, <2>2, <2>3 DEF Ends
<1>. QED BY <1>6, <1>7, <1>9

LEMMA RingKept == Prompt /\ RingInv /\ [TapeNext]_tapeVars => RingInv'
<1>. SUFFICES ASSUME Prompt, RingInv, [TapeNext]_tapeVars PROVE RingInv'
  OBVIOUS
<1>0. TapeTypeOK'
  BY TypesKept DEF RingInv
<1>1. CASE Elapse
  <2>1. /\ due' = due + 1 /\ clock' = clock + Resolution /\ UNCHANGED <<buffer, steady>>
        /\ clock \in Int /\ due \in Int /\ Resolution \in Nat /\ steady \in Seq(Int)
    BY <1>1, TapeAssumption DEF Elapse, RingInv, TapeTypeOK
  <2>2. Ends'
    BY <2>1 DEF RingInv, Ends
  <2>3. InWindow'
    BY <2>1 DEF RingInv, InWindow
  <2>4. Paced'
    <3>. SUFFICES ASSUME NEW k \in DOMAIN steady
                  PROVE  \E n \in Nat : /\ clock' - steady[k] = n * Resolution
                                        /\ Len(steady) - k + 1 + due' <= MaxDue + n
      BY <2>1 DEF Paced
    <3>1. PICK n \in Nat : /\ clock - steady[k] = n * Resolution
                           /\ Len(steady) - k + 1 + due <= MaxDue + n
      BY DEF RingInv, Paced
    <3>2. (n + 1) * Resolution = n * Resolution + Resolution /\ n * Resolution \in Int
      BY <2>1
    <3>3. clock' - steady[k] = (n + 1) * Resolution
      <4>1. steady[k] \in Int
        BY <2>1
      <4>2. clock' - steady[k] = (clock - steady[k]) + Resolution
        BY <2>1, <4>1
      <4>. QED BY <3>1, <3>2, <4>2
    <3>4. Len(steady) - k + 1 + due' <= MaxDue + (n + 1)
      BY <2>1, <3>1, TapeAssumption
    <3>. QED BY <3>3, <3>4
  <2>. QED BY <1>0, <2>2, <2>3, <2>4 DEF RingInv
<1>2. CASE SetClock
  BY <1>0, <1>2 DEF SetClock, RingInv, TapeTypeOK, Ends, InWindow, Paced
<1>3. CASE Sample
  <2>1. /\ due > 0 /\ due' = due - 1 /\ clock' = clock
        /\ \/ UNCHANGED <<buffer, steady>>
           \/ buffer' = Buffered(clock) /\ steady' = SteadyWith(clock)
    BY <1>3, SampleIs
  <2>2. CASE UNCHANGED <<buffer, steady>>
    <3>1. Ends' /\ InWindow'
      BY <2>1, <2>2 DEF RingInv, Ends, InWindow
    <3>2. Paced'
      <4>. SUFFICES ASSUME NEW k \in DOMAIN steady
                    PROVE  \E n \in Nat : /\ clock - steady[k] = n * Resolution
                                          /\ Len(steady) - k + 1 + due' <= MaxDue + n
        BY <2>1, <2>2 DEF Paced
      <4>1. PICK n \in Nat : /\ clock - steady[k] = n * Resolution
                             /\ Len(steady) - k + 1 + due <= MaxDue + n
        BY DEF RingInv, Paced
      <4>2. k \in Int /\ Len(steady) \in Int /\ due \in Int /\ MaxDue \in Int
        BY TapeAssumption DEF RingInv, TapeTypeOK
      <4>3. Len(steady) - k + 1 + due' <= MaxDue + n
        BY <2>1, <4>1, <4>2
      <4>. QED BY <4>1, <4>3
    <3>. QED BY <1>0, <3>1, <3>2 DEF RingInv
  <2>3. CASE buffer' = Buffered(clock) /\ steady' = SteadyWith(clock)
    BY <1>0, <2>1, <2>3, SampleRing DEF RingInv
  <2>. QED BY <2>1, <2>2, <2>3
<1>4. CASE UNCHANGED tapeVars
  BY <1>0, <1>4 DEF tapeVars, RingInv, Ends, InWindow, Paced
<1>. QED BY <1>1, <1>2, <1>3, <1>4 DEF TapeNext

LEMMA EndsWith ==
  ASSUME NEW S, NEW s \in Seq(S), NEW q \in Seq(S), NEW before \in Nat,
         Len(q) = before + Len(s), \A j \in 1..Len(s) : q[before + j] = s[j]
  PROVE  IsSuffix(s, q)
<1> DEFINE m == Len(s)
           n == Len(q)
           x == [i \in 1..m |-> s[m - i + 1]]
           y == [i \in 1..n |-> q[n - i + 1]]
<1>1. m \in Nat /\ n \in Nat /\ n = before + m
  OBVIOUS
<1>2. Reverse(s) = x /\ Reverse(q) = y
  BY DEF Reverse
<1>3. \A i \in 1..m : s[m - i + 1] \in S
  BY <1>1
<1>4. \A i \in 1..n : q[n - i + 1] \in S
  BY <1>1
<1>5. ASSUME NEW i \in 1..m PROVE s[m - i + 1] = q[n - i + 1] /\ i \in 1..n
  <2>1. m - i + 1 \in 1..m /\ n - i + 1 = before + (m - i + 1)
    BY <1>1
  <2>. QED BY <1>1, <2>1
<1>. HIDE DEF m, n
<1>6. x \in Seq(S) /\ y \in Seq(S) /\ Len(x) = m /\ Len(y) = n
  BY <1>1, <1>3, <1>4
<1>7. \A i \in 1..m : x[i] = y[i]
  BY <1>5
<1>. HIDE DEF x, y
<1>8. SubSeq(x, 1, m) = [i \in 1..m |-> x[i]] /\ SubSeq(y, 1, m) = [i \in 1..m |-> y[i]]
  BY <1>1, <1>6
<1>9. IsPrefix(x, y)
  BY <1>1, <1>6, <1>7, <1>8 DEF IsPrefix
<1>. QED BY <1>2, <1>9 DEF IsSuffix

LEMMA RingShows == RingInv => BackfillIsComplete
<1>. SUFFICES ASSUME RingInv, steady # <<>> PROVE IsSuffix(steady, History(Window))
  BY DEF BackfillIsComplete
<1> DEFINE m == Len(steady)
           b == Len(buffer)
           I == {k \in DOMAIN buffer : buffer[k] >= Last(buffer) - Window}
<1>1. /\ steady \in Seq(Instants) /\ buffer \in Seq(Instants) /\ m \in Nat \ {0} /\ b \in Nat
      /\ DOMAIN buffer = 1..b /\ DOMAIN steady = 1..m
  BY DEF RingInv, TapeTypeOK, Instants
<1>2. m <= b /\ \A k \in 1..m : steady[k] = buffer[b - m + k]
  BY <1>1 DEF RingInv, Ends
<1>3. b - m \in 0..b /\ b - m + m = b
  BY <1>1, <1>2
<1>4. Last(buffer) = Last(steady)
  BY <1>1, <1>2, <1>3 DEF Last
<1>5. ASSUME NEW k \in (b - m) + 1..b PROVE k \in I
  <2>1. k - (b - m) \in 1..m /\ b - m + (k - (b - m)) = k /\ k \in 1..b
    BY <1>1, <1>2
  <2>2. buffer[k] = steady[k - (b - m)] /\ steady[k - (b - m)] >= Last(steady) - Window
    BY <1>1, <1>2, <2>1 DEF RingInv, InWindow
  <2>. QED BY <1>1, <1>4, <2>1, <2>2
<1>. HIDE DEF I
<1>6. History(Window) = Kept(buffer, I)
  BY DEF History, I
<1>7. PICK before \in Nat :
        Kept(buffer, I) \in Seq(Instants) /\ EndsLike(Kept(buffer, I), buffer, b - m, before)
  BY <1>1, <1>3, <1>5, KeptEnds
<1>8. Len(Kept(buffer, I)) = before + m /\ \A j \in 1..m : Kept(buffer, I)[before + j] = steady[j]
  <2>1. b - (b - m) = m /\ before + b - (b - m) = before + m
    BY <1>1
  <2>. QED BY <1>2, <1>7, <2>1 DEF EndsLike
<1>. QED BY <1>1, <1>6, <1>7, <1>8, EndsWith

\* If the timer is never later than the slack of the ring, a watcher gets every
\* sample of the window since the clock was last set, also after a burst of
\* missed ticks (crates/spread_tape/src/lib.rs:87, 117-122, 130-143).
THEOREM BackfillComplete ==
  ASSUME Prompt
  PROVE  TapeSpec => []BackfillIsComplete
<1>1. TapeInit => RingInv
  BY InitTypes, Sizes DEF TapeInit, RingInv, Ends, InWindow, Paced
<1>2. RingInv /\ [TapeNext]_tapeVars => RingInv'
  BY RingKept
<1>. QED BY <1>1, <1>2, RingShows, PTL DEF TapeSpec

-----------------------------------------------------------------------------
(* The order of the buckets *)

LEMMA Grid ==
  /\ \A t \in Int : BucketOf(t) \in Int /\ OnGrid(BucketOf(t))
  /\ \A a, b \in Int : OnGrid(a) /\ OnGrid(b) /\ a < b => a + HistResolution <= b
<1>1. HistResolution \in Nat \ {0}
  BY TapeAssumption
<1>2. ASSUME NEW a \in Int, NEW b \in Int, OnGrid(a), OnGrid(b), a < b
      PROVE  a + HistResolution <= b
  <2>1. PICK i \in Int : a = i * HistResolution
    BY <1>1, <1>2 DEF OnGrid
  <2>2. PICK j \in Int : b = j * HistResolution
    BY <1>1, <1>2 DEF OnGrid
  <2>3. i + 1 <= j
    BY <1>1, <1>2, <2>1, <2>2
  <2>4. (i + 1) * HistResolution <= j * HistResolution
    BY <1>1, <2>3
  <2>5. (i + 1) * HistResolution = a + HistResolution
    BY <1>1, <2>1
  <2>. QED BY <2>2, <2>4, <2>5
<1>3. ASSUME NEW t \in Int PROVE BucketOf(t) \in Int /\ OnGrid(BucketOf(t))
  BY <1>1 DEF BucketOf, OnGrid
<1>. QED BY <1>2, <1>3

\* What a point does to the buckets: it is dropped, folded in, or opens a bucket.
LEMMA PointIs ==
  ASSUME Ordered, NEW n \in Nets, NEW pair \in Pairs,
         NEW p, p = [ts |-> clock, net |-> n, pair |-> pair], RecordPoint(p),
         log' = IF InOrder(clock) THEN Append(log, Noted(n, pair)) ELSE log
  PROVE  \/ UNCHANGED <<buckets, current, log>>
         \/ /\ current # None /\ current.ts = BucketOf(clock) /\ current' = Folded(current, p)
            /\ buckets' = buckets /\ log' = Append(log, Noted(n, pair))
         \/ /\ current # None => BucketOf(clock) > current.ts
            /\ current' = Opened(p) /\ buckets' = Closed /\ log' = Append(log, Noted(n, pair))
<1>1. /\ p.ts = clock /\ BucketOf(clock) \in Int
      /\ current # None => current.ts \in Int /\ log # <<>> /\ current.ts = Last(log).bucket
      /\ current = None => log = <<>>
  <2>1. clock \in Int
    BY TapeAssumption DEF Ordered, TapeTypeOK
  <2>2. current # None => current.ts \in Int
    BY DEF Ordered, TapeTypeOK, SpreadBucket
  <2>. QED BY <2>1, <2>2, BucketOfInt DEF Ordered, OpenIsLast, Last
<1>. QED BY <1>1 DEF RecordPoint, InOrder

LEMMA NotedIs ==
  ASSUME TapeTypeOK, NEW n \in Nets, NEW pair \in Pairs
  PROVE  /\ Noted(n, pair) \in Entry /\ Noted(n, pair).bucket = BucketOf(clock)
         /\ Noted(n, pair).net = n /\ Noted(n, pair).pair = pair
         /\ BucketOf(clock) \in Int /\ OnGrid(BucketOf(clock))
<1>1. clock \in Int
  BY TapeAssumption DEF TapeTypeOK
<1>. QED BY <1>1, Grid DEF Noted, Entry

\* A point that opens or extends the newest bucket.
LEMMA LogKept ==
  ASSUME Ordered, NEW e \in Entry, log' = Append(log, e), OnGrid(e.bucket),
         current # None => current.ts <= e.bucket
  PROVE  LogInOrder'
<1>1. /\ log \in Seq(Entry) /\ Len(log) \in Nat /\ log' \in Seq(Entry) /\ Len(log') = Len(log) + 1
      /\ \A k \in 1..Len(log) : log'[k] = log[k]
      /\ log'[Len(log) + 1] = e
  BY AppendIs DEF Ordered, TapeTypeOK, Entry
<1>2. \A k \in 1..Len(log) : log[k].bucket \in Int
  <2>1. \A k \in 1..Len(log) : log[k] \in Entry
    BY <1>1
  <2>. QED BY <2>1 DEF Entry
<1>3. \A k \in 1..Len(log) : log[k].bucket <= e.bucket
  <2>. SUFFICES ASSUME NEW k \in 1..Len(log) PROVE log[k].bucket <= e.bucket
    OBVIOUS
  <2>1. Len(log) \in DOMAIN log /\ k \in 1..Len(log) /\ log # <<>>
    BY <1>1
  <2>2. log[k].bucket <= log[Len(log)].bucket /\ current.ts = log[Len(log)].bucket /\ current # None
    BY <2>1 DEF Ordered, OpenIsLast, LogInOrder
  <2>3. log[Len(log)].bucket \in Int /\ e.bucket \in Int
    BY <1>1, <1>2, <2>1 DEF Entry
  <2>. QED BY <1>2, <2>2, <2>3
<1>4. ASSUME NEW j \in 1..Len(log) + 1, NEW i \in 1..j
      PROVE  OnGrid(log'[j].bucket) /\ log'[i].bucket <= log'[j].bucket
  <2>1. CASE j = Len(log) + 1
    <3>1. e.bucket \in Int
      BY DEF Entry
    <3>. QED BY <1>1, <1>3, <2>1, <3>1
  <2>2. CASE j # Len(log) + 1
    <3>1. j \in 1..Len(log) /\ i \in 1..Len(log)
      BY <1>1, <2>2
    <3>. QED BY <1>1, <3>1 DEF Ordered, LogInOrder
  <2>. QED BY <2>1, <2>2
<1>. QED BY <1>1, <1>4 DEF LogInOrder

LEMMA BucketsBehind ==
  ASSUME TapeTypeOK, Spaced, current # None, NEW j \in 1..Len(buckets)
  PROVE  /\ buckets[j].ts \in Int /\ current.ts \in Int /\ buckets[j].ts < current.ts
         /\ (Len(buckets) + 1 - j) * HistResolution \in Int
<1> DEFINE n == Len(buckets)
           x == n + 1 - j
<1>1. buckets[j].ts \in Int /\ current.ts \in Int /\ n \in Nat
  <2>1. buckets[j] \in SpreadBucket /\ current \in SpreadBucket /\ n \in Nat
    BY DEF TapeTypeOK
  <2>. QED BY <2>1 DEF SpreadBucket
<1>2. x \in Nat \ {0} /\ HistResolution \in Nat \ {0}
  BY <1>1, TapeAssumption
<1>3. buckets[j].ts + x * HistResolution <= current.ts
  BY DEF Spaced
<1>. HIDE DEF x
<1>4. x * HistResolution > 0 /\ x * HistResolution \in Int
  BY <1>2
<1>. QED BY <1>1, <1>3, <1>4 DEF x

LEMMA SpacedKept ==
  ASSUME TapeTypeOK, Spaced, current # None, OnGrid(current.ts), buckets' = Closed,
         NEW s \in Int, OnGrid(s), current.ts < s, current'.ts = s
  PROVE  Spaced'
<1> DEFINE n == Len(buckets)
           d == Lost(n + 1, HistCapacity)
<1>1. /\ d \in {0, 1} /\ n \in Nat /\ Len(buckets') = n + 1 - d /\ DOMAIN buckets' = 1..n + 1 - d
      /\ \A k \in 1..n + 1 - d : buckets'[k] = IF k + d = n + 1 THEN current ELSE buckets[k + d]
  BY ClosedIs DEF TapeTypeOK
<1>. HIDE DEF d
<1>2. current.ts \in Int /\ current.ts + HistResolution <= s /\ HistResolution \in Nat \ {0}
  BY Grid, TapeAssumption DEF TapeTypeOK, SpreadBucket
<1>3. ASSUME NEW k \in 1..n + 1 - d
      PROVE  buckets'[k].ts + (n + 1 - d + 1 - k) * HistResolution <= s
  <2>1. CASE k + d = n + 1
    <3>1. n + 1 - d + 1 - k = 1 /\ buckets'[k] = current
      BY <1>1, <2>1
    <3>2. 1 * HistResolution = HistResolution
      BY <1>2
    <3>. QED BY <1>2, <3>1, <3>2
  <2>2. CASE k + d # n + 1
    <3> DEFINE x == n + 1 - (k + d)
    <3>1. k + d \in 1..n /\ buckets'[k] = buckets[k + d] /\ n + 1 - d + 1 - k = x + 1 /\ x \in Nat
      BY <1>1, <2>2
    <3>2. buckets[k + d].ts + x * HistResolution <= current.ts
      BY <3>1 DEF Spaced
    <3>3. buckets[k + d].ts \in Int /\ x * HistResolution \in Int
      BY <3>1, BucketsBehind
    <3>. HIDE DEF x
    <3>4. (x + 1) * HistResolution = x * HistResolution + HistResolution
      BY <1>2, <3>1
    <3>. QED BY <1>2, <3>1, <3>2, <3>3, <3>4
  <2>. QED BY <2>1, <2>2
<1>4. ASSUME NEW k \in 1..n + 1 - d, NEW i \in 1..(k - 1)
      PROVE  buckets'[i].ts < buckets'[k].ts
  <2>1. i + d \in 1..n /\ i \in 1..n + 1 - d /\ i + d # n + 1 /\ buckets'[i] = buckets[i + d]
    BY <1>1
  <2>2. CASE k + d = n + 1
    BY <1>1, <2>1, <2>2, BucketsBehind
  <2>3. CASE k + d # n + 1
    <3> DEFINE l == k + d
    <3>1. l \in 1..n /\ buckets'[k] = buckets[l]
      BY <1>1, <2>3
    <3>2. i + d \in 1..(l - 1)
      BY <1>1, <2>1
    <3>. HIDE DEF l
    <3>3. buckets[i + d].ts < buckets[l].ts
      <4>1. l \in DOMAIN buckets
        BY <3>1 DEF TapeTypeOK
      <4>2. \A h \in 1..(l - 1) : buckets[h].ts < buckets[l].ts
        BY <4>1, Zenon DEF Spaced
      <4>. QED BY <3>2, <4>2
    <3>. QED BY <2>1, <3>1, <3>3
  <2>. QED BY <2>2, <2>3
<1>. QED BY <1>1, <1>3, <1>4 DEF Spaced

LEMMA OrderedKept == Ordered /\ [TapeNext]_tapeVars => Ordered'
<1>. SUFFICES ASSUME Ordered, [TapeNext]_tapeVars PROVE Ordered'
  OBVIOUS
<1>0. TapeTypeOK'
  BY TypesKept DEF Ordered
<1>1. CASE UNCHANGED <<buckets, current, log>>
  BY <1>0, <1>1 DEF Ordered, OpenIsLast, LogInOrder, Spaced
<1>2. ASSUME NEW n \in Nets, NEW pair \in Pairs,
             RecordPoint([ts |-> clock, net |-> n, pair |-> pair]),
             log' = IF InOrder(clock) THEN Append(log, Noted(n, pair)) ELSE log
      PROVE  Ordered'
  <2> DEFINE p == [ts |-> clock, net |-> n, pair |-> pair]
             e == Noted(n, pair)
  <2>1. p \in Point
    BY DEF Ordered, TapeTypeOK, Point
  <2>2. /\ e \in Entry /\ e.bucket = BucketOf(clock) /\ e.bucket \in Int /\ OnGrid(e.bucket)
    BY NotedIs DEF Ordered
  <2>3. \/ UNCHANGED <<buckets, current, log>>
        \/ /\ current # None /\ current.ts = e.bucket /\ current' = Folded(current, p)
           /\ buckets' = buckets /\ log' = Append(log, e)
        \/ /\ current # None => e.bucket > current.ts
           /\ current' = Opened(p) /\ buckets' = Closed /\ log' = Append(log, e)
    BY <1>2, <2>2, PointIs
  <2>4. Folded(current, p).ts = current.ts /\ Opened(p).ts = e.bucket
    BY <2>1, <2>2 DEF Folded, Opened
  <2>. HIDE DEF p, e
  <2>5. ASSUME log' = Append(log, e), current'.ts = e.bucket, current' # None,
               current # None => current.ts <= e.bucket
        PROVE  OpenIsLast' /\ LogInOrder'
    <3>1. log \in Seq(Entry)
      BY DEF Ordered, TapeTypeOK, Entry
    <3>2. log' # <<>> /\ log'[Len(log')] = e
      BY <2>2, <2>5, <3>1, AppendIs
    <3>. QED BY <2>2, <2>5, <3>2, LogKept DEF OpenIsLast
  <2>6. CASE /\ current # None /\ current.ts = e.bucket /\ current' = Folded(current, p)
             /\ buckets' = buckets /\ log' = Append(log, e)
    <3>1. current' # None
      BY <2>1, <2>6, FoldedIs, TapeAssumption DEF Ordered, TapeTypeOK
    <3>2. Spaced'
      BY <2>4, <2>6 DEF Ordered, Spaced
    <3>. QED BY <1>0, <2>2, <2>4, <2>5, <2>6, <3>1, <3>2 DEF Ordered
  <2>7. CASE /\ current # None => e.bucket > current.ts
             /\ current' = Opened(p) /\ buckets' = Closed /\ log' = Append(log, e)
    <3>1. current' # None
      BY <2>1, <2>7, OpenedIs, TapeAssumption
    <3>2. current # None => current.ts \in Int
      BY DEF Ordered, TapeTypeOK, SpreadBucket
    <3>3. CASE current = None
      <4>1. buckets' = <<>>
        BY <2>7, <3>3 DEF Ordered, OpenIsLast, Closed
      <4>2. Spaced'
        BY <4>1 DEF Spaced
      <4>. QED BY <1>0, <2>4, <2>5, <2>7, <3>1, <3>3, <4>2 DEF Ordered
    <3>4. CASE current # None
      <4>1. OnGrid(current.ts)
        <5>1. log # <<>> /\ Len(log) \in DOMAIN log /\ current.ts = log[Len(log)].bucket
          BY <3>4 DEF Ordered, OpenIsLast, TapeTypeOK
        <5>. QED BY <5>1 DEF Ordered, LogInOrder
      <4>2. Spaced'
        BY <2>2, <2>4, <2>7, <3>2, <3>4, <4>1, SpacedKept DEF Ordered
      <4>. QED BY <1>0, <2>2, <2>4, <2>5, <2>7, <3>1, <3>2, <3>4, <4>2 DEF Ordered
    <3>. QED BY <3>3, <3>4
  <2>. QED BY <1>1, <2>3, <2>6, <2>7
<1>. QED BY <1>1, <1>2, SampleIs DEF TapeNext, Elapse, SetClock, tapeVars

LEMMA OrderedHolds == TapeSpec => []Ordered
<1>1. TapeInit => Ordered
  BY InitTypes DEF TapeInit, Ordered, OpenIsLast, LogInOrder, Spaced
<1>. QED BY <1>1, OrderedKept, PTL DEF TapeSpec

-----------------------------------------------------------------------------
(* What the buckets say *)

LEMMA MembersIs ==
  ASSUME TapeTypeOK, NEW e \in Entry, log' = Append(log, e), NEW s
  PROVE  /\ Len(log) \in Nat /\ Members(s) \subseteq 1..Len(log) /\ IsFiniteSet(Members(s))
         /\ Cardinality(Members(s)) \in Nat
         /\ \A j \in 1..Len(log) : log'[j] = log[j] /\ log[j] \in Entry
         /\ log'[Len(log) + 1] = e
         /\ Members(s)' = IF e.bucket = s THEN Members(s) \cup {Len(log) + 1} ELSE Members(s)
<1>1. /\ log \in Seq(Entry) /\ Len(log) \in Nat /\ Len(log') = Len(log) + 1
      /\ log' \in Seq(Entry) /\ \A j \in 1..Len(log) : log'[j] = log[j] /\ log[j] \in Entry
      /\ log'[Len(log) + 1] = e
  <2>1. log \in Seq(Entry)
    BY DEF TapeTypeOK, Entry
  <2>2. \A j \in 1..Len(log) : log[j] \in Entry
    BY <2>1
  <2>. QED BY <2>1, <2>2, AppendIs
<1>2. DOMAIN log = 1..Len(log) /\ DOMAIN log' = 1..Len(log) + 1
  BY <1>1
<1>3. Members(s) \subseteq 1..Len(log)
  BY <1>2 DEF Members
<1>4. IsFiniteSet(Members(s)) /\ Cardinality(Members(s)) \in Nat
  <2>1. IsFiniteSet(1..Len(log))
    BY <1>1, FS_Interval
  <2>2. IsFiniteSet(Members(s))
    BY <1>3, <2>1, FS_Subset
  <2>. QED BY <2>2, FS_CardinalityType
<1>5. Members(s)' = IF e.bucket = s THEN Members(s) \cup {Len(log) + 1} ELSE Members(s)
  <2>1. Members(s)' = {j \in 1..Len(log) + 1 : log'[j].bucket = s}
    BY <1>2 DEF Members
  <2>2. \A j \in 1..Len(log) + 1 : j \in 1..Len(log) \/ j = Len(log) + 1
    BY <1>1
  <2>3. 1..Len(log) \subseteq 1..Len(log) + 1 /\ Len(log) + 1 \in 1..Len(log) + 1
    BY <1>1
  <2>4. \A j : j \in Members(s)' <=> (j \in Members(s) \/ (j = Len(log) + 1 /\ e.bucket = s))
    <3>. SUFFICES ASSUME NEW j
                  PROVE  j \in Members(s)' <=> (j \in Members(s) \/ (j = Len(log) + 1 /\ e.bucket = s))
      OBVIOUS
    <3>1. j \in Members(s)' <=> j \in 1..Len(log) + 1 /\ log'[j].bucket = s
      BY <2>1
    <3>2. j \in Members(s) <=> j \in 1..Len(log) /\ log[j].bucket = s
      BY <1>2 DEF Members
    <3>3. CASE j \in 1..Len(log)
      <4>1. j # Len(log) + 1 /\ log'[j] = log[j] /\ j \in 1..Len(log) + 1
        BY <1>1, <2>3, <3>3
      <4>. QED BY <3>1, <3>2, <3>3, <4>1
    <3>4. CASE j = Len(log) + 1
      <4>1. j \notin 1..Len(log) /\ log'[j] = e /\ j \in 1..Len(log) + 1
        BY <1>1, <3>4
      <4>. QED BY <3>1, <3>2, <3>4, <4>1
    <3>5. CASE j \notin 1..Len(log) + 1
      <4>1. j \notin 1..Len(log) /\ j # Len(log) + 1
        BY <2>3, <3>5
      <4>. QED BY <3>1, <3>2, <3>5, <4>1
    <3>. QED BY <2>2, <3>3, <3>4, <3>5
  <2>5. CASE e.bucket = s
    <3>1. \A j : j \in Members(s)' <=> j \in Members(s) \cup {Len(log) + 1}
      BY <2>4, <2>5
    <3>2. Members(s)' = Members(s) \cup {Len(log) + 1}
      BY <3>1
    <3>. QED BY <2>5, <3>2
  <2>6. CASE e.bucket # s
    <3>1. ASSUME NEW j PROVE j \in Members(s)' <=> j \in Members(s)
      BY <2>4, <2>6
    <3>2. Members(s)' = Members(s)
      BY <3>1
    <3>. QED BY <2>6, <3>2
  <2>. QED BY <2>5, <2>6
<1>. QED BY <1>1, <1>3, <1>4, <1>5

\* A point of another bucket.
LEMMA ExactSame ==
  ASSUME TapeTypeOK, NEW e \in Entry, log' = Append(log, e), NEW b, Exact(b), e.bucket # b.ts
  PROVE  Exact(b)'
<1>1. Members(b.ts)' = Members(b.ts) /\ \A j \in Members(b.ts) : log'[j] = log[j]
  BY MembersIs
<1>. QED BY <1>1 DEF Exact

LEMMA ExactFold ==
  ASSUME TapeTypeOK, NEW p \in Point, NEW e \in Entry, log' = Append(log, e),
         NEW b \in SpreadBucket, Exact(b), e.bucket = b.ts, e.net = p.net, e.pair = p.pair
  PROVE  Exact(Folded(b, p))'
<1> DEFINE c == Folded(b, p)
           l == Len(log) + 1
           M == Members(b.ts)
<1>1. /\ Members(b.ts)' = M \cup {l} /\ IsFiniteSet(M) /\ M \subseteq 1..Len(log)
      /\ Len(log) \in Nat /\ \A j \in 1..Len(log) : log'[j] = log[j] /\ log[j] \in Entry
      /\ log'[l] = e
  BY MembersIs
<1>2. /\ c.ts = b.ts /\ c.min = (IF p.net < b.min THEN p.net ELSE b.min)
      /\ c.max = (IF b.max >= p.net THEN b.max ELSE p.net)
      /\ c.close = p.net /\ c.pair = (IF p.net > b.max THEN p.pair ELSE b.pair)
      /\ c.samples = b.samples + 1
  BY DEF Folded, Larger
<1>3. /\ b.min \in Int /\ b.max \in Int /\ p.net \in Int /\ b.samples \in Nat
      /\ \A j \in M : log[j].net \in Int /\ log'[j] = log[j] /\ j < l /\ j \in Nat
  <2>1. b.min \in Int /\ b.max \in Int /\ p.net \in Int /\ b.samples \in Nat
    BY TapeAssumption DEF SpreadBucket, Point
  <2>2. ASSUME NEW j \in M PROVE log[j].net \in Int /\ log'[j] = log[j] /\ j < l /\ j \in Nat
    <3>1. j \in 1..Len(log) /\ log[j] \in Entry /\ log'[j] = log[j]
      BY <1>1
    <3>2. log[j].net \in Int
      BY <3>1, TapeAssumption DEF Entry
    <3>3. j < l /\ j \in Nat
      BY <1>1, <3>1
    <3>. QED BY <3>1, <3>2, <3>3
  <2>. QED BY <2>1, <2>2
<1>4. l \notin M /\ l \in Nat
  BY <1>1, <1>3
<1>. HIDE DEF l, M, c
<1>5. \A j \in M \cup {l} : c.min <= log'[j].net /\ log'[j].net <= c.max
  <2>1. \A j \in M : b.min <= log[j].net /\ log[j].net <= b.max
    BY DEF Exact, M
  <2>2. ASSUME NEW j \in M PROVE c.min <= log'[j].net /\ log'[j].net <= c.max
    <3> DEFINE net == log'[j].net
    <3>1. b.min <= net /\ net <= b.max /\ net \in Int
      BY <1>3, <2>1
    <3>2. c.min <= b.min /\ b.max <= c.max /\ c.min \in Int /\ c.max \in Int
      BY <1>2, <1>3
    <3>. HIDE DEF net
    <3>3. c.min <= net /\ net <= c.max
      BY <1>3, <3>1, <3>2
    <3>. QED BY <3>3 DEF net
  <2>3. c.min <= log'[l].net /\ log'[l].net <= c.max
    BY <1>1, <1>2, <1>3
  <2>. QED BY <2>2, <2>3
<1>6. \E j \in M \cup {l} : log'[j].net = c.min
  BY <1>1, <1>2, <1>3 DEF Exact, M
<1>7. \E j \in M \cup {l} : /\ log'[j].net = c.max /\ log'[j].pair = c.pair
                            /\ \A k \in M \cup {l} : k < j => log'[k].net < c.max
  <2>1. PICK j \in M : /\ log[j].net = b.max /\ log[j].pair = b.pair
                       /\ \A k \in M : k < j => log[k].net < b.max
    BY DEF Exact, M
  <2>2. CASE p.net > b.max
    <3>1. c.max = p.net /\ c.pair = p.pair
      BY <1>2, <1>3, <2>2
    <3>2. \A k \in M : log'[k].net < c.max
      <4>1. \A k \in M : log[k].net <= b.max
        BY DEF Exact, M
      <4>2. ASSUME NEW k \in M PROVE log'[k].net < c.max
        <5>1. log'[k] = log[k] /\ log[k].net \in Int /\ log[k].net <= b.max
          BY <1>3, <4>1
        <5>. QED BY <1>3, <2>2, <3>1, <5>1
      <4>. QED BY <4>2
    <3>3. ~(l < l)
      BY <1>4
    <3>4. log'[l].net = c.max /\ log'[l].pair = c.pair
      BY <1>1, <3>1
    <3>5. \A k \in M \cup {l} : k < l => log'[k].net < c.max
      BY <3>2, <3>3
    <3>. QED BY <3>4, <3>5
  <2>3. CASE ~(p.net > b.max)
    <3>1. c.max = b.max /\ c.pair = b.pair
      BY <1>2, <1>3, <2>3
    <3>2. ~(l < j)
      BY <1>3, <1>4
    <3>. QED BY <1>3, <2>1, <3>1, <3>2
  <2>. QED BY <2>2, <2>3
<1>8. \E j \in M \cup {l} : log'[j].net = c.close /\ \A k \in M \cup {l} : k <= j
  <2>1. log'[l].net = c.close /\ \A k \in M \cup {l} : k <= l
    BY <1>1, <1>2, <1>3, <1>4
  <2>. QED BY <2>1
<1>9. c.samples = Cardinality(M \cup {l})
  <2>1. Cardinality(M \cup {l}) = Cardinality(M) + 1
    BY <1>1, <1>4, FS_AddElement
  <2>2. b.samples = Cardinality(M)
    BY DEF Exact, M
  <2>. QED BY <1>2, <2>1, <2>2
<1>10. Members(c.ts)' = M \cup {l}
  BY <1>1, <1>2
<1>11. Exact(c)'
  BY <1>5, <1>6, <1>7, <1>8, <1>9, <1>10 DEF Exact
<1>. QED BY <1>11 DEF c

LEMMA ExactOpen ==
  ASSUME TapeTypeOK, NEW p \in Point, NEW e \in Entry, log' = Append(log, e),
         e.bucket = BucketOf(p.ts), e.net = p.net, e.pair = p.pair, Members(e.bucket) = {}
  PROVE  Exact(Opened(p))'
<1> DEFINE c == Opened(p)
           l == Len(log) + 1
<1>1. /\ c.ts = e.bucket /\ c.min = p.net /\ c.max = p.net /\ c.close = p.net
      /\ c.pair = p.pair /\ c.samples = 1
  BY DEF Opened
<1>2. Members(c.ts)' = {l} /\ log'[l] = e /\ l \in Nat /\ p.net \in Int
  <2>1. Members(e.bucket)' = Members(e.bucket) \cup {l} /\ log'[l] = e /\ l \in Nat
    BY MembersIs
  <2>2. p.net \in Int
    BY TapeAssumption DEF Point
  <2>. QED BY <1>1, <2>1, <2>2
<1>3. Cardinality({l}) = 1
  BY FS_Singleton
<1>. HIDE DEF c, l
<1>4. Exact(c)'
  <2>1. ~(l < l) /\ l <= l
    BY <1>2
  <2>2. log'[l].net = p.net /\ log'[l].pair = p.pair /\ p.net <= p.net
    BY <1>2
  <2>3. /\ \A j \in {l} : c.min <= log'[j].net /\ log'[j].net <= c.max
        /\ \E j \in {l} : log'[j].net = c.min
        /\ \E j \in {l} : /\ log'[j].net = c.max /\ log'[j].pair = c.pair
                          /\ \A k \in {l} : k < j => log'[k].net < c.max
        /\ \E j \in {l} : log'[j].net = c.close /\ \A k \in {l} : k <= j
    BY <1>1, <2>1, <2>2, Zenon
  <2>4. c.samples = Cardinality({l})
    BY <1>1, <1>3
  <2> DEFINE N == {l}
  <2>5. Members(c.ts)' = N
    BY <1>2
  <2>6. /\ \A j \in N : c.min <= log'[j].net /\ log'[j].net <= c.max
        /\ \E j \in N : log'[j].net = c.min
        /\ \E j \in N : /\ log'[j].net = c.max /\ log'[j].pair = c.pair
                          /\ \A k \in N : k < j => log'[k].net < c.max
        /\ \E j \in N : log'[j].net = c.close /\ \A k \in N : k <= j
        /\ c.samples = Cardinality(N)
    BY <2>3, <2>4
  <2>. HIDE DEF N
  <2>. QED BY <2>5, <2>6 DEF Exact
<1>. QED BY <1>4 DEF c

LEMMA PointsBehind ==
  ASSUME Ordered, NEW j \in 1..Len(log)
  PROVE  /\ log[j].bucket \in Int /\ current # None /\ current.ts \in Int
         /\ log[j].bucket <= current.ts
<1>1. log \in Seq(Entry) /\ Len(log) \in Nat /\ log[j] \in Entry /\ DOMAIN log = 1..Len(log)
  <2>1. log \in Seq(Entry)
    BY DEF Ordered, TapeTypeOK, Entry
  <2>. QED BY <2>1
<1>2. log # <<>> /\ Len(log) \in 1..Len(log) /\ j \in 1..Len(log)
  BY <1>1
<1>3. current # None /\ current.ts = log[Len(log)].bucket /\ log[j].bucket <= log[Len(log)].bucket
  BY <1>1, <1>2 DEF Ordered, OpenIsLast, LogInOrder
<1>4. current.ts \in Int
  BY <1>3 DEF Ordered, TapeTypeOK, SpreadBucket
<1>. QED BY <1>1, <1>3, <1>4 DEF Entry

\* A bucket that a point opens takes the place of the oldest once the ring is full.
LEMMA AllExactKept == Ordered /\ AllExact /\ [TapeNext]_tapeVars => AllExact'
<1>. SUFFICES ASSUME Ordered, AllExact, [TapeNext]_tapeVars PROVE AllExact'
  OBVIOUS
<1>1. CASE UNCHANGED <<buckets, current, log>>
  BY <1>1 DEF AllExact, Exact, Members
<1>2. ASSUME NEW n \in Nets, NEW pair \in Pairs,
             RecordPoint([ts |-> clock, net |-> n, pair |-> pair]),
             log' = IF InOrder(clock) THEN Append(log, Noted(n, pair)) ELSE log
      PROVE  AllExact'
  <2>0. PICK p, e : p = [ts |-> clock, net |-> n, pair |-> pair] /\ e = Noted(n, pair)
    OBVIOUS
  <2>1. /\ p \in Point /\ e \in Entry /\ e.bucket \in Int /\ TapeTypeOK /\ Spaced
        /\ e.bucket = BucketOf(p.ts) /\ e.net = p.net /\ e.pair = p.pair
    BY <2>0, NotedIs DEF Ordered, TapeTypeOK, Point
  <2>2. \/ UNCHANGED <<buckets, current, log>>
        \/ /\ current # None /\ current.ts = e.bucket /\ current' = Folded(current, p)
           /\ buckets' = buckets /\ log' = Append(log, e)
        \/ /\ current # None => e.bucket > current.ts
           /\ current' = Opened(p) /\ buckets' = Closed /\ log' = Append(log, e)
    BY <1>2, <2>0, <2>1, PointIs
  <2>3. ASSUME NEW b, Exact(b), b.ts # e.bucket, log' = Append(log, e) PROVE Exact(b)'
    BY <2>1, <2>3, ExactSame
  <2>4. CASE /\ current # None /\ current.ts = e.bucket /\ current' = Folded(current, p)
             /\ buckets' = buckets /\ log' = Append(log, e)
    <3>1. Exact(current)'
      <4>1. PICK b : b = current
        OBVIOUS
      <4>2. b \in SpreadBucket /\ Exact(b) /\ b.ts = e.bucket
        BY <2>4, <4>1 DEF AllExact, Ordered, TapeTypeOK
      <4>3. Exact(Folded(b, p))'
        BY <2>1, <2>4, <4>2, ExactFold
      <4>. QED BY <2>4, <4>1, <4>3 DEF Exact, Members
    <3>2. ASSUME NEW i \in DOMAIN buckets PROVE Exact(buckets[i])'
      <4>1. PICK b : b = buckets[i]
        OBVIOUS
      <4>2. Exact(b) /\ b.ts # e.bucket
        <5>1. i \in 1..Len(buckets) /\ Exact(b)
          BY <4>1 DEF AllExact, Ordered, TapeTypeOK
        <5>. QED BY <2>1, <2>4, <4>1, <5>1, BucketsBehind
      <4>3. Exact(b)'
        BY <2>3, <2>4, <4>2
      <4>. QED BY <2>4, <4>1, <4>3 DEF Exact, Members
    <3>. QED BY <2>4, <3>1, <3>2 DEF AllExact
  <2>5. CASE /\ current # None => e.bucket > current.ts
             /\ current' = Opened(p) /\ buckets' = Closed /\ log' = Append(log, e)
    <3>1. Members(e.bucket) = {}
      <4>1. DOMAIN log = 1..Len(log)
        BY DEF Ordered, TapeTypeOK
      <4>2. \A j \in 1..Len(log) : /\ log[j].bucket \in Int /\ log[j].bucket <= current.ts
                                   /\ current # None /\ current.ts \in Int
        BY PointsBehind
      <4>3. \A j \in DOMAIN log : log[j].bucket < e.bucket /\ log[j].bucket \in Int
        BY <2>1, <2>5, <4>1, <4>2
      <4>. QED BY <2>1, <4>3 DEF Members
    <3>2. Exact(current)'
      <4>1. /\ TapeTypeOK /\ p \in Point /\ e \in Entry /\ log' = Append(log, e)
            /\ e.bucket = BucketOf(p.ts) /\ e.net = p.net /\ e.pair = p.pair
        BY <2>1, <2>5
      <4>2. Exact(Opened(p))'
        BY <3>1, <4>1, ExactOpen
      <4>3. current' = Opened(p)
        BY <2>5
      <4>. QED BY <4>2, <4>3 DEF Exact, Members
    <3>3. CASE current = None
      <4>1. buckets' = <<>>
        BY <2>5, <3>3 DEF Ordered, OpenIsLast, Closed
      <4>. QED BY <3>2, <4>1 DEF AllExact
    <3>4. CASE current # None
      <4> DEFINE l == Len(buckets) + 1
                 d == Lost(l, HistCapacity)
      <4>1. /\ d \in {0, 1} /\ l \in Nat /\ DOMAIN buckets' = 1..l - d
            /\ \A k \in 1..l - d : buckets'[k] = IF k + d = l THEN current ELSE buckets[k + d]
        BY <2>1, <2>5, <3>4, ClosedIs DEF TapeTypeOK
      <4>. HIDE DEF d
      <4>2. ASSUME NEW k \in 1..l - d PROVE Exact(buckets[k])'
        <5>1. PICK b : b = buckets'[k]
          OBVIOUS
        <5>2. Exact(b) /\ b.ts # e.bucket
          <6>1. CASE k + d = l
            <7>1. b = current
              BY <4>1, <5>1, <6>1
            <7>2. Exact(b) /\ b.ts < e.bucket
              BY <2>5, <3>4, <7>1 DEF AllExact
            <7>3. b.ts \in Int
              BY <3>4, <7>1 DEF Ordered, TapeTypeOK, SpreadBucket
            <7>. QED BY <2>1, <7>2, <7>3
          <6>2. CASE k + d # l
            <7>1. k + d \in 1..Len(buckets) /\ b = buckets[k + d]
              BY <4>1, <5>1, <6>2
            <7>2. b.ts < current.ts /\ b.ts \in Int /\ current.ts \in Int
              BY <2>1, <3>4, <7>1, BucketsBehind
            <7>3. Exact(b)
              BY <7>1 DEF AllExact, Ordered, TapeTypeOK
            <7>. QED BY <2>1, <2>5, <3>4, <7>2, <7>3
          <6>. QED BY <6>1, <6>2
        <5>3. Exact(b)'
          BY <2>3, <2>5, <5>2
        <5>. QED BY <5>1, <5>3 DEF Exact, Members
      <4>. QED BY <3>2, <4>1, <4>2 DEF AllExact
    <3>. QED BY <3>3, <3>4
  <2>. QED BY <1>1, <2>2, <2>4, <2>5
<1>. QED BY <1>1, <1>2, SampleIs DEF TapeNext, Elapse, SetClock, tapeVars

\* Every bucket of the tape, for any clock that was ever set, is the aggregate of
\* its points: the count, the extremes, the venues of the first maximum and the
\* last close are those of the points record_point folded into it
\* (crates/spread_tape/src/lib.rs:152-200).
THEOREM BucketsExact == TapeSpec => []BucketsAreExact
<1>1. TapeInit => AllExact
  BY DEF TapeInit, AllExact
<1>2. Ordered /\ AllExact => BucketsAreExact
  <2>. SUFFICES ASSUME Ordered, AllExact, NEW i \in DOMAIN Retained PROVE Exact(Retained[i])
    BY DEF BucketsAreExact
  <2>1. CASE current = None
    BY <2>1 DEF Retained, AllExact
  <2>2. CASE current # None
    <3>1. /\ Retained = Append(buckets, current)
          /\ buckets \in Seq(SpreadBucket) /\ current \in SpreadBucket
      BY <2>2 DEF Retained, Ordered, TapeTypeOK
    <3>2. (i \in 1..Len(buckets) /\ Retained[i] = buckets[i]) \/ Retained[i] = current
      BY <3>1
    <3>. QED BY <2>2, <3>1, <3>2 DEF AllExact
  <2>. QED BY <2>1, <2>2
<1>. QED BY <1>1, <1>2, OrderedHolds, AllExactKept, PTL DEF TapeSpec

LEMMA RetainsKept == Ordered /\ Retains /\ [TapeNext]_tapeVars => Retains'
<1>. SUFFICES ASSUME Ordered, Retains, [TapeNext]_tapeVars PROVE Retains'
  OBVIOUS
<1>1. CASE UNCHANGED <<buckets, current, log>>
  BY <1>1 DEF Retains
<1>2. ASSUME NEW n \in Nets, NEW pair \in Pairs,
             RecordPoint([ts |-> clock, net |-> n, pair |-> pair]),
             log' = IF InOrder(clock) THEN Append(log, Noted(n, pair)) ELSE log
      PROVE  Retains'
  <2> DEFINE p == [ts |-> clock, net |-> n, pair |-> pair]
             e == Noted(n, pair)
  <2>1. /\ p \in Point /\ e \in Entry /\ e.bucket \in Int /\ TapeTypeOK /\ Spaced
        /\ e.bucket = BucketOf(p.ts)
    BY NotedIs DEF Ordered, TapeTypeOK, Point
  <2>2. \/ UNCHANGED <<buckets, current, log>>
        \/ /\ current # None /\ current.ts = e.bucket /\ current' = Folded(current, p)
           /\ buckets' = buckets /\ log' = Append(log, e)
        \/ /\ current # None => e.bucket > current.ts
           /\ current' = Opened(p) /\ buckets' = Closed /\ log' = Append(log, e)
    BY <1>2, <2>1, PointIs
  <2>3. Folded(current, p).ts = current.ts /\ Opened(p).ts = e.bucket
    BY <2>1 DEF Folded, Opened
  <2>. HIDE DEF p, e
  <2>4. /\ log \in Seq(Entry) /\ Len(log) \in Nat
        /\ log' = Append(log, e) => /\ DOMAIN log' = 1..Len(log) + 1 /\ log'[Len(log) + 1] = e
                                    /\ \A j \in 1..Len(log) : log'[j] = log[j]
    <3>1. log \in Seq(Entry)
      BY DEF Ordered, TapeTypeOK, Entry
    <3>. QED BY <2>1, <3>1, AppendIs
  <2>5. CASE /\ current # None /\ current.ts = e.bucket /\ current' = Folded(current, p)
             /\ buckets' = buckets /\ log' = Append(log, e)
    <3>1. ASSUME NEW j \in 1..Len(log) + 1
          PROVE  \/ log'[j].bucket = current'.ts
                 \/ \E i \in DOMAIN buckets' : buckets'[i].ts = log'[j].bucket
                 \/ Len(buckets') = HistCapacity /\ log'[j].bucket < buckets'[1].ts
      <4>1. CASE j = Len(log) + 1
        BY <2>3, <2>4, <2>5, <4>1
      <4>2. CASE j \in 1..Len(log)
        BY <2>3, <2>4, <2>5, <4>2 DEF Retains
      <4>. QED BY <2>4, <4>1, <4>2
    <3>. QED BY <2>4, <2>5, <3>1 DEF Retains
  <2>6. CASE /\ current # None => e.bucket > current.ts
             /\ current' = Opened(p) /\ buckets' = Closed /\ log' = Append(log, e)
    <3>1. ASSUME NEW j \in 1..Len(log)
          PROVE  \/ \E i \in DOMAIN buckets' : buckets'[i].ts = log[j].bucket
                 \/ Len(buckets') = HistCapacity /\ log[j].bucket < buckets'[1].ts
      <4> DEFINE l == Len(buckets) + 1
                 d == Lost(l, HistCapacity)
                 first == buckets'[1]
      <4>1. current # None /\ log[j].bucket \in Int /\ current.ts \in Int
        BY PointsBehind
      <4>0. Len(buckets) \in Nat /\ TapeTypeOK
        BY <2>1 DEF TapeTypeOK
      <4>2. /\ d \in {0, 1} /\ (d = 1 => l - 1 = HistCapacity)
            /\ l \in Nat /\ Len(buckets') = l - d /\ DOMAIN buckets' = 1..l - d
            /\ \A k \in 1..l - d : buckets'[k] = IF k + d = l THEN current ELSE buckets[k + d]
        BY SMTT(30), <2>6, <4>0, <4>1, ClosedIs
      <4>3. HistCapacity \in Nat \ {0} /\ l <= HistCapacity + 1 /\ l >= 1 /\ DOMAIN buckets = 1..l - 1
        BY <2>1, Sizes DEF TapeTypeOK
      <4>4. d = IF l > HistCapacity THEN l - HistCapacity ELSE 0
        BY <4>2 DEF Lost
      <4>5. d = 1 => buckets[1].ts < first.ts /\ buckets[1].ts \in Int /\ first.ts \in Int
        <5>. SUFFICES ASSUME d = 1
                      PROVE  buckets[1].ts < first.ts /\ buckets[1].ts \in Int /\ first.ts \in Int
          OBVIOUS
        <5>1. 1 \in 1..Len(buckets) /\ 1 \in 1..l - d
          BY <4>2, <4>3
        <5>2. CASE l = 2
          <6>1. first = current
            BY <4>2, <5>1, <5>2
          <6>. QED BY <2>1, <4>1, <5>1, <6>1, BucketsBehind
        <5>3. CASE l # 2
          <6>1. first = buckets[2] /\ 2 \in 1..Len(buckets)
            BY <4>2, <4>3, <5>1, <5>3
          <6>2. buckets[1].ts < buckets[2].ts
            BY <2>1, <6>1, <4>3 DEF Spaced
          <6>. QED BY <2>1, <4>1, <5>1, <6>1, <6>2, BucketsBehind
        <5>. QED BY <5>2, <5>3
      <4>. HIDE DEF d, l
      <4>6. CASE log[j].bucket = current.ts
        <5>1. l - d \in 1..l - d /\ (l - d) + d = l
          BY <4>2, <4>3, <4>4
        <5>. QED BY <4>2, <4>6, <5>1
      <4>7. ASSUME NEW i \in DOMAIN buckets, buckets[i].ts = log[j].bucket
            PROVE  \/ \E k \in DOMAIN buckets' : buckets'[k].ts = log[j].bucket
                   \/ Len(buckets') = HistCapacity /\ log[j].bucket < first.ts
        <5>1. CASE i > d
          <6>1. i - d \in 1..l - d /\ (i - d) + d = i /\ i # l
            BY <4>2, <4>3, <5>1
          <6>2. buckets'[i - d].ts = log[j].bucket
            BY <4>2, <4>7, <6>1
          <6>. QED BY <4>2, <6>1, <6>2
        <5>2. CASE ~(i > d)
          <6>1. d = 1 /\ i = 1
            BY <4>2, <4>3, <5>2
          <6>. QED BY <4>2, <4>3, <4>5, <4>7, <6>1
        <5>. QED BY <5>1, <5>2
      <4>8. CASE Len(buckets) = HistCapacity /\ log[j].bucket < buckets[1].ts
        <5>1. l = HistCapacity + 1
          BY <4>3, <4>8 DEF l
        <5>2. d = 1
          BY <4>3, <4>4, <5>1
        <5>. QED BY <4>1, <4>2, <4>3, <4>5, <4>8, <5>1, <5>2
      <4>9. j \in DOMAIN log
        BY <2>4
      <4>. QED BY <4>6, <4>7, <4>8, <4>9 DEF Retains
    <3>2. ASSUME NEW j \in 1..Len(log) + 1
          PROVE  \/ log'[j].bucket = current'.ts
                 \/ \E i \in DOMAIN buckets' : buckets'[i].ts = log'[j].bucket
                 \/ Len(buckets') = HistCapacity /\ log'[j].bucket < buckets'[1].ts
      <4>1. CASE j = Len(log) + 1
        BY <2>3, <2>4, <2>6, <4>1
      <4>2. CASE j \in 1..Len(log)
        BY <2>4, <2>6, <3>1, <4>2
      <4>. QED BY <2>4, <4>1, <4>2
    <3>. QED BY <2>4, <2>6, <3>2 DEF Retains
  <2>. QED BY <1>1, <2>2, <2>5, <2>6
<1>. QED BY <1>1, <1>2, SampleIs DEF TapeNext, Elapse, SetClock, tapeVars

\* The window never exceeds what the ring spans.
LEMMA RangeWindowIs ==
  ASSUME NEW requested \in (0..HistoryWindowMs + 1) \cup {None},
         NEW client \in 0..HistoryWindowMs + 1
  PROVE  RangeWindow(requested, client) \in 0..HistoryWindowMs
<1> DEFINE asked == IF requested = None THEN client ELSE requested
           H == HistoryWindowMs
           least == IF asked <= client /\ asked <= H THEN asked
                    ELSE IF client <= H THEN client ELSE H
<1>1. asked \in Nat /\ client \in Nat /\ H \in Nat
  BY Sizes
<1>2. RangeWindow(requested, client) = Min({asked, client, H})
  BY DEF RangeWindow
<1>. HIDE DEF asked, H
<1>3. least \in {asked, client, H} /\ \A m \in {asked, client, H} : least <= m
  BY <1>1
<1>. HIDE DEF least
<1>4. /\ Min({asked, client, H}) \in {asked, client, H}
      /\ \A m \in {asked, client, H} : Min({asked, client, H}) <= m
  BY <1>3 DEF Min
<1>. QED BY <1>1, <1>2, <1>4 DEF H

LEMMA AnswerIs ==
  ASSUME Ordered, current # None, NEW w \in Int
  PROVE  \E t \in 0..Len(buckets) :
           /\ \A k \in 1..Len(buckets) : k > t <=> buckets[k].ts >= current.ts - w
           /\ DOMAIN LongHistory(w) = 1..Len(buckets) - t + 1
           /\ \A k \in 1..Len(buckets) - t + 1 :
                LongHistory(w)[k] = IF k + t = Len(buckets) + 1 THEN current ELSE buckets[k + t]
<1> DEFINE n == Len(buckets)
           I == {k \in DOMAIN buckets : buckets[k].ts >= NewestStart - w}
           q == Kept(buckets, I)
<1>1. /\ buckets \in Seq(SpreadBucket) /\ n \in Nat /\ DOMAIN buckets = 1..n
      /\ current \in SpreadBucket /\ NewestStart = current.ts /\ TapeTypeOK /\ Spaced
  BY DEF Ordered, TapeTypeOK, NewestStart
<1>2. current.ts \in Int /\ \A k \in 1..n : buckets[k].ts \in Int
  <2>1. \A k \in 1..n : buckets[k] \in SpreadBucket
    BY <1>1
  <2>. QED BY <1>1, <2>1 DEF SpreadBucket
<1>3. I \in SUBSET (1..n)
  BY <1>1
<1>4. ASSUME NEW k \in I, NEW j \in k..n PROVE j \in I
  <2>1. j \in 1..n /\ k \in 1..n /\ (j = k \/ k \in 1..(j - 1))
    BY <1>1, <1>3
  <2>2. buckets[k].ts <= buckets[j].ts
    BY <1>1, <1>2, <2>1 DEF Spaced
  <2>. QED BY <1>1, <1>2, <2>1, <2>2
<1>5. \A k \in 1..n : k \in I <=> buckets[k].ts >= current.ts - w
  BY <1>1
<1>6. LongHistory(w) = q \o <<current>>
  BY DEF LongHistory
<1>. HIDE DEF I
<1>7. PICK t \in 0..n : I = t + 1..n /\ q \in Seq(SpreadBucket) /\ q = Cut(buckets, t)
  BY <1>1, <1>3, <1>4, KeptAbove
<1>8. Len(q) = n - t /\ \A k \in 1..n - t : q[k] = buckets[k + t]
  <2>1. n - t \in Nat /\ q = [k \in 1..n - t |-> buckets[k + t]]
    BY <1>1, <1>7 DEF Cut
  <2>. HIDE DEF q, n
  <2>. QED BY <2>1
<1>. HIDE DEF q
<1>9. /\ DOMAIN LongHistory(w) = 1..n - t + 1
      /\ \A k \in 1..n - t : LongHistory(w)[k] = q[k]
      /\ LongHistory(w)[n - t + 1] = current
  <2>1. LongHistory(w) = Append(q, current)
    BY <1>1, <1>6, <1>7
  <2>2. /\ Append(q, current) \in Seq(SpreadBucket) /\ Len(Append(q, current)) = Len(q) + 1
        /\ \A k \in 1..Len(q) : Append(q, current)[k] = q[k]
        /\ Append(q, current)[Len(q) + 1] = current
    BY <1>1, <1>7, AppendIs
  <2>. QED BY <1>8, <2>1, <2>2
<1>10. ASSUME NEW k \in 1..n - t + 1
       PROVE  LongHistory(w)[k] = IF k + t = n + 1 THEN current ELSE buckets[k + t]
  <2>1. CASE k + t = n + 1
    <3>1. k = n - t + 1
      BY <1>1, <1>7, <2>1
    <3>. QED BY <1>9, <2>1, <3>1
  <2>2. CASE k + t # n + 1
    <3>1. k \in 1..n - t
      BY <1>1, <1>7, <2>2
    <3>. QED BY <1>8, <1>9, <2>2, <3>1
  <2>. QED BY <2>1, <2>2
<1>11. \A k \in 1..n : k > t <=> buckets[k].ts >= current.ts - w
  <2>1. \A k \in 1..n : k > t <=> k \in I
    BY <1>1, <1>7
  <2>. QED BY <1>5, <2>1
<1>. QED BY <1>7, <1>9, <1>10, <1>11 DEF n

\* The answer is in order.
LEMMA AnswerOrdered ==
  ASSUME Ordered, current # None, NEW w \in Int,
         NEW j \in DOMAIN LongHistory(w), NEW i \in 1..(j - 1)
  PROVE  LongHistory(w)[i].ts < LongHistory(w)[j].ts
<1> DEFINE n == Len(buckets)
<1>1. PICK t \in 0..n :
        /\ DOMAIN LongHistory(w) = 1..n - t + 1
        /\ \A k \in 1..n - t + 1 :
             LongHistory(w)[k] = IF k + t = n + 1 THEN current ELSE buckets[k + t]
  BY AnswerIs
<1>2. n \in Nat /\ TapeTypeOK /\ Spaced
  BY DEF Ordered, TapeTypeOK
<1>3. /\ i \in 1..n - t + 1 /\ i + t \in 1..n /\ i + t # n + 1 /\ LongHistory(w)[i] = buckets[i + t]
  BY <1>1, <1>2
<1>4. CASE j + t = n + 1
  BY <1>1, <1>2, <1>3, <1>4, BucketsBehind
<1>5. CASE j + t # n + 1
  <2>0. j \in 1..n - t + 1 /\ j \in Int /\ i \in Int /\ i < j
    BY <1>1, <1>2
  <2>1. j + t \in 1..n /\ LongHistory(w)[j] = buckets[j + t]
    <3>. HIDE DEF n
    <3>1. j + t \in 1..n
      BY <1>2, <1>5, <2>0
    <3>2. LongHistory(w)[j] = IF j + t = n + 1 THEN current ELSE buckets[j + t]
      BY <1>1, <2>0
    <3>. QED BY <1>5, <3>1, <3>2
  <2>2. i + t \in 1..((j + t) - 1) /\ j + t \in DOMAIN buckets
    BY <1>2, <1>3, <2>0, <2>1 DEF TapeTypeOK
  <2>3. \A h \in 1..((j + t) - 1) : buckets[h].ts < buckets[j + t].ts
    BY <1>2, <2>2 DEF Spaced
  <2>. QED BY <1>3, <2>1, <2>2, <2>3
<1>. QED BY <1>4, <1>5

\* A bucket the ring has lost lies before any window it may be asked for.
LEMMA LostIsOld ==
  ASSUME Ordered, NEW j \in 1..Len(log), Len(buckets) = HistCapacity, log[j].bucket < buckets[1].ts
  PROVE  log[j].bucket < current.ts - HistoryWindowMs
<1>1. HistCapacity \in Nat \ {0} /\ 1 \in 1..Len(buckets) /\ 1 \in DOMAIN buckets
  BY Sizes DEF Ordered, TapeTypeOK
<1>2. log[j].bucket \in Int /\ current # None /\ current.ts \in Int
  BY PointsBehind
<1>3. buckets[1].ts \in Int
  BY <1>1, <1>2, BucketsBehind DEF Ordered
<1>4. buckets[1].ts + (Len(buckets) + 1 - 1) * HistResolution <= current.ts
  BY <1>1 DEF Ordered, Spaced
<1>5. Len(buckets) + 1 - 1 = HistCapacity
  BY <1>1
<1>6. buckets[1].ts + HistoryWindowMs <= current.ts
  BY <1>4, <1>5 DEF HistoryWindowMs
<1>7. HistoryWindowMs \in Int
  BY Sizes
<1>. QED BY <1>2, <1>3, <1>6, <1>7

Starts == {log[i].bucket : i \in DOMAIN log}

LEMMA AnswerComplete ==
  ASSUME Ordered, AllExact, Retains, current # None, NEW w \in 0..HistoryWindowMs
  PROVE  {LongHistory(w)[i].ts : i \in DOMAIN LongHistory(w)}
           = {s \in Starts : \A t \in Starts : s >= t - w}
<1> DEFINE n == Len(buckets)
           answer == LongHistory(w)
           Recent == {s \in Starts : \A t \in Starts : s >= t - w}
<1>0. w \in Int /\ w >= 0 /\ w <= HistoryWindowMs /\ HistoryWindowMs \in Int
  BY Sizes
<1>1. PICK t \in 0..n :
        /\ \A k \in 1..n : k > t <=> buckets[k].ts >= current.ts - w
        /\ DOMAIN answer = 1..n - t + 1
        /\ \A k \in 1..n - t + 1 :
             answer[k] = IF k + t = n + 1 THEN current ELSE buckets[k + t]
  BY <1>0, AnswerIs
<1>2. n \in Nat /\ TapeTypeOK /\ Spaced /\ DOMAIN log = 1..Len(log) /\ DOMAIN buckets = 1..n
  BY DEF Ordered, TapeTypeOK
<1>3. /\ current.ts \in Int /\ current.ts \in Starts
      /\ \A s \in Starts : s \in Int /\ s <= current.ts
  <2>1. log # <<>> /\ Len(log) \in DOMAIN log /\ current.ts = log[Len(log)].bucket
    BY DEF Ordered, TapeTypeOK, OpenIsLast
  <2>. QED BY <1>2, <2>1, PointsBehind DEF Starts
<1>4. ASSUME NEW i \in DOMAIN answer PROVE answer[i].ts \in Recent
  <2>1. CASE i + t = n + 1
    BY <1>0, <1>1, <1>3, <2>1
  <2>2. CASE i + t # n + 1
    <3> HIDE DEF n, answer
    <3>0. i \in 1..n - t + 1 /\ answer[i] = buckets[i + t]
      BY <1>1, <2>2
    <3>1. i + t \in 1..n /\ i + t > t
      BY <1>2, <2>2, <3>0
    <3>2. buckets[i + t].ts >= current.ts - w /\ buckets[i + t].ts \in Int
      BY <1>1, <1>2, <3>1, BucketsBehind DEF n
    <3>3. buckets[i + t].ts \in Starts
      <4>1. Exact(buckets[i + t])
        BY <1>2, <3>1 DEF AllExact
      <4>2. PICK j \in Members(buckets[i + t].ts) : TRUE
        BY <4>1 DEF Exact
      <4>. QED BY <4>2 DEF Members, Starts
    <3>. QED BY <1>0, <1>3, <3>0, <3>1, <3>2, <3>3
  <2>. QED BY <2>1, <2>2
<1>5. ASSUME NEW s \in Recent PROVE \E i \in DOMAIN answer : answer[i].ts = s
  <2>1. PICK j \in 1..Len(log) : s = log[j].bucket
    BY <1>2 DEF Starts
  <2>2. s \in Int /\ s >= current.ts - w
    BY <1>3
  <2>3. CASE s = current.ts
    <3>1. n - t + 1 \in 1..n - t + 1 /\ (n - t + 1) + t = n + 1
      BY <1>1, <1>2
    <3>. QED BY <1>1, <2>3, <3>1
  <2>4. ASSUME NEW i \in 1..n, buckets[i].ts = s PROVE \E k \in DOMAIN answer : answer[k].ts = s
    <3>1. i > t
      BY <1>1, <2>2, <2>4
    <3>2. i - t \in 1..n - t + 1 /\ (i - t) + t = i /\ i # n + 1
      BY <1>1, <1>2, <3>1
    <3>. QED BY <1>1, <2>4, <3>2
  <2>5. ~(Len(buckets) = HistCapacity /\ log[j].bucket < buckets[1].ts)
    <3>1. Len(buckets) = HistCapacity /\ log[j].bucket < buckets[1].ts
            => log[j].bucket < current.ts - HistoryWindowMs
      BY LostIsOld
    <3>. QED BY <1>0, <1>3, <2>1, <2>2, <3>1
  <2>. QED BY <1>2, <2>1, <2>3, <2>4, <2>5 DEF Retains
<1>. HIDE DEF answer, Recent
<1>6. {answer[i].ts : i \in DOMAIN answer} = Recent
  BY <1>4, <1>5
<1>. QED BY <1>6 DEF answer, Recent

\* /spread/range answers with every bucket of the window there ever was, oldest
\* first, whatever window it is asked for: a ring of HistCapacity closed buckets
\* never forgets one that the capped window still reaches
\* (crates/spread_tape/src/lib.rs:109-113, 202-226).
THEOREM RangeComplete == TapeSpec => []RangeIsComplete
<1>1. TapeInit => AllExact /\ Retains
  BY DEF TapeInit, AllExact, Retains
<1>2. Ordered /\ AllExact /\ Retains => RangeIsComplete
  <2>. SUFFICES ASSUME Ordered, AllExact, Retains, Retained # <<>> PROVE RangeIsComplete
    BY DEF RangeIsComplete
  <2> DEFINE windows == UNION {{RangeWindow(requested, client) :
                                  requested \in (0..HistoryWindowMs + 1) \cup {None}} :
                                  client \in 0..HistoryWindowMs + 1}
             Good(w) == /\ \A j \in DOMAIN LongHistory(w) :
                             \A i \in 1..(j - 1) : LongHistory(w)[i].ts < LongHistory(w)[j].ts
                        /\ {LongHistory(w)[i].ts : i \in DOMAIN LongHistory(w)}
                             = {s \in Starts : \A t \in Starts : s >= t - w}
  <2>1. current # None
    BY DEF Ordered, OpenIsLast, Retained
  <2>2. \A w \in windows : w \in 0..HistoryWindowMs
    BY RangeWindowIs
  <2>3. \A w \in 0..HistoryWindowMs : w \in Int
    BY Sizes
  <2>4. ASSUME NEW w \in windows PROVE Good(w)
    <3>1. w \in 0..HistoryWindowMs /\ w \in Int
      <4>. HIDE DEF windows
      <4>. QED BY <2>2, <2>3
    <3>. QED BY <2>1, <3>1, AnswerOrdered, AnswerComplete
  <2>. QED BY <2>4 DEF RangeIsComplete, Starts
<1>. QED BY <1>1, <1>2, OrderedHolds, AllExactKept, RetainsKept, PTL DEF TapeSpec
=============================================================================
