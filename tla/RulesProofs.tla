------------------------------ MODULE RulesProofs ------------------------------
(***************************************************************************)
(* Proofs about Rules, for any venues, any quotes with two sides, best     *)
(* level first, and any configuration: the price consensus, what a book    *)
(* gives for an amount, and what the chart shows of a signal.              *)
(***************************************************************************)
EXTENDS Rules, TLAPS, WellFoundedInduction, FiniteSetTheorems

RulesTypeOK ==
  /\ quotes \in [Venues -> Maybe(Quotes)]
  /\ stats \in Maybe(StatsValues)
  /\ transfer \in [Venues -> Maybe(TransferStatus)]
  /\ cfg \in Configs

-----------------------------------------------------------------------------
(* Finite sets of numbers *)

\* An induction over numbers starts from a smallest counterexample.
LEMMA LeastNumber ==
  ASSUME NEW X \in SUBSET Nat, X # {}
  PROVE  \E n \in X : \A m \in X : n <= m
<1> DEFINE Below(n) == 0..n - 1
           Lower == {Below(n) : n \in X}
           Order == StrictSubsetOrdering(Nat)
<1>1. IsWellFoundedOn(Order, FiniteSubsetsOf(Nat))
  BY FS_StrictSubsetOrderingWellFounded
<1>2. \A n \in X : Below(n) \in FiniteSubsetsOf(Nat)
  BY FS_Interval DEF FiniteSubsetsOf
<1>. HIDE DEF Order
<1>3. Lower \subseteq FiniteSubsetsOf(Nat) /\ Lower # {}
  BY <1>2
<1>. HIDE DEF Lower
<1>4. PICK L \in Lower : \A M \in Lower : <<M, L>> \notin Order
  BY <1>1, <1>3, WFMin
<1>5. PICK n \in X : L = Below(n)
  BY <1>4 DEF Lower
<1>6. \A m \in X : n <= m
  <2>. SUFFICES ASSUME NEW m \in X, m < n PROVE FALSE
    OBVIOUS
  <2>1. m \in Below(n) /\ m \notin Below(m) /\ Below(m) \subseteq Below(n) /\ Below(m) \in Lower
    BY DEF Lower
  <2>2. <<Below(m), L>> \in Order
    BY <1>5, <2>1 DEF Order, StrictSubsetOrdering
  <2>. QED BY <1>4, <2>1, <2>2
<1>. QED BY <1>6

\* A function on a finite set has a smallest and a largest value.
LEMMA Lowest ==
  ASSUME NEW S, S # {}, NEW f \in [S -> Nat]
  PROVE  \E x \in S : \A y \in S : f[x] <= f[y]
<1> DEFINE X == {f[x] : x \in S}
<1>1. X \in SUBSET Nat /\ X # {}
  OBVIOUS
<1>2. PICK n \in X : \A m \in X : n <= m
  <2> HIDE DEF X
  <2> QED BY <1>1, LeastNumber
<1>3. PICK x \in S : n = f[x]
  BY <1>2
<1>. QED BY <1>2, <1>3

LEMMA Highest ==
  ASSUME NEW S, S # {}, IsFiniteSet(S), NEW f \in [S -> Int]
  PROVE  \E x \in S : \A y \in S : f[y] <= f[x]
<1> DEFINE HasTop(T) == \E x \in T : \A y \in T : f[y] <= f[x]
           Topless == {T \in FiniteSubsetsOf(S) : T # {} /\ ~HasTop(T)}
           Order == StrictSubsetOrdering(S)
<1>1. IsWellFoundedOn(Order, FiniteSubsetsOf(S))
  BY FS_StrictSubsetOrderingWellFounded
<1>2. S \in FiniteSubsetsOf(S)
  BY DEF FiniteSubsetsOf
<1>. HIDE DEF Order
<1>3. ASSUME Topless # {} PROVE FALSE
  <2>1. PICK T \in Topless : \A U \in Topless : <<U, T>> \notin Order
    <3>1. Topless \subseteq FiniteSubsetsOf(S)
      OBVIOUS
    <3> HIDE DEF Topless
    <3> QED BY <1>1, <1>3, <3>1, WFMin
  <2>2. T \subseteq S /\ IsFiniteSet(T) /\ T # {} /\ ~HasTop(T)
    BY <2>1 DEF FiniteSubsetsOf
  <2>3. PICK x \in T : TRUE
    BY <2>2
  <2> DEFINE U == T \ {x}
  <2>4. IsFiniteSet(U) /\ U \subseteq S /\ U \in FiniteSubsetsOf(S)
    BY <2>2, FS_RemoveElement DEF FiniteSubsetsOf
  <2>5. <<U, T>> \in Order
    BY <2>2, <2>3 DEF Order, StrictSubsetOrdering
  <2>6. U \notin Topless
    <3> HIDE DEF U, Topless
    <3> QED BY <2>1, <2>5
  <2>7. U = {} \/ HasTop(U)
    BY <2>4, <2>6
  <2>8. CASE U = {}
    <3>1. T = {x} /\ f[x] \in Int
      BY <2>2, <2>3, <2>8
    <3> QED BY <2>2, <3>1
  <2>9. CASE HasTop(U)
    <3>1. PICK y \in U : \A z \in U : f[z] <= f[y]
      BY <2>9
    <3>2. \A z \in T : f[z] \in Int /\ (z \in U \/ z = x)
      BY <2>2
    <3>3. CASE f[x] <= f[y]
      BY <2>2, <3>1, <3>2, <3>3
    <3>4. CASE ~(f[x] <= f[y])
      <4>1. \A z \in T : f[z] <= f[x]
        BY <2>3, <3>1, <3>2, <3>4
      <4> QED BY <2>2, <2>3, <4>1
    <3> QED BY <3>3, <3>4
  <2> QED BY <2>7, <2>8, <2>9
<1>4. S \notin Topless
  <2> HIDE DEF Topless
  <2> QED BY <1>3
<1>. QED BY <1>2, <1>4

-----------------------------------------------------------------------------
(* Types *)

LEMMA InitTypes == RulesInit => RulesTypeOK
  BY DEF RulesInit, RulesTypeOK, Maybe

LEMMA TypesKept == RulesTypeOK /\ [RulesNext]_rulesVars => RulesTypeOK'
<1> SUFFICES ASSUME RulesTypeOK, [RulesNext]_rulesVars PROVE RulesTypeOK'
  OBVIOUS
<1> USE DEF RulesTypeOK, Maybe
<1>1. CASE QuoteChanges
  BY <1>1 DEF QuoteChanges
<1>2. CASE StatsChange
  BY <1>2 DEF StatsChange
<1>3. CASE TransferPolled
  <2>1. transfer' \in Transfers
    BY <1>3 DEF TransferPolled
  <2>2. Transfers \subseteq [Venues -> TransferStatus \cup {None}]
    BY RulesAssumption
  <2> QED BY <1>3, <2>1, <2>2 DEF TransferPolled
<1>4. CASE Retuned
  BY <1>4 DEF Retuned
<1>5. CASE UNCHANGED rulesVars
  BY <1>5 DEF rulesVars
<1>. QED BY <1>1, <1>2, <1>3, <1>4, <1>5 DEF RulesNext

\* Whatever is quoted, computed, polled and configured stays in its type
\* (rules.rs, config.rs, transfer_status/src/lib.rs).
THEOREM RulesTypes == RulesSpec => []RulesTypeOK
  BY InitTypes, TypesKept, PTL DEF RulesSpec

\* A usable venue has a mid.
LEMMA MidIs ==
  ASSUME RulesTypeOK, NEW x \in Usable
  PROVE  Mid2(x) \in Nat \ {0}
<1>1. quotes[x] \in Quotes
  BY DEF RulesTypeOK, Maybe, Usable
<1>2. quotes[x] \in ExchangeQuote
  BY <1>1, RulesAssumption
<1>3. /\ quotes[x].asks \in Seq(Level) /\ quotes[x].asks # <<>>
      /\ quotes[x].bids \in Seq(Level) /\ quotes[x].bids # <<>>
  BY <1>2 DEF ExchangeQuote, Asks, Bids, Side
<1>4. quotes[x].asks[1] \in Level /\ quotes[x].bids[1] \in Level
  BY <1>3
<1>5. quotes[x].asks[1].price \in Nat \ {0} /\ quotes[x].bids[1].price \in Nat \ {0}
  BY <1>4 DEF Level
<1>. QED BY <1>5 DEF Mid2

LEMMA UsableIs ==
  ASSUME NEW V \in SUBSET Usable
  PROVE  IsFiniteSet(V) /\ Cardinality(V) \in Nat
<1>1. V \subseteq Venues
  BY DEF Usable
<1>. QED BY <1>1, RulesAssumption, FS_Subset, FS_CardinalityType

-----------------------------------------------------------------------------
(* The median *)

AtMost(V, m) == {x \in V : Mid2(x) <= m}
Less(V, m) == {x \in V : Mid2(x) < m}

\* Every rank is some venue's.
LEMMA SortedIs ==
  ASSUME RulesTypeOK, NEW V \in SUBSET Usable, NEW k \in 1..Cardinality(V)
  PROVE  /\ \E x \in V : SortedMid2(V, k) = Mid2(x)
         /\ Cardinality(Less(V, SortedMid2(V, k))) < k
         /\ Cardinality(AtMost(V, SortedMid2(V, k))) >= k
<1> DEFINE Reached == {m \in Nat : Cardinality(AtMost(V, m)) >= k}
           Ranked(m) == Cardinality(Less(V, m)) < k /\ Cardinality(AtMost(V, m)) >= k
<1>1. /\ IsFiniteSet(V) /\ Cardinality(V) \in Nat /\ k \in Nat \ {0} /\ k <= Cardinality(V)
      /\ \A x \in V : Mid2(x) \in Nat \ {0}
  BY UsableIs, MidIs
<1>2. Reached # {}
  <2>1. V # {}
    BY <1>1, FS_EmptySet
  <2> DEFINE f == [x \in V |-> Mid2(x)]
  <2>2. f \in [V -> Nat] /\ \A x \in V : f[x] = Mid2(x)
    BY <1>1
  <2> HIDE DEF f
  <2>3. PICK x \in V : \A y \in V : f[y] <= f[x]
    BY <1>1, <2>1, <2>2, Highest
  <2>4. AtMost(V, Mid2(x)) = V
    BY <2>2, <2>3 DEF AtMost
  <2>. QED BY <1>1, <2>4
<1>3. PICK m \in Reached : \A l \in Reached : m <= l
  <2>1. Reached \in SUBSET Nat
    OBVIOUS
  <2> HIDE DEF Reached
  <2> QED BY <1>2, <2>1, LeastNumber
<1>4. m \in Nat /\ Cardinality(AtMost(V, m)) >= k
  BY <1>3
<1>5. Cardinality(AtMost(V, m)) \in Nat /\ AtMost(V, m) # {}
  <2>1. AtMost(V, m) \in SUBSET Usable
    BY DEF AtMost
  <2> QED BY <1>1, <1>4, <2>1, UsableIs, FS_EmptySet
<1>6. m # 0
  BY <1>1, <1>5 DEF AtMost
<1>7. m - 1 \in Nat /\ ~(Cardinality(AtMost(V, m - 1)) >= k)
  <2>1. m - 1 \in Nat /\ ~(m <= m - 1)
    BY <1>4, <1>6
  <2>2. m - 1 \notin Reached
    <3> HIDE DEF Reached
    <3> QED BY <1>3, <2>1
  <2> QED BY <2>1, <2>2
<1>8. AtMost(V, m - 1) = Less(V, m)
  BY <1>1, <1>4 DEF AtMost, Less
<1>9. Ranked(m)
  <2>1. Cardinality(Less(V, m)) \in Nat
    <3>1. Less(V, m) \in SUBSET Usable
      BY DEF Less
    <3> QED BY <3>1, UsableIs
  <2> QED BY <1>1, <1>4, <1>7, <1>8, <2>1
<1>10. \E x \in V : m = Mid2(x)
  <2>1. AtMost(V, m) # Less(V, m)
    BY <1>9, <1>1, <1>5
  <2>2. Less(V, m) \subseteq AtMost(V, m)
    BY <1>1, <1>4 DEF AtMost, Less
  <2>3. PICK x \in AtMost(V, m) : x \notin Less(V, m)
    BY <2>1, <2>2
  <2>4. x \in V /\ Mid2(x) <= m /\ ~(Mid2(x) < m)
    BY <2>3 DEF AtMost, Less
  <2> QED BY <1>1, <1>4, <2>4
<1>11. SortedMid2(V, k) = CHOOSE n \in {Mid2(x) : x \in V} : Ranked(n)
  BY DEF SortedMid2, AtMost, Less
<1> DEFINE mids == {Mid2(x) : x \in V}
<1>12. m \in mids
  BY <1>10
<1> HIDE DEF Ranked, mids
<1>13. SortedMid2(V, k) \in mids /\ Ranked(SortedMid2(V, k))
  BY <1>9, <1>11, <1>12 DEF mids
<1>. QED BY <1>13 DEF Ranked, mids

\* The median lies within any majority.
LEMMA MedianIs ==
  ASSUME RulesTypeOK, NEW V \in SUBSET Usable, NEW A \in SUBSET V,
         2 * Cardinality(A) > Cardinality(V), NEW low \in Nat, NEW high \in Nat,
         \A x \in A : low <= Mid2(x) /\ Mid2(x) <= high
  PROVE  ConsensusMid4(V) \in Nat /\ 2 * low <= ConsensusMid4(V) /\ ConsensusMid4(V) <= 2 * high
<1> DEFINE n == Cardinality(V)
           Within(k) == /\ SortedMid2(V, k) \in Nat
                        /\ low <= SortedMid2(V, k) /\ SortedMid2(V, k) <= high
<1>1. A \in SUBSET Usable /\ Cardinality(A) \in Nat /\ n \in Nat /\ \A x \in V : Mid2(x) \in Nat
  BY UsableIs, MidIs
<1>2. ASSUME NEW k \in 1..n, 2 * k >= n, 2 * k <= n + 2 PROVE Within(k)
  <2>1. PICK m : m = SortedMid2(V, k)
    OBVIOUS
  <2>2. /\ \E x \in V : m = Mid2(x)
        /\ Cardinality(Less(V, m)) < k /\ Cardinality(AtMost(V, m)) >= k
    BY <2>1, SortedIs
  <2>3. m \in Nat
    BY <1>1, <2>2
  <2>4. /\ Less(V, m) \in SUBSET Usable /\ IsFiniteSet(Less(V, m)) /\ Cardinality(Less(V, m)) \in Nat
        /\ AtMost(V, m) \in SUBSET Usable /\ IsFiniteSet(AtMost(V, m)) /\ Cardinality(AtMost(V, m)) \in Nat
    <3>1. Less(V, m) \in SUBSET Usable /\ AtMost(V, m) \in SUBSET Usable
      BY DEF Less, AtMost
    <3> QED BY <3>1, UsableIs
  <2>5. low <= m
    <3> SUFFICES ASSUME m < low PROVE FALSE
      BY <2>3
    <3>1. A \cap AtMost(V, m) = {}
      <4>1. \A x \in A : ~(Mid2(x) <= m)
        BY <1>1, <2>3
      <4> QED BY <4>1 DEF AtMost
    <3>2. Cardinality(A) + Cardinality(AtMost(V, m)) <= n
      <4>1. ~(Cardinality(A) + Cardinality(AtMost(V, m)) > n)
        <5>1. IsFiniteSet(V) /\ A \subseteq V /\ AtMost(V, m) \subseteq V
          BY UsableIs DEF AtMost
        <5> QED BY <3>1, <5>1, FS_MajoritiesIntersect
      <4> QED BY <1>1, <2>4, <4>1
    <3> QED BY <1>1, <1>2, <2>2, <2>4, <3>2
  <2>6. m <= high
    <3> SUFFICES ASSUME high < m PROVE FALSE
      BY <2>3
    <3>1. A \subseteq Less(V, m)
      <4>1. \A x \in A : x \in V /\ Mid2(x) < m
        BY <1>1, <2>3
      <4> QED BY <4>1 DEF Less
    <3>2. Cardinality(A) <= Cardinality(Less(V, m))
      BY <2>4, <3>1, FS_Subset
    <3> QED BY <1>1, <1>2, <2>2, <2>4, <3>2
  <2> QED BY <2>1, <2>3, <2>5, <2>6
<1>3. n # 0
  <2>1. Cardinality(A) <= n
    BY UsableIs, FS_Subset
  <2> QED BY <1>1, <2>1
<1>4. /\ (n + 1) \div 2 \in 1..n /\ 2 * ((n + 1) \div 2) >= n /\ 2 * ((n + 1) \div 2) <= n + 2
      /\ n \div 2 + 1 \in 1..n /\ 2 * (n \div 2 + 1) >= n /\ 2 * (n \div 2 + 1) <= n + 2
  <2> HIDE DEF n
  <2> QED BY <1>1, <1>3
<1>5. Within((n + 1) \div 2) /\ Within(n \div 2 + 1)
  <2> HIDE DEF n, Within
  <2> QED BY <1>2, <1>4
<1>. QED BY <1>5 DEF ConsensusMid4

-----------------------------------------------------------------------------
(* Deviations *)

LEMMA Scaled ==
  ASSUME NEW a \in Int, NEW b \in Int, NEW c \in Nat, a <= b
  PROVE  a * c <= b * c /\ c * a <= c * b
  OBVIOUS

\* Who is within a band that the permitted deviation spans does not deviate from a
\* consensus within that band.
LEMMA WithinBand ==
  ASSUME NEW low \in Nat \ {0}, NEW high \in Nat, NEW m \in Nat, NEW c \in Nat, NEW dev \in Int,
         (high - low) * Pct <= dev * low, low <= m, m <= high, 2 * low <= c, c <= 2 * high,
         dev = cfg.max_deviation
  PROVE  ~Deviates(2 * m, c)
<1>1. Pct \in Nat \ {0}
  BY ScaleAssumption
<1>2. dev >= 0
  <2>1. 0 <= (high - low) * Pct
    BY <1>1
  <2>2. dev * low >= 0
    BY <1>1, <2>1
  <2> QED BY <2>2
<1> DEFINE d == IF 2 * m > c THEN 2 * m - c ELSE c - 2 * m
<1>3. d \in Int /\ d <= 2 * (high - low)
  OBVIOUS
<1> HIDE DEF d
<1>4. d * Pct <= (2 * (high - low)) * Pct
  BY <1>1, <1>3, Scaled
<1>5. dev * (2 * low) <= dev * c
  BY <1>2, Scaled
<1>6. (2 * (high - low)) * Pct = 2 * ((high - low) * Pct) /\ dev * (2 * low) = 2 * (dev * low)
  BY <1>1
<1>7. d * Pct <= dev * c
  BY <1>1, <1>3, <1>4, <1>5, <1>6
<1>8. d * Pct \in Int /\ dev * c \in Int
  BY <1>1, <1>3
<1>9. ~(d * Pct > dev * c)
  BY <1>7, <1>8
<1>. QED BY <1>9 DEF Deviates, d

\* Who is beyond the permitted deviation from all of a band deviates from a
\* consensus within it.
LEMMA BeyondBand ==
  ASSUME NEW low \in Nat \ {0}, NEW high \in Nat, NEW m \in Nat, NEW c \in Nat, NEW dev \in Int,
         (high - low) * Pct <= dev * low, low <= high, 2 * low <= c, c <= 2 * high,
         \/ (m - high) * Pct > dev * high
         \/ (low - m) * Pct > dev * low,
         dev = cfg.max_deviation
  PROVE  Deviates(2 * m, c)
<1>1. Pct \in Nat \ {0}
  BY ScaleAssumption
<1>2. dev \in Nat
  <2>1. 0 <= (high - low) * Pct
    BY <1>1
  <2>2. dev * low >= 0
    BY <1>1, <2>1
  <2> QED BY <2>2
<1>3. CASE (m - high) * Pct > dev * high
  <2>1. m > high
    <3> SUFFICES ASSUME m - high <= 0 PROVE FALSE
      OBVIOUS
    <3>1. (m - high) * Pct <= 0 * Pct /\ 0 <= dev * high
      BY <1>1, <1>2, Scaled
    <3> QED BY SMTT(30), <1>1, <1>2, <1>3, <3>1
  <2>2. (2 * (m - high)) * Pct <= (2 * m - c) * Pct /\ dev * c <= dev * (2 * high)
    BY <1>1, <1>2, Scaled
  <2>3. (2 * (m - high)) * Pct = 2 * ((m - high) * Pct) /\ dev * (2 * high) = 2 * (dev * high)
    BY <1>1
  <2>4. (2 * m - c) * Pct > dev * c
    <3>1. /\ (m - high) * Pct \in Int /\ dev * high \in Int
          /\ (2 * m - c) * Pct \in Int /\ dev * c \in Int
      BY <1>1
    <3> QED BY <1>3, <2>2, <2>3, <3>1
  <2>5. 2 * m > c
    BY <2>1
  <2> QED BY <2>4, <2>5 DEF Deviates
<1>4. CASE (low - m) * Pct > dev * low
  <2>1. low > m
    <3> SUFFICES ASSUME low - m <= 0 PROVE FALSE
      OBVIOUS
    <3>1. (low - m) * Pct <= 0 * Pct /\ 0 <= dev * low
      BY <1>1, <1>2, Scaled
    <3> QED BY <1>1, <1>2, <1>4, <3>1
  <2>2. dev <= Pct
    <3> SUFFICES ASSUME Pct <= dev PROVE FALSE
      BY <1>1
    <3>1. low * Pct <= low * dev /\ (low - m) * Pct <= low * Pct
      BY <1>1, <1>2, Scaled
    <3>2. low * dev = dev * low /\ low * Pct \in Int /\ (low - m) * Pct \in Int /\ dev * low \in Int
      BY <1>1
    <3> QED BY <1>4, <3>1, <3>2
  <2> DEFINE e == c - 2 * low
  <2>3. e \in Nat /\ c = 2 * low + e
    OBVIOUS
  <2> HIDE DEF e
  <2>4. dev * e <= Pct * e
    BY <1>1, <2>2, <2>3, Scaled
  <2>5. /\ dev * c = 2 * (dev * low) + dev * e
        /\ (c - 2 * m) * Pct = 2 * ((low - m) * Pct) + Pct * e
    BY <1>1, <2>3
  <2>6. (c - 2 * m) * Pct > dev * c
    <3>1. /\ (low - m) * Pct \in Int /\ dev * low \in Int /\ dev * e \in Int /\ Pct * e \in Int
      BY <1>1, <2>3
    <3> QED BY <1>4, <2>4, <2>5, <3>1
  <2>7. ~(2 * m > c)
    BY <2>1
  <2> QED BY <2>6, <2>7 DEF Deviates
<1>. QED BY <1>3, <1>4

-----------------------------------------------------------------------------
(* Majorities *)

Majority(A) == A \in SUBSET Usable /\ 2 * Cardinality(A) > Cardinality(Usable) /\ Agree(A)

\* A majority stays, and who is far from it goes.
LEMMA MajorityStays ==
  ASSUME RulesTypeOK, cfg.max_deviation # None, Cardinality(Usable) >= 3,
         NEW A, Majority(A)
  PROVE  /\ A \subseteq DropPriceOutliers(Usable)
         /\ \A x \in DropPriceOutliers(Usable) : ~FarFrom(x, A)
<1> DEFINE mids == {Mid2(x) : x \in A}
           f == [x \in A |-> Mid2(x)]
           V == Usable
<1>1. /\ IsFiniteSet(A) /\ Cardinality(A) \in Nat /\ Cardinality(V) \in Nat /\ A \in SUBSET V
      /\ \A x \in V : Mid2(x) \in Nat \ {0}
  BY UsableIs, MidIs DEF Majority
<1>2. A # {}
  BY <1>1, FS_EmptySet DEF Majority
<1>3. f \in [A -> Nat] /\ \A x \in A : f[x] = Mid2(x)
  BY <1>1
<1>4. \E low \in mids : \A m \in mids : low <= m
  <2>1. \E x \in A : \A y \in A : f[x] <= f[y]
    <3> HIDE DEF f
    <3> QED BY <1>2, <1>3, Lowest
  <2> QED BY <1>3, <2>1
<1>5. \E high \in mids : \A m \in mids : high >= m
  <2>1. \E x \in A : \A y \in A : f[y] <= f[x]
    <3> HIDE DEF f
    <3> QED BY <1>1, <1>2, <1>3, Highest
  <2> QED BY <1>1, <1>3, <2>1
<1>6. PICK low : low = Min(mids)
  OBVIOUS
<1>7. PICK high : high = Max(mids)
  OBVIOUS
<1>8. low \in mids /\ \A m \in mids : low <= m
  <2> HIDE DEF mids
  <2> QED BY <1>4, <1>6 DEF Min
<1>9. high \in mids /\ \A m \in mids : high >= m
  <2> HIDE DEF mids
  <2> QED BY <1>5, <1>7 DEF Max
<1>10. low \in Nat \ {0} /\ high \in Nat /\ low <= high /\ \A x \in A : low <= Mid2(x) /\ Mid2(x) <= high
  BY <1>1, <1>8, <1>9
<1>11. PICK c : c = ConsensusMid4(V)
  OBVIOUS
<1>12. c \in Nat /\ 2 * low <= c /\ c <= 2 * high
  BY <1>1, <1>10, <1>11, MedianIs DEF Majority
<1>13. PICK dev : dev = cfg.max_deviation
  OBVIOUS
<1>14. dev \in Int
  BY <1>13, RulesAssumption DEF RulesTypeOK, ClientConfig, Maybe
<1>15. (high - low) * Pct <= dev * low
  BY <1>6, <1>7, <1>13 DEF Majority, Agree
<1>16. DropPriceOutliers(V) = {x \in V : ~Deviates(2 * Mid2(x), c)}
  BY <1>1, <1>11 DEF DropPriceOutliers
<1>17. ASSUME NEW x \in A PROVE ~Deviates(2 * Mid2(x), c)
  BY <1>1, <1>10, <1>12, <1>13, <1>14, <1>15, WithinBand
<1>18. ASSUME NEW x \in V, FarFrom(x, A) PROVE Deviates(2 * Mid2(x), c)
  <2>1. \/ (Mid2(x) - high) * Pct > dev * high
        \/ (low - Mid2(x)) * Pct > dev * low
    BY <1>6, <1>7, <1>13, <1>18 DEF FarFrom
  <2>2. Mid2(x) \in Nat
    BY <1>1
  <2> QED BY <1>10, <1>12, <1>13, <1>14, <1>15, <2>1, <2>2, BeyondBand
<1>. QED BY <1>1, <1>16, <1>17, <1>18

-----------------------------------------------------------------------------
(* What an evaluation takes its legs from *)

LEMMA LegsAre ==
  ASSUME NEW V, NEW c \in Chosen(Candidates(PairsOf(V)))
  PROVE  c.buy \in V /\ c.sell \in V
<1>1. c \in Candidates(PairsOf(V))
  BY DEF Chosen, Best
<1>2. PICK s \in Spreads(PairsOf(V)) : c.buy = s.buy /\ c.sell = s.sell
  BY <1>1 DEF Candidates
<1>3. PICK p \in PairsOf(V) : s.buy = p[1] /\ s.sell = p[2]
  BY <1>2 DEF Spreads
<1>. QED BY <1>2, <1>3 DEF PairsOf

LEMMA FundingLegsAre ==
  ASSUME NEW V, NEW g \in FundingSignals(V), g # None
  PROVE  Range(g) \subseteq V
<1> DEFINE funded == {v \in V : quotes[v].funding # None}
<1>1. g \in PairsOf(funded)
  BY DEF FundingSignals
<1>2. g \in V \X V
  BY <1>1 DEF PairsOf
<1>. QED BY <1>2 DEF Range

LEMMA PointLegsAre ==
  ASSUME NEW p \in BestSpreadPoints
  PROVE  p.buy \in DropPriceOutliers(Usable) /\ p.sell \in DropPriceOutliers(Usable)
<1> DEFINE pairs == {q \in PairsOf(DropPriceOutliers(Usable)) : ~Skewed(q[1], q[2])}
<1>1. p \in Spreads(pairs)
  BY DEF BestSpreadPoints, Widest, Best
<1>2. PICK q \in pairs : p.buy = q[1] /\ p.sell = q[2]
  <2> HIDE DEF pairs
  <2> QED BY <1>1 DEF Spreads
<1>. QED BY <1>2 DEF PairsOf

\* A check never ends as a price outlier, and none fails of a signal.
LEMMA ReasonIs ==
  ASSUME NEW b, NEW s, NEW econ
  PROVE  /\ Classify(b, s, econ) # "PriceOutlier"
         /\ Classify(b, s, econ) = "Signal" => ~Skewed(b, s)
<1> DEFINE checks == Checks(b, s, econ)
           failing == {i \in DOMAIN checks : checks[i][2]}
<1>1. /\ DOMAIN checks = 1..13
      /\ \A i \in 1..13 : checks[i][1] # "PriceOutlier" /\ checks[i][1] # "Signal"
      /\ Skewed(b, s) => checks[3][2]
  BY DEF Checks
<1> HIDE DEF checks
<1>2. Classify(b, s, econ) = IF failing = {} THEN "Signal" ELSE checks[Min(failing)][1]
  BY DEF Classify, checks
<1>3. Skewed(b, s) => 3 \in failing
  BY <1>1
<1>4. ASSUME failing # {} PROVE Min(failing) \in 1..13
  <2>1. failing \in SUBSET Nat /\ failing \subseteq 1..13
    BY <1>1
  <2> HIDE DEF failing
  <2>2. \E i \in failing : \A j \in failing : i <= j
    BY <1>4, <2>1, LeastNumber
  <2> QED BY <2>1, <2>2 DEF Min
<1> HIDE DEF failing
<1>. QED BY <1>1, <1>2, <1>3, <1>4

\* When most venues agree on the price, none of them is dropped, and no venue far
\* from them is a leg of a signal, of a rejection, of a funding signal or of a
\* point of the chart, whatever the venues and the permitted deviation
\* (drop_price_outliers, rules.rs:236-281, 66-79, 541-552).
THEOREM MajorityStands == RulesSpec => []MajorityIsKept
<1>1. RulesTypeOK => MajorityIsKept
  <2> SUFFICES ASSUME RulesTypeOK, cfg.max_deviation # None, Cardinality(Usable) >= 3,
                      NEW A, Majority(A)
               PROVE  /\ A \subseteq DropPriceOutliers(Usable)
                      /\ \A e \in Evaluations :
                           /\ e.reason # "PriceOutlier"
                           /\ ~FarFrom(e.buy, A) /\ ~FarFrom(e.sell, A)
                           /\ e.funding # None => \A x \in Range(e.funding) : ~FarFrom(x, A)
                      /\ \A p \in BestSpreadPoints : ~FarFrom(p.buy, A) /\ ~FarFrom(p.sell, A)
    BY DEF MajorityIsKept, Majority
  <2> DEFINE kept == DropPriceOutliers(Usable)
  <2>1. A \subseteq kept /\ \A x \in kept : ~FarFrom(x, A)
    BY MajorityStays
  <2>2. Cardinality(kept) >= 2 /\ Cardinality(kept) \in Nat
    <3>1. kept \in SUBSET Usable
      BY DEF DropPriceOutliers
    <3>2. IsFiniteSet(kept) /\ Cardinality(kept) \in Nat /\ Cardinality(A) \in Nat /\ Cardinality(Usable) \in Nat
      BY <3>1, UsableIs DEF Majority
    <3>3. Cardinality(A) <= Cardinality(kept)
      BY <2>1, <3>2, FS_Subset
    <3> HIDE DEF kept
    <3> QED BY <3>2, <3>3 DEF Majority
  <2>3. ASSUME NEW e \in Evaluations
        PROVE  /\ e.reason # "PriceOutlier" /\ e.buy \in kept /\ e.sell \in kept
               /\ e.funding # None => Range(e.funding) \subseteq kept
    <3>1. PICK cf \in Chosen(Candidates(PairsOf(kept))) \X FundingSignals(kept) :
            /\ e.buy = cf[1].buy /\ e.sell = cf[1].sell /\ e.funding = cf[2]
            /\ e.reason = Classify(cf[1].buy, cf[1].sell, cf[1].econ)
      BY <2>2 DEF Evaluations
    <3> HIDE DEF kept
    <3>2. cf[1] \in Chosen(Candidates(PairsOf(kept))) /\ cf[2] \in FundingSignals(kept)
      BY <3>1
    <3> QED BY <3>1, <3>2, LegsAre, FundingLegsAre, ReasonIs
  <2> QED BY <2>1, <2>3, PointLegsAre
<1>. QED BY <1>1, RulesTypes, PTL

-----------------------------------------------------------------------------
(* Sums *)

LEMMA TotalIs ==
  ASSUME NEW f \in Seq(Nat)
  PROVE  /\ Total(f, 0) = 0
         /\ \A k \in 0..Len(f) : Total(f, k) \in Nat
         /\ \A k \in 1..Len(f) : Total(f, k) = Total(f, k - 1) + f[k]
<1> DEFINE n == Len(f)
           Sums(g) == [k \in 0..n |-> IF k = 0 THEN 0 ELSE g[k - 1] + f[k]]
           sum == CHOOSE g : g = Sums(g)
           Solves(g, m) == /\ g \in [0..m -> Nat] /\ g[0] = 0
                           /\ \A k \in 1..m : g[k] = g[k - 1] + f[k]
           Unsolved == {m \in 0..n : ~\E g : Solves(g, m)}
<1>1. n \in Nat /\ \A k \in 1..n : f[k] \in Nat
  OBVIOUS
<1>2. \A k : Total(f, k) = sum[k]
  BY DEF Total
<1> HIDE DEF n
<1>3. ASSUME NEW m \in Unsolved, \A l \in Unsolved : m <= l PROVE FALSE
  <2>1. m \in 0..n /\ \A g : ~Solves(g, m)
    BY DEF Unsolved
  <2>2. \A l \in 0..n : l < m => \E g : Solves(g, l)
    <3> HIDE DEF Solves
    <3> QED BY <1>1, <1>3, <2>1
  <2>3. m # 0
    <3>1. Solves([k \in 0..0 |-> 0], 0)
      OBVIOUS
    <3> HIDE DEF Solves
    <3> QED BY <2>1, <3>1
  <2>4. m \in 1..n /\ m - 1 \in 0..n /\ m - 1 < m
    BY <1>1, <2>1, <2>3
  <2>5. PICK g : Solves(g, m - 1)
    <3> HIDE DEF Solves
    <3> QED BY <2>2, <2>4
  <2> DEFINE e == g[m - 1] + f[m]
             h == [k \in 0..m |-> IF k = m THEN e ELSE g[k]]
  <2>6. e \in Nat
    BY <1>1, <2>4, <2>5
  <2>7. h[m] = e /\ \A k \in 0..m - 1 : h[k] = g[k]
    BY <1>1, <2>4
  <2>8. h \in [0..m -> Nat]
    BY <1>1, <2>4, <2>5, <2>6
  <2>9. h[0] = 0
    BY <1>1, <2>4, <2>5, <2>7
  <2>10. ASSUME NEW k \in 1..m PROVE h[k] = h[k - 1] + f[k]
    <3> HIDE DEF h
    <3>1. CASE k = m
      <4>1. m - 1 \in 0..m - 1
        BY <2>4
      <4> QED BY <2>7, <3>1, <4>1
    <3>2. CASE k # m
      <4>1. k \in 1..m - 1 /\ k \in 0..m - 1 /\ k - 1 \in 0..m - 1
        BY <2>4, <3>2
      <4> QED BY <2>5, <2>7, <4>1
    <3> QED BY <3>1, <3>2
  <2> HIDE DEF h
  <2>11. Solves(h, m)
    BY <2>8, <2>9, <2>10
  <2> HIDE DEF Solves
  <2> QED BY <2>1, <2>11
<1>4. PICK g : Solves(g, n)
  <2>1. Unsolved \in SUBSET Nat /\ (n \in Unsolved <=> ~\E g : Solves(g, n))
    <3> HIDE DEF Solves
    <3> QED BY <1>1
  <2> HIDE DEF Unsolved, Solves
  <2>2. Unsolved = {}
    BY <1>3, <2>1, LeastNumber
  <2> QED BY <2>1, <2>2
<1>5. g = Sums(g)
  <2>1. g = [k \in 0..n |-> g[k]]
    BY <1>4
  <2>2. \A k \in 0..n : k = 0 \/ k \in 1..n
    BY <1>1
  <2> QED BY <1>4, <2>1, <2>2
<1>6. sum = Sums(sum)
  <2> HIDE DEF Sums
  <2> QED BY <1>5
<1> HIDE DEF sum
<1>7. sum[0] = 0 /\ \A k \in 1..n : sum[k] = sum[k - 1] + f[k]
  <2>1. \A k \in 0..n : sum[k] = Sums(sum)[k]
    BY <1>6
  <2> QED BY <1>1, <2>1
<1> DEFINE Wrong == {k \in 0..n : sum[k] \notin Nat}
<1>8. ASSUME Wrong # {} PROVE FALSE
  <2>1. Wrong \in SUBSET Nat
    BY <1>1
  <2>2. PICK k \in Wrong : \A l \in Wrong : k <= l
    <3> HIDE DEF Wrong
    <3> QED BY <1>8, <2>1, LeastNumber
  <2>3. k \in 1..n /\ k - 1 \in 0..n /\ k - 1 \notin Wrong
    BY <1>1, <1>7, <2>2
  <2>4. sum[k] = sum[k - 1] + f[k] /\ sum[k - 1] \in Nat /\ f[k] \in Nat
    BY <1>1, <1>7, <2>3
  <2> QED BY <2>2, <2>4
<1> QED BY <1>2, <1>7, <1>8 DEF n

\* A sum that grows term by term like another differs from it by a constant.
LEMMA TotalsAlike ==
  ASSUME NEW f \in Seq(Nat), NEW h \in [0..Len(f) -> Int], h[0] = 0,
         \A k \in 1..Len(f) : h[k] = h[k - 1] + f[k],
         NEW m \in 0..Len(f)
  PROVE  Total(f, m) = h[m]
<1> DEFINE n == Len(f)
           Wrong == {k \in 0..n : Total(f, k) # h[k]}
<1>1. n \in Nat
  OBVIOUS
<1>2. ASSUME Wrong # {} PROVE FALSE
  <2>1. Wrong \in SUBSET Nat
    BY <1>1
  <2>2. PICK k \in Wrong : \A l \in Wrong : k <= l
    <3> HIDE DEF Wrong
    <3> QED BY <1>2, <2>1, LeastNumber
  <2>3. k \in 1..n /\ k - 1 \in 0..n /\ ~(k <= k - 1)
    BY <1>1, <2>2, TotalIs
  <2>4. k - 1 \notin Wrong
    <3> HIDE DEF Wrong
    <3> QED BY <2>2, <2>3
  <2>5. Total(f, k - 1) = h[k - 1] /\ Total(f, k) = Total(f, k - 1) + f[k]
    BY <2>3, <2>4, TotalIs
  <2> QED BY <2>2, <2>3, <2>5
<1> QED BY <1>2

\* Filling in an empty place adds what is put there.
LEMMA SumChanged ==
  ASSUME NEW f \in Seq(Nat), NEW g \in Seq(Nat), Len(g) = Len(f), NEW i \in 1..Len(f), f[i] = 0,
         \A k \in 1..Len(f) : k # i => g[k] = f[k]
  PROVE  Sum(g) = Sum(f) + g[i]
<1> DEFINE n == Len(f)
           h == [k \in 0..n |-> Total(f, k) + (IF k >= i THEN g[i] ELSE 0)]
<1>1. n \in Nat /\ Len(g) = n /\ g[i] \in Nat /\ \A k \in 1..n : g[k] = IF k = i THEN g[i] ELSE f[k]
  OBVIOUS
<1>2. h \in [0..n -> Int] /\ h[0] = 0
  BY <1>1, TotalIs
<1>3. ASSUME NEW k \in 1..n PROVE h[k] = h[k - 1] + g[k]
  <2>1. k \in 0..n /\ k - 1 \in 0..n /\ f[k] \in Nat
    <3>1. \A j \in 1..n : f[j] \in Nat
      OBVIOUS
    <3> QED BY <1>1, <3>1
  <2>2. Total(f, k) = Total(f, k - 1) + f[k] /\ Total(f, k - 1) \in Nat
    BY <2>1, TotalIs
  <2>3. /\ h[k] = Total(f, k) + (IF k >= i THEN g[i] ELSE 0)
        /\ h[k - 1] = Total(f, k - 1) + (IF k - 1 >= i THEN g[i] ELSE 0)
    BY <2>1
  <2> HIDE DEF h
  <2>4. g[k] = IF k = i THEN g[i] ELSE f[k]
    BY <1>1
  <2>5. CASE k = i
    BY <1>1, <2>1, <2>2, <2>3, <2>5
  <2>6. CASE k # i
    BY <1>1, <2>1, <2>2, <2>3, <2>4, <2>6
  <2> QED BY <2>5, <2>6
<1>4. Total(g, n) = h[n]
  <2> HIDE DEF h
  <2>1. /\ h \in [0..Len(g) -> Int] /\ n \in 0..Len(g)
        /\ \A k \in 1..Len(g) : h[k] = h[k - 1] + g[k]
    BY <1>1, <1>2, <1>3
  <2> HIDE DEF n
  <2> QED BY <1>1, <1>2, <2>1, TotalsAlike
<1>. QED BY <1>1, <1>4 DEF Sum

LEMMA TermsAdd ==
  ASSUME NEW c \in Nat, NEW F \in Nat, NEW G \in Nat, NEW U \in Nat, NEW V \in Nat,
         NEW f \in Nat, NEW g \in Nat, NEW u \in Nat, NEW v \in Nat,
         F + c * U >= G + c * V, f + c * u >= g + c * v
  PROVE  F + f + c * (U + u) >= G + g + c * (V + v)
<1>1. c * (U + u) = c * U + c * u /\ c * (V + v) = c * V + c * v
  OBVIOUS
<1>2. c * U \in Nat /\ c * u \in Nat /\ c * V \in Nat /\ c * v \in Nat
  OBVIOUS
<1>. QED BY <1>1, <1>2

\* Sums compare as their terms do, also with multiples of other sums.
LEMMA SumsCompare ==
  ASSUME NEW n \in Nat, NEW c \in Nat,
         NEW f \in Seq(Nat), NEW u \in Seq(Nat), NEW g \in Seq(Nat), NEW v \in Seq(Nat),
         Len(f) = n, Len(g) = n, Len(u) = n, Len(v) = n,
         \A i \in 1..n : f[i] + c * u[i] >= g[i] + c * v[i]
  PROVE  Sum(f) + c * Sum(u) >= Sum(g) + c * Sum(v)
<1> DEFINE Holds(k) == Total(f, k) + c * Total(u, k) >= Total(g, k) + c * Total(v, k)
           Wrong == {k \in 0..n : ~Holds(k)}
<1>1. ASSUME Wrong # {} PROVE FALSE
  <2>1. Wrong \in SUBSET Nat
    OBVIOUS
  <2>2. PICK k \in Wrong : \A l \in Wrong : k <= l
    <3> HIDE DEF Wrong
    <3> QED BY <1>1, <2>1, LeastNumber
  <2>3. Holds(0)
    BY TotalIs
  <2>4. k \in 1..n /\ k - 1 \in 0..n /\ ~(k <= k - 1)
    <3> HIDE DEF Holds
    <3> QED BY <2>2, <2>3
  <2>5. Holds(k - 1)
    <3> HIDE DEF Holds
    <3> QED BY <2>2, <2>4
  <2>6. ASSUME NEW w \in Seq(Nat), Len(w) = n
        PROVE  Total(w, k) = Total(w, k - 1) + w[k] /\ Total(w, k - 1) \in Nat /\ w[k] \in Nat
    <3>1. k \in 1..Len(w) /\ k - 1 \in 0..Len(w)
      BY <2>4, <2>6
    <3>2. \A j \in 1..Len(w) : w[j] \in Nat
      OBVIOUS
    <3> QED BY <3>1, <3>2, TotalIs
  <2>7. f[k] + c * u[k] >= g[k] + c * v[k]
    BY <2>4
  <2>8. /\ Total(f, k) = Total(f, k - 1) + f[k] /\ Total(f, k - 1) \in Nat /\ f[k] \in Nat
        /\ Total(g, k) = Total(g, k - 1) + g[k] /\ Total(g, k - 1) \in Nat /\ g[k] \in Nat
        /\ Total(u, k) = Total(u, k - 1) + u[k] /\ Total(u, k - 1) \in Nat /\ u[k] \in Nat
        /\ Total(v, k) = Total(v, k - 1) + v[k] /\ Total(v, k - 1) \in Nat /\ v[k] \in Nat
    BY <2>6
  <2>9. /\ Total(f, k - 1) + f[k] + c * (Total(u, k - 1) + u[k])
             >= Total(g, k - 1) + g[k] + c * (Total(v, k - 1) + v[k])
    BY <2>5, <2>7, <2>8, TermsAdd
  <2>10. Holds(k)
    BY <2>8, <2>9
  <2> HIDE DEF Holds
  <2> QED BY <2>2, <2>10
<1>2. Holds(n)
  <2> HIDE DEF Holds
  <2> QED BY <1>1
<1>. QED BY <1>2 DEF Sum

-----------------------------------------------------------------------------
(* Walking a book *)

Priced(levels) == levels \in Side /\ \A i \in 1..Len(levels) : One % levels[i].price = 0

\* What the levels are worth, and how much base a unit of quote buys on one.
Worth(levels, i) == levels[i].price * levels[i].qty
Rate(levels, i) == One \div levels[i].price

Notionals(levels) == [i \in 1..Len(levels) |-> Notional(levels[i])]

\* What a walk spends on each level: what the first i fill of the target less
\* what those before i did.
Spent(levels, target) ==
  LET filled(i) == Smaller(target, Total(Notionals(levels), i))
  IN [i \in 1..Len(levels) |-> filled(i) - filled(i - 1)]

LEMMA SidesAre ==
  ASSUME RulesTypeOK, NEW x \in Usable
  PROVE  /\ Priced(quotes[x].asks) /\ quotes[x].asks \in Asks
         /\ Priced(quotes[x].bids) /\ quotes[x].bids \in Bids
<1>1. quotes[x] \in Quotes
  BY DEF RulesTypeOK, Maybe, Usable
<1>2. /\ quotes[x] \in ExchangeQuote
      /\ \A side \in {quotes[x].asks, quotes[x].bids} : \A l \in Range(side) : One % l.price = 0
  BY <1>1, RulesAssumption
<1>3. quotes[x].asks \in Asks /\ quotes[x].bids \in Bids
  BY <1>2 DEF ExchangeQuote
<1>4. quotes[x].asks \in Side /\ quotes[x].bids \in Side
  BY <1>3 DEF Asks, Bids
<1>5. ASSUME NEW side \in {quotes[x].asks, quotes[x].bids} PROVE Priced(side)
  <2>1. side \in Side /\ \A i \in 1..Len(side) : side[i] \in Range(side)
    BY <1>4 DEF Side, Range
  <2> QED BY <1>2, <2>1 DEF Priced
<1>. QED BY <1>3, <1>5

LEMMA LevelsAre ==
  ASSUME NEW levels, Priced(levels)
  PROVE  /\ Len(levels) \in Nat \ {0} /\ DOMAIN levels = 1..Len(levels)
         /\ \A i \in 1..Len(levels) :
              /\ levels[i].price \in Nat \ {0} /\ levels[i].qty \in Nat \ {0}
              /\ Notional(levels[i]) = Worth(levels, i) /\ Worth(levels, i) \in Nat \ {0}
              /\ Rate(levels, i) \in Nat \ {0} /\ Rate(levels, i) * levels[i].price = One
         /\ Notionals(levels) \in Seq(Nat) /\ Len(Notionals(levels)) = Len(levels)
         /\ \A i \in 1..Len(levels) : Notionals(levels)[i] = Worth(levels, i)
<1> DEFINE n == Len(levels)
<1>1. levels \in Seq(Level) /\ levels # <<>>
  BY DEF Priced, Side
<1>2. n \in Nat \ {0} /\ DOMAIN levels = 1..n /\ \A i \in 1..n : levels[i] \in Level
  BY <1>1
<1>3. ASSUME NEW i \in 1..n
      PROVE  /\ levels[i].price \in Nat \ {0} /\ levels[i].qty \in Nat \ {0}
             /\ Notional(levels[i]) = Worth(levels, i) /\ Worth(levels, i) \in Nat \ {0}
             /\ Rate(levels, i) \in Nat \ {0} /\ Rate(levels, i) * levels[i].price = One
  <2>1. PICK p, q : p = levels[i].price /\ q = levels[i].qty
    OBVIOUS
  <2>2. p \in Nat \ {0} /\ q \in Nat \ {0}
    BY <1>2, <2>1 DEF Level
  <2>3. p * q \in Nat \ {0}
    BY <2>2
  <2>4. Notional(levels[i]) = p * q /\ Worth(levels, i) = p * q
    BY <2>1, <2>2 DEF Notional, Worth
  <2>5. One \in Nat \ {0} /\ One % p = 0
    BY <2>1, ScaleAssumption DEF Priced
  <2>6. (One \div p) * p = One /\ One \div p \in Nat
    BY <2>2, <2>5
  <2>7. One \div p # 0
    BY <2>2, <2>5, <2>6
  <2> QED BY <2>1, <2>2, <2>3, <2>4, <2>6, <2>7 DEF Rate
<1>4. /\ Notionals(levels) \in Seq(Nat) /\ Len(Notionals(levels)) = n
      /\ \A i \in 1..n : Notionals(levels)[i] = Worth(levels, i)
  <2>1. \A i \in 1..n : Notional(levels[i]) = Worth(levels, i) /\ Worth(levels, i) \in Nat
    BY <1>3
  <2> HIDE DEF n
  <2>2. Notionals(levels) = [i \in 1..n |-> Worth(levels, i)]
    BY <2>1 DEF Notionals, n
  <2>3. [i \in 1..n |-> Worth(levels, i)] \in Seq(Nat)
    BY <1>2, <2>1
  <2> QED BY <1>2, <2>2, <2>3
<1>. QED BY <1>2, <1>3, <1>4

\* Terms of which all are zero sum to zero.
LEMMA ZerosAre ==
  ASSUME NEW n \in Nat
  PROVE  LET zeros == [i \in 1..n |-> 0] IN zeros \in Seq(Nat) /\ Len(zeros) = n /\ Sum(zeros) = 0
<1> DEFINE zeros == [i \in 1..n |-> 0]
           h == [k \in 0..n |-> 0]
<1>1. zeros \in Seq(Nat) /\ Len(zeros) = n
  OBVIOUS
<1>2. /\ h \in [0..Len(zeros) -> Int] /\ h[0] = 0 /\ n \in 0..Len(zeros)
      /\ \A k \in 1..Len(zeros) : h[k] = h[k - 1] + zeros[k]
  BY <1>1
<1>3. h[n] = 0
  OBVIOUS
<1> HIDE DEF zeros, h
<1>4. Total(zeros, n) = h[n]
  BY <1>1, <1>2, TotalsAlike
<1> QED BY <1>1, <1>3, <1>4 DEF Sum, zeros

\* A running sum never falls.
LEMMA TotalsGrow ==
  ASSUME NEW f \in Seq(Nat), NEW i \in 0..Len(f), NEW j \in i..Len(f)
  PROVE  Total(f, i) <= Total(f, j)
<1> DEFINE n == Len(f)
           Wrong == {k \in i..n : ~(Total(f, i) <= Total(f, k))}
<1>1. n \in Nat /\ \A k \in 1..n : f[k] \in Nat
  OBVIOUS
<1>2. ASSUME Wrong # {} PROVE FALSE
  <2>1. Wrong \in SUBSET Nat
    BY <1>1
  <2>2. PICK k \in Wrong : \A l \in Wrong : k <= l
    <3> HIDE DEF Wrong
    <3> QED BY <1>2, <2>1, LeastNumber
  <2>3. k # i
    BY <2>2, TotalIs
  <2>4. k \in 1..n /\ k - 1 \in 0..n /\ k - 1 \in i..n /\ ~(k <= k - 1)
    BY <1>1, <2>2, <2>3
  <2>5. Total(f, i) <= Total(f, k - 1)
    <3> HIDE DEF n
    <3> QED BY <2>2, <2>4
  <2>6. Total(f, k) = Total(f, k - 1) + f[k] /\ f[k] \in Nat /\ Total(f, k - 1) \in Nat /\ Total(f, i) \in Nat
    BY <1>1, <2>4, TotalIs
  <2> QED BY <2>2, <2>5, <2>6
<1> QED BY <1>2

\* All that the levels hold of the target is spent.
LEMMA SpentIs ==
  ASSUME NEW levels, Priced(levels), NEW a \in Nat
  PROVE  /\ Spent(levels, a) \in Seq(Nat) /\ Len(Spent(levels, a)) = Len(levels)
         /\ \A i \in 1..Len(levels) : Spent(levels, a)[i] <= Worth(levels, i)
         /\ Sum(Spent(levels, a)) = Smaller(a, Sum(Notionals(levels)))
<1> DEFINE n == Len(levels)
           w == Notionals(levels)
           h == [k \in 0..n |-> Smaller(a, Total(w, k))]
           t == [i \in 1..n |-> h[i] - h[i - 1]]
<1>1. n \in Nat \ {0} /\ w \in Seq(Nat) /\ Len(w) = n /\ \A i \in 1..n : w[i] = Worth(levels, i) /\ w[i] \in Nat
  <2>1. \A i \in 1..n : Worth(levels, i) \in Nat
    BY LevelsAre
  <2> QED BY <2>1, LevelsAre
<1> HIDE DEF w
<1>2. /\ Total(w, 0) = 0 /\ \A k \in 0..n : Total(w, k) \in Nat
      /\ \A k \in 1..n : Total(w, k) = Total(w, k - 1) + w[k]
  BY <1>1, TotalIs
<1>3. Spent(levels, a) = t
  <2>1. \A i \in 1..n : i \in 0..n /\ i - 1 \in 0..n
    BY <1>1
  <2> QED BY <1>1, <2>1 DEF Spent, w
<1> HIDE DEF n
<1>4. h \in [0..n -> Int] /\ h[0] = 0
  BY <1>1, <1>2 DEF Smaller
<1>5. ASSUME NEW i \in 1..n PROVE t[i] = h[i] - h[i - 1] /\ t[i] \in Nat /\ t[i] <= w[i]
  <2>1. i \in 0..n /\ i - 1 \in 0..n
    BY <1>1
  <2>2. Total(w, i) \in Nat /\ Total(w, i - 1) \in Nat /\ Total(w, i) = Total(w, i - 1) + w[i] /\ w[i] \in Nat
    BY <1>1, <1>2, <2>1
  <2> QED BY <2>1, <2>2 DEF Smaller
<1>6. t \in Seq(Nat) /\ Len(t) = n
  <2>1. t = [i \in 1..n |-> t[i]]
    OBVIOUS
  <2> HIDE DEF t, h
  <2>2. \A i \in 1..n : t[i] \in Nat
    BY <1>5
  <2>3. [i \in 1..n |-> t[i]] \in Seq(Nat) /\ Len([i \in 1..n |-> t[i]]) = n
    BY <1>1, <2>2
  <2> QED BY <2>1, <2>3
<1>7. Total(t, n) = h[n]
  <2>1. h \in [0..Len(t) -> Int] /\ n \in 0..Len(t) /\ \A k \in 1..Len(t) : h[k] = h[k - 1] + t[k]
    <3>1. \A k \in 1..n : h[k] \in Int /\ h[k - 1] \in Int
      BY <1>1, <1>4
    <3> HIDE DEF h, t
    <3>2. \A k \in 1..n : h[k] = h[k - 1] + t[k]
      BY <1>5, <3>1
    <3> QED BY <1>1, <1>4, <1>6, <3>2
  <2> HIDE DEF h, t
  <2> QED BY <1>4, <1>6, <2>1, TotalsAlike
<1>8. h[n] = Smaller(a, Sum(w))
  BY <1>1 DEF Sum
<1> HIDE DEF t, h
<1>9. Sum(t) = Smaller(a, Sum(w))
  BY <1>6, <1>7, <1>8 DEF Sum
<1>10. \A i \in 1..n : t[i] <= Worth(levels, i)
  BY <1>1, <1>5
<1> QED BY <1>3, <1>6, <1>9, <1>10 DEF n, w

\* The level the target ends on: those before it are taken whole, those after it
\* not at all.
LEMMA MarginIs ==
  ASSUME NEW levels, Priced(levels), NEW a \in Nat \ {0}, a <= Sum(Notionals(levels))
  PROVE  \E m \in 1..Len(levels) :
           /\ \A i \in 1..m - 1 : Spent(levels, a)[i] = Worth(levels, i)
           /\ \A i \in m + 1..Len(levels) : Spent(levels, a)[i] = 0
<1> DEFINE n == Len(levels)
           w == Notionals(levels)
           Reached == {k \in 0..n : Total(w, k) >= a}
<1>1. n \in Nat \ {0} /\ w \in Seq(Nat) /\ Len(w) = n /\ \A i \in 1..n : w[i] = Worth(levels, i) /\ w[i] \in Nat
  <2>1. \A i \in 1..n : Worth(levels, i) \in Nat
    BY LevelsAre
  <2> QED BY <2>1, LevelsAre
<1>2. n \in Reached
  BY <1>1 DEF Sum
<1> HIDE DEF w
<1>3. /\ Total(w, 0) = 0 /\ \A k \in 0..n : Total(w, k) \in Nat
      /\ \A k \in 1..n : Total(w, k) = Total(w, k - 1) + w[k]
  BY <1>1, TotalIs
<1>4. PICK m \in Reached : \A k \in Reached : m <= k
  <2>1. Reached \in SUBSET Nat /\ Reached # {}
    BY <1>1, <1>2
  <2> HIDE DEF Reached
  <2> QED BY <2>1, LeastNumber
<1>5. m \in 1..n
  BY <1>1, <1>3, <1>4
<1>6. \A i \in 1..n : Spent(levels, a)[i] = Smaller(a, Total(w, i)) - Smaller(a, Total(w, i - 1))
  BY DEF Spent, w
<1>7. ASSUME NEW i \in 1..m - 1 PROVE Spent(levels, a)[i] = Worth(levels, i)
  <2>1. i \in 1..n /\ i \in 0..n /\ i - 1 \in 0..n /\ i - 1 < m /\ i < m
    BY <1>1, <1>5
  <2>2. i \notin Reached /\ i - 1 \notin Reached
    <3>1. m \in Nat /\ i \in Nat /\ ~(m <= i) /\ ~(m <= i - 1)
      BY <1>1, <1>5, <2>1
    <3> HIDE DEF Reached
    <3> QED BY <1>4, <3>1
  <2>3. ~(Total(w, i) >= a) /\ ~(Total(w, i - 1) >= a)
    BY <2>1, <2>2
  <2>4. Total(w, i) \in Nat /\ Total(w, i - 1) \in Nat /\ Total(w, i) = Total(w, i - 1) + w[i] /\ w[i] \in Nat
    BY <1>1, <1>3, <2>1
  <2>5. Spent(levels, a)[i] = w[i]
    BY <1>6, <2>1, <2>3, <2>4 DEF Smaller
  <2> QED BY <1>1, <2>1, <2>5
<1>8. ASSUME NEW i \in m + 1..n PROVE Spent(levels, a)[i] = 0
  <2>1. i \in 1..n /\ i \in m..Len(w) /\ i - 1 \in m..Len(w) /\ i \in 0..n /\ i - 1 \in 0..n /\ m \in 0..Len(w)
    BY <1>1, <1>5
  <2>2. Total(w, m) <= Total(w, i) /\ Total(w, m) <= Total(w, i - 1)
    BY <1>1, <2>1, TotalsGrow
  <2>3. Total(w, m) >= a /\ Total(w, m) \in Nat /\ Total(w, i) \in Nat /\ Total(w, i - 1) \in Nat
    BY <1>1, <1>3, <1>4, <2>1
  <2> QED BY <1>6, <2>1, <2>2, <2>3 DEF Smaller
<1> QED BY <1>5, <1>7, <1>8

\* The base traded for an amount spent on each level.
LEMMA TradedIs ==
  ASSUME NEW levels, Priced(levels), NEW s \in Seq(Nat), Len(s) = Len(levels)
  PROVE  LET terms == [i \in 1..Len(levels) |-> s[i] * Rate(levels, i)]
         IN /\ terms \in Seq(Nat) /\ Len(terms) = Len(levels)
            /\ Traded(levels, s) = Sum(terms) /\ Traded(levels, s) \in Nat
            /\ Sum(s) \in Nat /\ Sum(s) <= Traded(levels, s) /\ Traded(levels, s) <= One * Sum(s)
<1> DEFINE n == Len(levels)
           terms == [i \in 1..n |-> s[i] * Rate(levels, i)]
           zeros == [i \in 1..n |-> 0]
<1>1. /\ n \in Nat /\ One \in Nat \ {0}
      /\ \A i \in 1..n : /\ Rate(levels, i) \in Nat \ {0} /\ levels[i].price \in Nat \ {0}
                         /\ Rate(levels, i) * levels[i].price = One
  BY LevelsAre, ScaleAssumption
<1>2. \A i \in 1..n : s[i] \in Nat
  OBVIOUS
<1>3. ASSUME NEW i \in 1..n
      PROVE  /\ (s[i] * One) \div levels[i].price = s[i] * Rate(levels, i)
             /\ s[i] * Rate(levels, i) \in Nat
             /\ s[i] <= s[i] * Rate(levels, i) /\ s[i] * Rate(levels, i) <= One * s[i]
  <2>1. PICK x, r, p : x = s[i] /\ r = Rate(levels, i) /\ p = levels[i].price
    OBVIOUS
  <2>2. x \in Nat /\ r \in Nat \ {0} /\ p \in Nat \ {0} /\ r * p = One
    BY <1>1, <1>2, <2>1
  <2>3. x * One = (x * r) * p /\ x * r \in Nat
    BY <2>2
  <2>4. (x * One) \div p = x * r
    BY <2>2, <2>3
  <2>5. r <= One
    BY <2>2
  <2>6. x <= x * r /\ x * r <= One * x
    BY <1>1, <2>2, <2>5
  <2>7. x = 0 => x * r = 0
    BY <2>2
  <2> QED BY <2>1, <2>3, <2>4, <2>6, <2>7
<1> HIDE DEF n
<1>4. terms \in Seq(Nat) /\ Len(terms) = n /\ \A i \in 1..n : terms[i] = s[i] * Rate(levels, i)
  BY <1>1, <1>3
<1>5. Traded(levels, s) = Sum(terms)
  <2>1. [i \in 1..n |-> (s[i] * One) \div levels[i].price] = terms
    BY <1>3
  <2> QED BY <2>1 DEF Traded, n
<1>6. zeros \in Seq(Nat) /\ Len(zeros) = n /\ Sum(zeros) = 0 /\ \A i \in 1..n : zeros[i] = 0
  BY <1>1, ZerosAre
<1> HIDE DEF terms, zeros
<1>7. Sum(s) \in Nat /\ Sum(terms) \in Nat
  <2>1. n \in 0..n
    BY <1>1
  <2> QED BY <1>4, <2>1, TotalIs DEF Sum, n
<1>8. \A i \in 1..n : /\ terms[i] \in Nat /\ s[i] \in Nat /\ zeros[i] = 0
                      /\ s[i] <= terms[i] /\ terms[i] <= One * s[i]
  BY <1>2, <1>3, <1>4, <1>6
<1>9. Len(s) = n
  BY DEF n
<1>10. Sum(s) <= Sum(terms)
  <2>1. \A i \in 1..n : terms[i] + One * zeros[i] >= s[i] + One * zeros[i]
    BY <1>1, <1>8
  <2>2. Sum(terms) + One * Sum(zeros) >= Sum(s) + One * Sum(zeros)
    BY <1>1, <1>4, <1>6, <1>9, <2>1, SumsCompare
  <2> QED BY <1>1, <1>6, <1>7, <2>2
<1>11. Sum(terms) <= One * Sum(s)
  <2>1. \A i \in 1..n : zeros[i] + One * s[i] >= terms[i] + One * zeros[i]
    <3>1. One * 0 = 0
      BY <1>1
    <3> QED BY <1>1, <1>8, <3>1
  <2>2. Sum(zeros) + One * Sum(s) >= Sum(terms) + One * Sum(zeros)
    BY <1>1, <1>4, <1>6, <1>9, <2>1, SumsCompare
  <2> QED BY <1>1, <1>6, <1>7, <2>2
<1> QED BY <1>4, <1>5, <1>7, <1>10, <1>11 DEF n, terms

\* The loop of a walk, level by level.
LEMMA LoopIs ==
  ASSUME NEW levels, Priced(levels), NEW a \in Nat \ {0}
  PROVE  LET t == Spent(levels, a)
         IN Walk(levels, a) = IF a <= 0 \/ Traded(levels, t) = 0 THEN None
                              ELSE [vwap |-> (Sum(t) * One * Scale) \div Traded(levels, t),
                                    filled |-> Sum(t), capped |-> a - Sum(t) > 0]
<1> DEFINE n == Len(levels)
           w == Notionals(levels)
           t == Spent(levels, a)
           terms == [i \in 1..n |-> t[i] * Rate(levels, i)]
           take(v, l) ==
             LET notional == l.price * l.qty
             IN IF l.price <= 0 \/ l.qty <= 0 \/ v.left = 0 THEN v
                ELSE IF notional >= v.left
                     THEN [left |-> 0, quote |-> v.quote + v.left,
                           base |-> v.base + (v.left * One) \div l.price]
                     ELSE [left |-> v.left - notional, quote |-> v.quote + notional,
                           base |-> v.base + l.qty * One]
           start == [left |-> a, quote |-> 0, base |-> 0]
           Loop(g) == [k \in 0..n |-> IF k = 0 THEN start ELSE take(g[k - 1], levels[k])]
           walked == CHOOSE g : g = Loop(g)
           filled(k) == Smaller(a, Total(w, k))
           state(k) == [left |-> a - filled(k), quote |-> filled(k), base |-> Total(terms, k)]
<1>1. /\ n \in Nat \ {0} /\ w \in Seq(Nat) /\ Len(w) = n
      /\ t \in Seq(Nat) /\ Len(t) = n /\ Sum(t) = filled(n)
      /\ terms \in Seq(Nat) /\ Len(terms) = n /\ Traded(levels, t) = Sum(terms)
  <2>1. /\ n \in Nat \ {0} /\ w \in Seq(Nat) /\ Len(w) = n
        /\ t \in Seq(Nat) /\ Len(t) = n /\ Sum(t) = Smaller(a, Sum(w))
    BY LevelsAre, SpentIs
  <2>2. Sum(w) = Total(w, n)
    BY <2>1 DEF Sum
  <2>3. terms \in Seq(Nat) /\ Len(terms) = n /\ Traded(levels, t) = Sum(terms)
    <3> HIDE DEF t
    <3> QED BY <2>1, TradedIs
  <2> QED BY <2>1, <2>2, <2>3
<1>2. /\ Total(w, 0) = 0 /\ \A k \in 0..n : Total(w, k) \in Nat
      /\ \A k \in 1..n : Total(w, k) = Total(w, k - 1) + w[k]
      /\ Total(terms, 0) = 0 /\ \A k \in 0..n : Total(terms, k) \in Nat
      /\ \A k \in 1..n : Total(terms, k) = Total(terms, k - 1) + terms[k]
  <2> HIDE DEF terms, w, n, t
  <2> QED BY <1>1, TotalIs
<1>3. state(0) = start
  BY <1>2 DEF Smaller
<1>4. ASSUME NEW k \in 1..n PROVE state(k) = take(state(k - 1), levels[k])
  <2>1. PICK p, q, r, x, u, v : /\ p = levels[k].price /\ q = levels[k].qty /\ r = Rate(levels, k)
                                /\ x = t[k] /\ u = Total(w, k - 1) /\ v = Total(terms, k - 1)
    OBVIOUS
  <2>2. p \in Nat \ {0} /\ q \in Nat \ {0} /\ r \in Nat /\ r * p = One /\ w[k] = p * q /\ p * q \in Nat \ {0}
    BY <2>1, LevelsAre DEF Worth
  <2>3. /\ k \in 0..n /\ k - 1 \in 0..n
        /\ Total(w, k) = u + p * q /\ u \in Nat /\ v \in Nat
        /\ Total(terms, k) = v + x * r /\ x = filled(k) - filled(k - 1)
    <3>1. k \in 0..n /\ k - 1 \in 0..n
      BY <1>1
    <3>2. terms[k] = x * r /\ x = filled(k) - filled(k - 1)
      BY <2>1 DEF Spent
    <3> HIDE DEF terms, w, t, n
    <3> QED BY <1>2, <2>1, <2>2, <3>1, <3>2
  <2>4. q * One = (p * q) * r
    <3>1. q * (r * p) = (p * q) * r
      BY <2>2
    <3> QED BY <2>2, <3>1
  <2>5. \A y \in Nat : (y * One) \div p = y * r
    <3>1. ASSUME NEW y \in Nat PROVE (y * One) \div p = y * r
      <4>1. y * (r * p) = (y * r) * p /\ y * r \in Nat
        BY <2>2
      <4>2. ((y * r) * p) \div p = y * r
        BY <2>2, <4>1
      <4> QED BY <2>2, <4>1, <4>2
    <3> QED BY <3>1
  <2>10. /\ filled(k) = Smaller(a, u + p * q) /\ filled(k - 1) = Smaller(a, u)
         /\ x = Smaller(a, u + p * q) - Smaller(a, u)
    BY <2>1, <2>3
  <2> HIDE DEF terms, w, t, filled
  <2>6. levels[k].price = p /\ levels[k].qty = q /\ ~(p <= 0) /\ ~(q <= 0)
    BY <2>1, <2>2
  <2>7. CASE a - filled(k - 1) = 0
    <3>1. filled(k) = filled(k - 1) /\ x = 0
      BY <2>2, <2>3, <2>10, <2>7 DEF Smaller
    <3>2. x * r = 0
      BY <2>2, <3>1
    <3>3. state(k) = state(k - 1)
      BY <2>1, <2>3, <3>1, <3>2
    <3>4. take(state(k - 1), levels[k]) = state(k - 1)
      BY <2>7
    <3> QED BY <3>3, <3>4
  <2>8. CASE a - filled(k - 1) # 0 /\ p * q >= a - filled(k - 1)
    <3>1. filled(k - 1) = u /\ filled(k) = a /\ x = a - u /\ a - u \in Nat
      BY <2>2, <2>3, <2>10, <2>8 DEF Smaller
    <3>2. state(k - 1) = [left |-> a - u, quote |-> u, base |-> v]
      BY <2>1, <3>1
    <3>3. take(state(k - 1), levels[k]) = [left |-> 0, quote |-> u + (a - u), base |-> v + ((a - u) * One) \div p]
      BY <2>6, <2>8, <3>1, <3>2
    <3>4. state(k) = [left |-> a - a, quote |-> a, base |-> v + x * r]
      BY <2>3, <3>1
    <3>5. ((a - u) * One) \div p = x * r /\ a - a = 0 /\ u + (a - u) = a
      BY <2>3, <2>5, <3>1
    <3> QED BY <3>3, <3>4, <3>5
  <2>9. CASE a - filled(k - 1) # 0 /\ ~(p * q >= a - filled(k - 1))
    <3>1. filled(k - 1) = u /\ filled(k) = u + p * q /\ x = p * q
      <4>1. PICK m \in Nat \ {0} : m = p * q
        BY <2>2
      <4>2. filled(k - 1) = u /\ a - u > m
        BY <2>3, <2>9, <2>10, <4>1 DEF Smaller
      <4>3. filled(k) = u + m /\ x = m
        BY <2>3, <2>10, <4>1, <4>2 DEF Smaller
      <4> QED BY <4>1, <4>2, <4>3
    <3>2. state(k - 1) = [left |-> a - u, quote |-> u, base |-> v]
      BY <2>1, <3>1
    <3>3. take(state(k - 1), levels[k]) = [left |-> a - u - p * q, quote |-> u + p * q, base |-> v + q * One]
      BY <2>6, <2>9, <3>1, <3>2
    <3>4. state(k) = [left |-> a - (u + p * q), quote |-> u + p * q, base |-> v + x * r]
      BY <2>3, <3>1
    <3>5. q * One = x * r /\ a - u - p * q = a - (u + p * q)
      BY <2>2, <2>3, <2>4, <3>1
    <3> QED BY <3>3, <3>4, <3>5
  <2> QED BY <2>7, <2>8, <2>9
<1> HIDE DEF w, t, terms, start, take, state, filled, n
<1> DEFINE states == [k \in 0..n |-> state(k)]
<1>5. states = Loop(states)
  <2>1. \A k \in 0..n : k = 0 \/ (k \in 1..n /\ k - 1 \in 0..n)
    BY <1>1
  <2> QED BY <1>1, <1>3, <1>4, <2>1
<1>6. walked = Loop(walked)
  <2> HIDE DEF states, Loop
  <2> QED BY <1>5
<1> HIDE DEF walked, states
<1> DEFINE Wrong == {k \in 0..n : walked[k] # state(k)}
<1>7. ASSUME Wrong # {} PROVE FALSE
  <2>1. Wrong \in SUBSET Nat
    BY <1>1
  <2>2. PICK k \in Wrong : \A l \in Wrong : k <= l
    <3> HIDE DEF Wrong
    <3> QED BY <1>7, <2>1, LeastNumber
  <2>3. \A l \in 0..n : walked[l] = IF l = 0 THEN start ELSE take(walked[l - 1], levels[l])
    BY <1>6
  <2>4. k \in 1..n /\ k - 1 \in 0..n /\ ~(k <= k - 1)
    BY <1>1, <1>3, <2>2, <2>3
  <2>5. walked[k - 1] = state(k - 1)
    BY <2>2, <2>4
  <2>6. walked[k] = take(walked[k - 1], levels[k])
    BY <1>1, <2>3, <2>4
  <2> QED BY <1>4, <2>2, <2>4, <2>5, <2>6
<1>8. walked[n] = state(n)
  <2>1. n \in 0..n /\ n \notin Wrong
    BY <1>1, <1>7
  <2> QED BY <2>1
<1>9. Walk(levels, a) = IF a <= 0 \/ walked[n].base = 0 THEN None
                        ELSE [vwap |-> (walked[n].quote * One * Scale) \div walked[n].base,
                              filled |-> walked[n].quote, capped |-> walked[n].left > 0]
  BY DEF Walk, walked, start, take, n
<1>10. /\ walked[n].left = a - Sum(t) /\ walked[n].quote = Sum(t) /\ walked[n].base = Traded(levels, t)
  BY <1>1, <1>8 DEF state, Sum
<1> QED BY <1>9, <1>10 DEF t

\* The dearer a level, the less a unit of quote buys on it.
LEMMA RatesAre ==
  ASSUME NEW levels, Priced(levels), NEW i \in 1..Len(levels), NEW j \in 1..Len(levels),
         levels[i].price <= levels[j].price
  PROVE  Rate(levels, j) <= Rate(levels, i)
<1>1. PICK p, q, x, y : p = levels[i].price /\ q = levels[j].price /\ x = Rate(levels, i) /\ y = Rate(levels, j)
  OBVIOUS
<1>2. p \in Nat \ {0} /\ q \in Nat \ {0} /\ x \in Nat /\ y \in Nat /\ x * p = One /\ y * q = One /\ p <= q
  BY <1>1, LevelsAre
<1>3. ASSUME x < y PROVE FALSE
  <2>1. (x + 1) * p <= y * p /\ y * p <= y * q
    BY <1>2, <1>3
  <2>2. (x + 1) * p = x * p + p
    BY <1>2
  <2> QED BY <1>2, <2>1, <2>2
<1> QED BY <1>1, <1>2, <1>3

\* Moving money to a level with a better rate trades more.
LEMMA Exchange ==
  ASSUME NEW a \in Nat, NEW b \in Nat, NEW c \in Nat, NEW d \in Nat, a >= b, c >= d
  PROVE  a * c + d * b >= b * c + d * a
<1>1. PICK x \in Nat : a = b + x
  BY a - b \in Nat
<1>2. PICK y \in Nat : c = d + y
  BY c - d \in Nat
<1>3. x * y \in Nat /\ a * c + d * b = b * c + d * a + x * y
  BY <1>1, <1>2
<1> QED BY <1>3

\* What can be spent on the levels of a book.
Split(levels, s) ==
  s \in Seq(Nat) /\ Len(s) = Len(levels) /\ \A i \in 1..Len(levels) : s[i] <= Worth(levels, i)

LEMMA SplitTerms ==
  ASSUME NEW levels, Priced(levels), NEW c \in Nat, NEW s, NEW t, Split(levels, s), Split(levels, t),
         \A i \in 1..Len(levels) : t[i] * Rate(levels, i) + c * s[i] >= s[i] * Rate(levels, i) + c * t[i]
  PROVE  Traded(levels, t) + c * Sum(s) >= Traded(levels, s) + c * Sum(t)
<1> DEFINE n == Len(levels)
           terms(u) == [i \in 1..n |-> u[i] * Rate(levels, i)]
<1>1. n \in Nat /\ s \in Seq(Nat) /\ t \in Seq(Nat) /\ Len(s) = n /\ Len(t) = n
  BY LevelsAre DEF Split
<1>2. /\ terms(s) \in Seq(Nat) /\ Len(terms(s)) = n /\ Traded(levels, s) = Sum(terms(s))
      /\ terms(t) \in Seq(Nat) /\ Len(terms(t)) = n /\ Traded(levels, t) = Sum(terms(t))
  BY <1>1, TradedIs
<1>3. \A i \in 1..n : /\ terms(s)[i] = s[i] * Rate(levels, i)
                      /\ terms(t)[i] = t[i] * Rate(levels, i)
  OBVIOUS
<1> HIDE DEF n, terms
<1>4. \A i \in 1..n : terms(t)[i] + c * s[i] >= terms(s)[i] + c * t[i]
  BY <1>3 DEF n
<1> QED BY <1>1, <1>2, <1>4, SumsCompare

\* Of all that can be spent on a book's asks nothing trades more, not even when
\* the rest is traded at the rate of the level the walk ends on.
LEMMA AsksBuyMost ==
  ASSUME NEW levels \in Asks, Priced(levels), NEW a \in Nat \ {0}, a <= Sum(Notionals(levels))
  PROVE  \E c \in Nat : \A s : Split(levels, s) =>
           Traded(levels, Spent(levels, a)) + c * Sum(s) >= Traded(levels, s) + c * Sum(Spent(levels, a))
<1> DEFINE n == Len(levels)
           t == Spent(levels, a)
<1>1. PICK m \in 1..n : /\ \A i \in 1..m - 1 : t[i] = Worth(levels, i)
                        /\ \A i \in m + 1..n : t[i] = 0
  BY MarginIs
<1>2. n \in Nat \ {0} /\ DOMAIN levels = 1..n /\ Split(levels, t) /\ \A i \in 1..n : Rate(levels, i) \in Nat
  BY LevelsAre, SpentIs DEF Split
<1>3. \A j \in 1..n : \A i \in 1..j : levels[i].price <= levels[j].price
  BY <1>2 DEF Asks
<1> HIDE DEF t
<1> DEFINE c == Rate(levels, m)
<1>4. c \in Nat
  BY <1>2
<1>5. ASSUME NEW s, Split(levels, s), NEW i \in 1..n
      PROVE  t[i] * Rate(levels, i) + c * s[i] >= s[i] * Rate(levels, i) + c * t[i]
  <2>1. PICK x, y, r : x = s[i] /\ y = t[i] /\ r = Rate(levels, i)
    OBVIOUS
  <2>2. x \in Nat /\ y \in Nat /\ r \in Nat /\ x <= Worth(levels, i)
    <3>1. \A j \in 1..Len(s) : s[j] \in Nat
      BY <1>5 DEF Split
    <3>2. \A j \in 1..Len(t) : t[j] \in Nat
      BY <1>2 DEF Split
    <3> QED BY <1>2, <1>5, <2>1, <3>1, <3>2 DEF Split
  <2> HIDE DEF c
  <2>3. CASE i = m
    BY <1>4, <2>1, <2>2, <2>3 DEF c
  <2>4. CASE i < m
    <3>1. y >= x
      <4>1. i \in 1..m - 1
        BY <1>2, <2>4
      <4> QED BY <1>1, <2>1, <2>2, <4>1
    <3>2. r >= c
      <4>1. levels[i].price <= levels[m].price
        BY <1>1, <1>2, <1>3, <2>4
      <4> QED BY <1>1, <1>2, <2>1, <4>1, RatesAre DEF c
    <3> QED BY <1>4, <2>1, <2>2, <3>1, <3>2, Exchange
  <2>5. CASE i > m
    <3>1. y = 0
      <4>1. i \in m + 1..n
        BY <1>2, <2>5
      <4> QED BY <1>1, <2>1, <4>1
    <3>2. c >= r
      <4>1. levels[m].price <= levels[i].price
        BY <1>1, <1>2, <1>3, <2>5
      <4> QED BY <1>1, <1>2, <2>1, <4>1, RatesAre DEF c
    <3>3. x * c + r * y >= y * c + r * x
      BY <1>4, <2>2, <3>1, <3>2, Exchange
    <3>4. x * c = c * x /\ r * y = y * r /\ y * c = c * y /\ r * x = x * r
      BY <1>4, <2>2
    <3>5. y * r + c * x >= x * r + c * y
      <4>1. c * x \in Nat /\ y * r \in Nat /\ c * y \in Nat /\ x * r \in Nat
        BY <1>4, <2>2
      <4> QED BY <3>3, <3>4, <4>1
    <3> QED BY <2>1, <3>5
  <2> QED BY <1>2, <2>3, <2>4, <2>5
<1>6. ASSUME NEW s, Split(levels, s)
      PROVE  Traded(levels, t) + c * Sum(s) >= Traded(levels, s) + c * Sum(t)
  <2> HIDE DEF c
  <2>1. \A i \in 1..Len(levels) : t[i] * Rate(levels, i) + c * s[i] >= s[i] * Rate(levels, i) + c * t[i]
    BY <1>5, <1>6
  <2> HIDE DEF n
  <2> QED BY <1>2, <1>4, <1>6, <2>1, SplitTerms
<1> HIDE DEF c
<1> QED BY <1>4, <1>6 DEF t

\* And nothing trades less on its bids.
LEMMA BidsSellLeast ==
  ASSUME NEW levels \in Bids, Priced(levels), NEW a \in Nat \ {0}, a <= Sum(Notionals(levels))
  PROVE  \E c \in Nat : \A s : Split(levels, s) =>
           Traded(levels, s) + c * Sum(Spent(levels, a)) >= Traded(levels, Spent(levels, a)) + c * Sum(s)
<1> DEFINE n == Len(levels)
           t == Spent(levels, a)
<1>1. PICK m \in 1..n : /\ \A i \in 1..m - 1 : t[i] = Worth(levels, i)
                        /\ \A i \in m + 1..n : t[i] = 0
  BY MarginIs
<1>2. n \in Nat \ {0} /\ DOMAIN levels = 1..n /\ Split(levels, t) /\ \A i \in 1..n : Rate(levels, i) \in Nat
  BY LevelsAre, SpentIs DEF Split
<1>3. \A j \in 1..n : \A i \in 1..j : levels[j].price <= levels[i].price
  <2>1. \A j \in 1..n : \A i \in 1..j : levels[i].price >= levels[j].price
    BY <1>2 DEF Bids
  <2>2. \A i \in 1..n : levels[i].price \in Nat
    BY LevelsAre
  <2> QED BY <1>2, <2>1, <2>2
<1> HIDE DEF t
<1> DEFINE c == Rate(levels, m)
<1>4. c \in Nat
  BY <1>2
<1>5. ASSUME NEW s, Split(levels, s), NEW i \in 1..n
      PROVE  s[i] * Rate(levels, i) + c * t[i] >= t[i] * Rate(levels, i) + c * s[i]
  <2>1. PICK x, y, r : x = s[i] /\ y = t[i] /\ r = Rate(levels, i)
    OBVIOUS
  <2>2. x \in Nat /\ y \in Nat /\ r \in Nat /\ x <= Worth(levels, i)
    <3>1. \A j \in 1..Len(s) : s[j] \in Nat
      BY <1>5 DEF Split
    <3>2. \A j \in 1..Len(t) : t[j] \in Nat
      BY <1>2 DEF Split
    <3> QED BY <1>2, <1>5, <2>1, <3>1, <3>2 DEF Split
  <2> HIDE DEF c
  <2>3. CASE i = m
    BY <1>4, <2>1, <2>2, <2>3 DEF c
  <2>4. CASE i < m
    <3>1. y >= x
      <4>1. i \in 1..m - 1
        BY <1>2, <2>4
      <4> QED BY <1>1, <2>1, <2>2, <4>1
    <3>2. c >= r
      <4>1. levels[m].price <= levels[i].price
        BY <1>1, <1>2, <1>3, <2>4
      <4> QED BY <1>1, <1>2, <2>1, <4>1, RatesAre DEF c
    <3>3. y * c + r * x >= x * c + r * y
      BY <1>4, <2>2, <3>1, <3>2, Exchange
    <3>4. x * c = c * x /\ r * y = y * r /\ y * c = c * y /\ r * x = x * r
      BY <1>4, <2>2
    <3>5. x * r + c * y >= y * r + c * x
      <4>1. c * x \in Nat /\ y * r \in Nat /\ c * y \in Nat /\ x * r \in Nat
        BY <1>4, <2>2
      <4> QED BY <3>3, <3>4, <4>1
    <3> QED BY <2>1, <3>5
  <2>5. CASE i > m
    <3>1. y = 0
      <4>1. i \in m + 1..n
        BY <1>2, <2>5
      <4> QED BY <1>1, <2>1, <4>1
    <3>2. r >= c
      <4>1. levels[i].price <= levels[m].price
        BY <1>1, <1>2, <1>3, <2>5
      <4> QED BY <1>1, <1>2, <2>1, <4>1, RatesAre DEF c
    <3> QED BY <1>4, <2>1, <2>2, <3>1, <3>2, Exchange
  <2> QED BY <1>2, <2>3, <2>4, <2>5
<1>6. ASSUME NEW s, Split(levels, s)
      PROVE  Traded(levels, s) + c * Sum(t) >= Traded(levels, t) + c * Sum(s)
  <2> HIDE DEF c
  <2>1. \A i \in 1..Len(levels) : s[i] * Rate(levels, i) + c * t[i] >= t[i] * Rate(levels, i) + c * s[i]
    BY <1>5, <1>6
  <2> HIDE DEF n
  <2> QED BY <1>2, <1>4, <1>6, <2>1, SplitTerms
<1> HIDE DEF c
<1> QED BY <1>4, <1>6 DEF t

\* The price of a walk over amount of quote.
Vwap(levels, amount) == (amount * One * Scale) \div Traded(levels, Spent(levels, amount))

LEMMA WalkIs ==
  ASSUME NEW levels, Priced(levels), NEW a \in Nat \ {0}
  PROVE  LET f == Smaller(a, Sum(Notionals(levels)))
         IN /\ f \in Nat \ {0} /\ f <= Sum(Notionals(levels)) /\ Sum(Notionals(levels)) \in Nat \ {0}
            /\ Traded(levels, Spent(levels, f)) \in Nat \ {0}
            /\ Traded(levels, Spent(levels, f)) <= One * f
            /\ Spent(levels, a) = Spent(levels, f)
            /\ Sum(Spent(levels, a)) = f /\ Traded(levels, Spent(levels, a)) \in Nat \ {0}
            /\ Walk(levels, a) = [vwap |-> Vwap(levels, f), filled |-> f, capped |-> f < a]
<1> DEFINE v == Sum(Notionals(levels))
           f == Smaller(a, v)
           n == Len(levels)
           w == Notionals(levels)
<1>1. n \in Nat \ {0} /\ w \in Seq(Nat) /\ Len(w) = n /\ \A i \in 1..n : w[i] = Worth(levels, i) /\ w[i] \in Nat \ {0}
  <2>1. \A i \in 1..n : Worth(levels, i) \in Nat \ {0}
    BY LevelsAre
  <2> QED BY <2>1, LevelsAre
<1>2. v \in Nat \ {0}
  <2> HIDE DEF w, n
  <2>1. \A k \in 0..n : Total(w, k) \in Nat
    BY <1>1, TotalIs
  <2>2. 1 \in 1..n /\ n \in 1..Len(w) /\ 1 \in 0..Len(w) /\ n \in 0..n /\ 0 \in 0..n
    BY <1>1
  <2>3. Total(w, 1) <= Total(w, n)
    BY <1>1, <2>2, TotalsGrow
  <2>4. Total(w, 1) = Total(w, 0) + w[1] /\ Total(w, 0) = 0
    BY <1>1, <2>2, TotalIs
  <2>5. v = Total(w, n)
    BY <1>1 DEF Sum, w
  <2> QED BY <1>1, <2>1, <2>2, <2>3, <2>4, <2>5
<1> HIDE DEF v
<1>3. f \in Nat \ {0} /\ f <= v /\ f <= a
  BY <1>2 DEF Smaller
<1>4. Spent(levels, a) = Spent(levels, f)
  <2>1. \A i \in 0..n : Total(w, i) \in Nat /\ Total(w, i) <= v
    <3> HIDE DEF w, n
    <3>1. \A i \in 0..n : Total(w, i) \in Nat
      BY <1>1, TotalIs
    <3>2. \A i \in 0..n : Total(w, i) <= Total(w, n)
      <4>1. \A i \in 0..n : n \in i..Len(w)
        BY <1>1
      <4> QED BY <1>1, <4>1, TotalsGrow
    <3>3. v = Total(w, n)
      BY <1>1 DEF Sum, w, v
    <3> QED BY <3>1, <3>2, <3>3
  <2>2. \A i \in 0..n : Smaller(a, Total(w, i)) = Smaller(f, Total(w, i))
    BY <1>2, <2>1 DEF Smaller
  <2>3. \A i \in 1..n : i \in 0..n /\ i - 1 \in 0..n
    BY <1>1
  <2> HIDE DEF f
  <2> QED BY <2>2, <2>3 DEF Spent
<1> HIDE DEF f, w, n
<1>5. Sum(Spent(levels, a)) = f
  BY SpentIs DEF f, v
<1>6. Traded(levels, Spent(levels, a)) \in Nat \ {0} /\ Traded(levels, Spent(levels, a)) <= One * f
  <2>1. Spent(levels, a) \in Seq(Nat) /\ Len(Spent(levels, a)) = Len(levels)
    BY SpentIs
  <2>2. /\ Traded(levels, Spent(levels, a)) \in Nat
        /\ f <= Traded(levels, Spent(levels, a)) /\ Traded(levels, Spent(levels, a)) <= One * f
    BY <1>5, <2>1, TradedIs
  <2> QED BY <1>3, <2>2
<1>7. ~(a <= 0 \/ Traded(levels, Spent(levels, a)) = 0)
  BY <1>6
<1>8. Walk(levels, a) = [vwap |-> Vwap(levels, f), filled |-> f, capped |-> f < a]
  <2>1. Walk(levels, a) = [vwap |-> Vwap(levels, f), filled |-> f, capped |-> a - f > 0]
    BY <1>4, <1>5, <1>7, LoopIs DEF Vwap
  <2>2. (a - f > 0) = (f < a)
    BY <1>3
  <2> QED BY <2>1, <2>2
<1> QED BY <1>2, <1>3, <1>4, <1>5, <1>6, <1>7, <1>8 DEF f, v

\* What two books fill of a target together, and at which prices.
LEMMA SpreadIs ==
  ASSUME NEW asks, Priced(asks), NEW bids, Priced(bids), NEW target \in Int, NEW fees,
         NEW entry, entry = ExecutableSpread(asks, bids, target, fees), entry # None
  PROVE  LET size == Smaller(Smaller(target, Sum(Notionals(asks))), Smaller(target, Sum(Notionals(bids))))
             gross == Gain(Vwap(bids, size), Vwap(asks, size))
         IN /\ target \in Nat \ {0} /\ size \in Nat \ {0}
            /\ size <= Sum(Notionals(asks)) /\ size <= Sum(Notionals(bids))
            /\ entry = [vwap_buy |-> Vwap(asks, size), vwap_sell |-> Vwap(bids, size), gross |-> gross,
                        net |-> gross - fees, notional |-> size, capped |-> size < target]
<1> DEFINE va == Sum(Notionals(asks))
           vb == Sum(Notionals(bids))
           fa == Smaller(target, va)
           fb == Smaller(target, vb)
           size == Smaller(fa, fb)
<1>1. target \in Nat \ {0}
  <2> SUFFICES ASSUME target <= 0 PROVE FALSE
    OBVIOUS
  <2>1. Walk(asks, target) = None
    BY DEF Walk
  <2> QED BY <2>1 DEF ExecutableSpread
<1>2. /\ va \in Nat \ {0} /\ vb \in Nat \ {0}
      /\ Walk(asks, target) = [vwap |-> Vwap(asks, fa), filled |-> fa, capped |-> fa < target]
      /\ Walk(bids, target) = [vwap |-> Vwap(bids, fb), filled |-> fb, capped |-> fb < target]
  BY <1>1, WalkIs
<1> HIDE DEF va, vb
<1>3. /\ fa \in Nat \ {0} /\ fb \in Nat \ {0} /\ size \in Nat \ {0}
      /\ size <= fa /\ size <= fb /\ size <= va /\ size <= vb /\ fa <= target /\ fb <= target
      /\ Smaller(size, va) = size /\ Smaller(size, vb) = size
      /\ ~(size < target) => fa = size /\ fb = size
      /\ (fa < target \/ fb < target) = (size < target)
  BY <1>1, <1>2 DEF Smaller
<1> HIDE DEF size
<1>4. /\ Walk(asks, size) = [vwap |-> Vwap(asks, size), filled |-> size, capped |-> size < size]
      /\ Walk(bids, size) = [vwap |-> Vwap(bids, size), filled |-> size, capped |-> size < size]
  <2>1. /\ Walk(asks, size) = [vwap |-> Vwap(asks, Smaller(size, va)), filled |-> Smaller(size, va),
                               capped |-> Smaller(size, va) < size]
        /\ Walk(bids, size) = [vwap |-> Vwap(bids, Smaller(size, vb)), filled |-> Smaller(size, vb),
                               capped |-> Smaller(size, vb) < size]
    BY <1>3, WalkIs DEF va, vb
  <2> QED BY <1>3, <2>1
<1> HIDE DEF fa, fb
<1> DEFINE b == IF size < target THEN Walk(asks, size) ELSE Walk(asks, target)
           s == IF size < target THEN Walk(bids, size) ELSE Walk(bids, target)
<1>5. b.vwap = Vwap(asks, size) /\ s.vwap = Vwap(bids, size)
  BY <1>2, <1>3, <1>4
<1>6. Walk(asks, target) # None /\ Walk(bids, target) # None
  BY DEF ExecutableSpread
<1>7. size = Smaller(Walk(asks, target).filled, Walk(bids, target).filled)
  BY <1>2 DEF size
<1>8. (Walk(asks, target).capped \/ Walk(bids, target).capped) = (size < target)
  <2>1. Walk(asks, target).capped = (fa < target) /\ Walk(bids, target).capped = (fb < target)
    BY <1>2
  <2> QED BY <1>3, <2>1
<1> HIDE DEF b, s
<1>9. entry = LET gross == Gain(s.vwap, b.vwap)
              IN [vwap_buy |-> b.vwap, vwap_sell |-> s.vwap, gross |-> gross,
                  net |-> gross - fees, notional |-> size,
                  capped |-> Walk(asks, target).capped \/ Walk(bids, target).capped]
  BY <1>6, <1>7 DEF ExecutableSpread, b, s
<1>10. entry = [vwap_buy |-> Vwap(asks, size), vwap_sell |-> Vwap(bids, size),
                gross |-> Gain(Vwap(bids, size), Vwap(asks, size)),
                net |-> Gain(Vwap(bids, size), Vwap(asks, size)) - fees, notional |-> size,
                capped |-> size < target]
  BY <1>5, <1>8, <1>9
<1> QED BY <1>1, <1>3, <1>10 DEF size, fa, fb, va, vb

\* The levels a walk takes are among the splits, and every split spends the amount.
LEMMA SplitsAre ==
  ASSUME NEW levels, Priced(levels), NEW a \in Nat \ {0}, a <= Sum(Notionals(levels))
  PROVE  /\ Spent(levels, a) \in Splits(levels, a)
         /\ \A s \in Splits(levels, a) : Split(levels, s) /\ Sum(s) = a
<1> DEFINE n == Len(levels)
           all == 1..n
           full(F) == [j \in all |-> IF j \in F THEN Notional(levels[j]) ELSE 0]
           cand(F, i) == [full(F) EXCEPT ![i] = a - Sum(full(F))]
           t == Spent(levels, a)
<1>1. n \in Nat \ {0} /\ \A i \in all : Notional(levels[i]) = Worth(levels, i) /\ Worth(levels, i) \in Nat
  BY LevelsAre
<1>2. Splits(levels, a) = {s \in UNION {{cand(F, i) : F \in SUBSET (all \ {i})} : i \in all} :
                             \A i \in all : s[i] \in 0..Notional(levels[i])}
  BY DEF Splits
<1>3. /\ t \in Seq(Nat) /\ Len(t) = n /\ \A i \in all : t[i] <= Worth(levels, i)
      /\ Sum(t) = a
  BY SpentIs DEF Smaller
<1> HIDE DEF n, t
<1>4. ASSUME NEW F, NEW i \in all, i \notin F, NEW g \in Seq(Nat), Len(g) = n,
             \A k \in all : k # i => g[k] = full(F)[k]
      PROVE  Sum(g) = Sum(full(F)) + g[i] /\ Sum(full(F)) \in Nat
  <2>1. full(F) \in Seq(Nat) /\ Len(full(F)) = n /\ full(F)[i] = 0
    BY <1>1, <1>4
  <2> HIDE DEF full
  <2>2. i \in 1..Len(full(F)) /\ n \in 0..Len(full(F))
    BY <1>1, <2>1
  <2>3. Sum(full(F)) \in Nat
    BY <2>1, <2>2, TotalIs DEF Sum
  <2>4. Sum(g) = Sum(full(F)) + g[i]
    BY <1>4, <2>1, <2>2, SumChanged
  <2> QED BY <2>3, <2>4
<1>5. ASSUME NEW s \in Splits(levels, a) PROVE Split(levels, s) /\ Sum(s) = a
  <2>0. PICK i \in all : \E F \in SUBSET (all \ {i}) : s = cand(F, i)
    <3> HIDE DEF cand, full
    <3> QED BY <1>2
  <2>1. PICK F \in SUBSET (all \ {i}) : s = cand(F, i)
    BY <2>0
  <2>2. s[i] \in Nat /\ \A j \in all : s[j] <= Worth(levels, j)
    BY <1>1, <1>2
  <2>3. s[i] = a - Sum(full(F))
    BY <2>1
  <2>4. /\ s = [k \in all |-> s[k]]
        /\ \A k \in all : s[k] \in Nat /\ (k # i => s[k] = full(F)[k])
    BY <1>1, <2>1, <2>2
  <2>5. s \in Seq(Nat) /\ Len(s) = n
    <3> HIDE DEF full, cand
    <3>1. [k \in all |-> s[k]] \in Seq(Nat) /\ Len([k \in all |-> s[k]]) = n
      BY <1>1, <2>4
    <3> QED BY <2>4, <3>1
  <2> HIDE DEF full, cand
  <2>6. Sum(s) = Sum(full(F)) + s[i] /\ Sum(full(F)) \in Nat
    BY <1>4, <2>4, <2>5
  <2> QED BY <2>2, <2>3, <2>5, <2>6 DEF Split, n
<1>6. t \in Splits(levels, a)
  <2>1. PICK m \in all : /\ \A i \in 1..m - 1 : t[i] = Worth(levels, i)
                         /\ \A i \in m + 1..n : t[i] = 0
    BY MarginIs DEF n, t
  <2> DEFINE F == 1..m - 1
  <2>2. F \in SUBSET (all \ {m}) /\ m \notin F /\ \A i \in all : i \in F \/ i = m \/ i \in m + 1..n
    BY <1>1
  <2>3. \A i \in all : t[i] \in Nat
    BY <1>3
  <2>4. \A i \in all : i # m => t[i] = full(F)[i]
    BY <1>1, <2>1, <2>2
  <2> HIDE DEF F, full
  <2>5. Sum(t) = Sum(full(F)) + t[m] /\ Sum(full(F)) \in Nat
    BY <1>3, <1>4, <2>2, <2>4
  <2>6. t[m] = a - Sum(full(F))
    BY <1>3, <2>3, <2>5
  <2>7. t = cand(F, m)
    <3>1. t = [i \in all |-> t[i]] /\ full(F) = [i \in all |-> full(F)[i]]
      BY <1>3 DEF full
    <3>2. cand(F, m) = [i \in all |-> IF i = m THEN t[m] ELSE full(F)[i]]
      BY <2>6, <3>1
    <3> HIDE DEF cand
    <3> QED BY <2>4, <3>1, <3>2
  <2> HIDE DEF cand
  <2>8. \A i \in all : t[i] \in 0..Notional(levels[i])
    BY <1>1, <1>3, <2>3
  <2> QED BY <1>2, <2>2, <2>7, <2>8
<1> QED BY <1>5, <1>6 DEF t

\* The best and the worst of the splits.
LEMMA BestSplits ==
  ASSUME NEW levels, Priced(levels), NEW a \in Nat \ {0}, a <= Sum(Notionals(levels))
  PROVE  /\ levels \in Asks => Max({Traded(levels, s) : s \in Splits(levels, a)}) = Traded(levels, Spent(levels, a))
         /\ levels \in Bids => Min({Traded(levels, s) : s \in Splits(levels, a)}) = Traded(levels, Spent(levels, a))
<1> DEFINE t == Spent(levels, a)
           bases == {Traded(levels, s) : s \in Splits(levels, a)}
<1>1. /\ t \in Splits(levels, a)
      /\ \A s \in Splits(levels, a) : Split(levels, s) /\ Sum(s) = a /\ Traded(levels, s) \in Nat
  BY SplitsAre, TradedIs DEF Split
<1>2. bases \subseteq Nat /\ Traded(levels, t) \in bases
  BY <1>1
<1>3. ASSUME levels \in Asks PROVE Max(bases) = Traded(levels, t)
  <2>1. PICK c \in Nat : \A s : Split(levels, s) =>
          Traded(levels, t) + c * Sum(s) >= Traded(levels, s) + c * Sum(t)
    BY <1>3, AsksBuyMost
  <2>2. \A s \in Splits(levels, a) : Traded(levels, t) >= Traded(levels, s)
    <3> HIDE DEF t
    <3>1. ASSUME NEW s \in Splits(levels, a) PROVE Traded(levels, t) >= Traded(levels, s)
      <4>1. Traded(levels, t) + c * a >= Traded(levels, s) + c * a
        BY <1>1, <2>1
      <4>2. c * a \in Nat /\ Traded(levels, t) \in Nat /\ Traded(levels, s) \in Nat
        BY <1>1
      <4> QED BY <4>1, <4>2
    <3> QED BY <3>1
  <2>3. \A b \in bases : Traded(levels, t) >= b
    BY <2>2
  <2> HIDE DEF bases, t
  <2>4. PICK b : b = Max(bases)
    OBVIOUS
  <2>5. b \in bases /\ \A o \in bases : b >= o
    BY <1>2, <2>3, <2>4 DEF Max
  <2>6. b \in Nat /\ Traded(levels, t) \in Nat /\ b <= Traded(levels, t) /\ b >= Traded(levels, t)
    BY <1>2, <2>3, <2>5
  <2>7. b = Traded(levels, t)
    BY <2>6
  <2> QED BY <2>4, <2>7
<1>4. ASSUME levels \in Bids PROVE Min(bases) = Traded(levels, t)
  <2>1. PICK c \in Nat : \A s : Split(levels, s) =>
          Traded(levels, s) + c * Sum(t) >= Traded(levels, t) + c * Sum(s)
    BY <1>4, BidsSellLeast
  <2>2. \A s \in Splits(levels, a) : Traded(levels, t) <= Traded(levels, s)
    <3> HIDE DEF t
    <3>1. ASSUME NEW s \in Splits(levels, a) PROVE Traded(levels, t) <= Traded(levels, s)
      <4>1. Traded(levels, s) + c * a >= Traded(levels, t) + c * a
        BY <1>1, <2>1
      <4>2. c * a \in Nat /\ Traded(levels, t) \in Nat /\ Traded(levels, s) \in Nat
        BY <1>1
      <4> QED BY <4>1, <4>2
    <3> QED BY <3>1
  <2>3. \A b \in bases : Traded(levels, t) <= b
    BY <2>2
  <2> HIDE DEF bases, t
  <2>4. PICK b : b = Min(bases)
    OBVIOUS
  <2>5. b \in bases /\ \A o \in bases : b <= o
    BY <1>2, <2>3, <2>4 DEF Min
  <2>6. b \in Nat /\ Traded(levels, t) \in Nat /\ b <= Traded(levels, t) /\ b >= Traded(levels, t)
    BY <1>2, <2>3, <2>5
  <2>7. b = Traded(levels, t)
    BY <2>6
  <2> QED BY <2>4, <2>7
<1> QED BY <1>3, <1>4

\* An evaluation reports an executable spread of two usable venues.
LEMMA EntryIs ==
  ASSUME RulesTypeOK, NEW e \in Evaluations
  PROVE  /\ e.buy \in Usable /\ e.sell \in Usable /\ e.buy # e.sell
         /\ e.entry = ExecutableSpread(quotes[e.buy].asks, quotes[e.sell].bids, cfg.target, Fees(cfg, e.buy, e.sell))
         /\ e.entry # None
<1> DEFINE Is(c) == \E x \in Usable, y \in Usable :
             /\ x # y /\ c.buy = x /\ c.sell = y
             /\ c.entry = ExecutableSpread(quotes[x].asks, quotes[y].bids, cfg.target, Fees(cfg, x, y))
             /\ c.entry # None
<1>1. ASSUME NEW V \in SUBSET Usable, NEW c \in Spreads(PairsOf(V)) PROVE Is(c)
  <2>1. PICK p \in PairsOf(V) :
          c = [buy |-> p[1], sell |-> p[2],
               entry |-> ExecutableSpread(quotes[p[1]].asks, quotes[p[2]].bids, cfg.target, Fees(cfg, p[1], p[2]))]
    BY DEF Spreads
  <2>2. c.entry # None
    BY DEF Spreads
  <2>3. p[1] \in V /\ p[2] \in V /\ p[1] # p[2]
    BY DEF PairsOf
  <2> QED BY <2>1, <2>2, <2>3
<1> DEFINE kept == DropPriceOutliers(Usable)
<1>2. kept \in SUBSET Usable
  BY DEF DropPriceOutliers
<1>3. CASE e \in OutlierRejections
  <2>1. PICK c \in Widest(Spreads(PairsOf(Usable))) : e.buy = c.buy /\ e.sell = c.sell /\ e.entry = c.entry
    BY <1>3 DEF OutlierRejections
  <2>2. Is(c)
    <3> HIDE DEF Is
    <3>1. c \in Spreads(PairsOf(Usable))
      BY DEF Widest, Best
    <3> QED BY <1>1, <3>1
  <2> QED BY <2>1, <2>2
<1>4. CASE e \notin OutlierRejections
  <2>1. PICK cf \in Chosen(Candidates(PairsOf(kept))) \X FundingSignals(kept) :
          e.buy = cf[1].buy /\ e.sell = cf[1].sell /\ e.entry = cf[1].econ.entry
    BY <1>4 DEF Evaluations
  <2> HIDE DEF kept
  <2>2. PICK d \in Candidates(PairsOf(kept)) : e.buy = d.buy /\ e.sell = d.sell /\ e.entry = d.econ.entry
    BY <2>1 DEF Chosen, Best
  <2>3. PICK c \in Spreads(PairsOf(kept)) : e.buy = c.buy /\ e.sell = c.sell /\ e.entry = c.entry
    BY <2>2 DEF Candidates, PairEconomics
  <2>4. Is(c)
    <3> HIDE DEF Is
    <3> QED BY <1>1, <1>2
  <2> QED BY <2>3, <2>4
<1> QED BY <1>3, <1>4

\* The reported size is the most the two books fill together of the target, and
\* its prices are the best the books give for it, whatever the books.
THEOREM SizesAreReal == RulesSpec => []SizeIsReal
<1>1. RulesTypeOK => SizeIsReal
  <2> SUFFICES ASSUME RulesTypeOK, NEW e \in Evaluations
               PROVE  LET size  == e.entry.notional
                          asks  == quotes[e.buy].asks
                          bids  == quotes[e.sell].bids
                          priced(base) == (size * One * Scale) \div base
                      IN /\ size = Min({cfg.target, Available(asks), Available(bids)})
                         /\ e.entry.capped <=> size < cfg.target
                         /\ e.entry.vwap_buy = priced(Max({Traded(asks, s) : s \in Splits(asks, size)}))
                         /\ e.entry.vwap_sell = priced(Min({Traded(bids, s) : s \in Splits(bids, size)}))
    BY DEF SizeIsReal
  <2>1. PICK asks, bids, target, fees, entry :
          /\ asks = quotes[e.buy].asks /\ bids = quotes[e.sell].bids /\ target = cfg.target
          /\ fees = Fees(cfg, e.buy, e.sell) /\ entry = e.entry
    OBVIOUS
  <2>2. /\ entry = ExecutableSpread(asks, bids, target, fees) /\ entry # None
        /\ Priced(asks) /\ asks \in Asks /\ Priced(bids) /\ bids \in Bids
    BY <2>1, EntryIs, SidesAre
  <2>3. target \in Int
    BY <2>1, RulesAssumption DEF RulesTypeOK, ClientConfig
  <2> DEFINE va == Sum(Notionals(asks))
             vb == Sum(Notionals(bids))
             size == Smaller(Smaller(target, va), Smaller(target, vb))
  <2>4. /\ target \in Nat \ {0} /\ size \in Nat \ {0} /\ size <= va /\ size <= vb
        /\ entry.vwap_buy = Vwap(asks, size) /\ entry.vwap_sell = Vwap(bids, size)
        /\ entry.notional = size /\ entry.capped = (size < target)
    BY <2>2, <2>3, SpreadIs
  <2>5. va \in Nat /\ vb \in Nat
    BY <2>2, <2>4, WalkIs
  <2> HIDE DEF va, vb
  <2>6. size = Min({target, va, vb})
    <3> DEFINE S == {target, va, vb}
    <3>1. size \in S /\ S \subseteq Nat /\ \A x \in S : size <= x
      BY <2>4, <2>5 DEF Smaller
    <3> HIDE DEF S, size
    <3>2. PICK x : x = Min(S)
      OBVIOUS
    <3>3. x \in S /\ \A y \in S : x <= y
      BY <3>1, <3>2 DEF Min
    <3>4. x \in Nat /\ size \in Nat /\ x <= size /\ size <= x
      BY <3>1, <3>3
    <3>5. x = size
      BY <3>4
    <3> QED BY <3>2, <3>5 DEF S
  <2> HIDE DEF size
  <2>7. /\ Max({Traded(asks, s) : s \in Splits(asks, size)}) = Traded(asks, Spent(asks, size))
        /\ Min({Traded(bids, s) : s \in Splits(bids, size)}) = Traded(bids, Spent(bids, size))
    BY <2>2, <2>4, BestSplits DEF va, vb
  <2> QED BY <2>1, <2>4, <2>6, <2>7 DEF Vwap, Available, Notionals, va, vb
<1> QED BY <1>1, RulesTypes, PTL

-----------------------------------------------------------------------------
(* Prices *)

\* An average over more at worse rates is worse; the same the other way around.
LEMMA AverageFalls ==
  ASSUME NEW c \in Nat, NEW q \in Nat, NEW r \in Nat, NEW a \in Nat, NEW b \in Nat, q <= r,
         a + c * r >= b + c * q, a >= c * q
  PROVE  q * b <= r * a
<1>1. PICK d \in Nat : r = q + d
  BY r - q \in Nat
<1>2. c * r = c * q + c * d /\ c * q \in Nat /\ c * d \in Nat
  BY <1>1
<1>3. b <= a + c * d
  BY <1>2
<1>4. q * b <= q * (a + c * d)
  BY <1>2, <1>3
<1>5. q * (a + c * d) = q * a + d * (c * q) /\ q * a \in Nat /\ d * (c * q) \in Nat
  BY <1>1
<1>6. d * (c * q) <= d * a /\ d * a \in Nat
  BY <1>1, <1>2
<1>7. r * a = q * a + d * a
  BY <1>1
<1> QED BY <1>4, <1>5, <1>6, <1>7

LEMMA AverageRises ==
  ASSUME NEW c \in Nat, NEW q \in Nat, NEW r \in Nat, NEW a \in Nat, NEW b \in Nat, q <= r,
         b + c * q >= a + c * r, a <= c * q
  PROVE  r * a <= q * b
<1>1. PICK d \in Nat : r = q + d
  BY r - q \in Nat
<1>2. c * r = c * q + c * d /\ c * q \in Nat /\ c * d \in Nat
  BY <1>1
<1>3. a + c * d <= b
  BY <1>2
<1>4. q * (a + c * d) <= q * b /\ q * b \in Nat
  BY <1>2, <1>3
<1>5. q * (a + c * d) = q * a + d * (c * q) /\ q * a \in Nat /\ d * (c * q) \in Nat
  BY <1>1
<1>6. d * a <= d * (c * q) /\ d * a \in Nat
  BY <1>1, <1>2
<1>7. r * a = q * a + d * a
  BY <1>1
<1> QED BY <1>4, <1>5, <1>6, <1>7

LEMMA Quotient ==
  ASSUME NEW a \in Int, NEW p \in Nat \ {0}
  PROVE  /\ a \div p \in Int /\ (a \div p) * p <= a
         /\ \A d \in Int : d * p <= a => d <= a \div p
  OBVIOUS

LEMMA Cancel ==
  ASSUME NEW a \in Int, NEW d \in Int, NEW p \in Nat \ {0}, d * p <= a * p
  PROVE  d <= a
  OBVIOUS

LEMMA QuotientsCompare ==
  ASSUME NEW q \in Nat, NEW r \in Nat, NEW a \in Nat \ {0}, NEW b \in Nat \ {0}, q * b <= r * a
  PROVE  (q * One * Scale) \div a <= (r * One * Scale) \div b
<1>1. PICK k \in Nat : k = One * Scale
  BY ScaleAssumption
<1>2. q * One * Scale = q * k /\ r * One * Scale = r * k /\ q * k \in Nat /\ r * k \in Nat
  BY <1>1, ScaleAssumption
<1>3. PICK d \in Int : d = (q * k) \div a
  BY <1>2, Quotient
<1>4. d * a <= q * k
  BY <1>2, <1>3, Quotient
<1>5. (d * a) * b <= (q * k) * b
  BY <1>1, <1>2, <1>3, <1>4, Scaled
<1>6. (q * b) * k <= (r * a) * k
  BY <1>1, Scaled
<1>7. (d * a) * b = (d * b) * a /\ (q * k) * b = (q * b) * k /\ (r * a) * k = (r * k) * a
  BY <1>1, <1>3
<1>8. d * b \in Int /\ (d * b) * a <= (r * k) * a
  <2>1. (d * b) * a \in Int /\ (q * b) * k \in Int /\ (r * k) * a \in Int
    BY <1>1, <1>3
  <2> QED BY <1>3, <1>5, <1>6, <1>7, <2>1
<1>9. d * b <= r * k
  BY <1>2, <1>8, Cancel
<1>10. d <= (r * k) \div b
  BY <1>2, <1>9, Quotient
<1>11. PICK x, y : x = q * One * Scale /\ y = r * One * Scale
  OBVIOUS
<1>12. x = q * k /\ y = r * k
  BY <1>2, <1>11
<1>13. d = x \div a /\ d <= y \div b
  BY <1>3, <1>10, <1>12
<1> QED BY <1>11, <1>13

\* A spread is wider the more is paid and the less it costs.
LEMMA GainsCompare ==
  ASSUME NEW new \in Nat, NEW old \in Nat \ {0}, NEW newer \in Nat, NEW older \in Nat \ {0},
         new <= newer, older <= old
  PROVE  Gain(new, old) \in Int /\ Gain(new, old) <= Gain(newer, older)
<1>1. PICK p \in Nat \ {0} : p = Pct
  BY ScaleAssumption
<1>2. PICK d \in Int : d = ((new - old) * p) \div old
  BY <1>1, Quotient
<1>3. d * old <= (new - old) * p
  BY <1>1, <1>2, Quotient
<1>4. (new - old) * p = new * p - old * p /\ (d + p) * old = d * old + p * old /\ p * old = old * p
  BY <1>1, <1>2
<1>5. (d + p) * old <= new * p
  <2>1. d * old \in Int /\ new * p \in Int /\ old * p \in Int
    BY <1>1, <1>2
  <2> QED BY <1>3, <1>4, <2>1
<1>6. new * p <= newer * p /\ 0 <= newer * p /\ new * p \in Int /\ newer * p \in Int
  BY <1>1, Scaled
<1>7. (d + p) * older <= newer * p
  <2>1. CASE d + p >= 0
    <3>1. (d + p) * older <= (d + p) * old /\ (d + p) * older \in Int /\ (d + p) * old \in Int
      BY <1>1, <1>2, <2>1, Scaled
    <3> QED BY <1>5, <1>6, <3>1
  <2>2. CASE d + p < 0
    <3>1. (d + p) * older <= 0 /\ (d + p) * older \in Int
      BY <1>1, <1>2, <2>2
    <3> QED BY <1>6, <3>1
  <2> QED BY <1>1, <1>2, <2>1, <2>2
<1>8. d * older <= (newer - older) * p
  <2>1. (newer - older) * p = newer * p - older * p /\ (d + p) * older = d * older + p * older /\ p * older = older * p
    BY <1>1, <1>2
  <2>2. d * older \in Int /\ newer * p \in Int /\ older * p \in Int
    BY <1>1, <1>2
  <2> QED BY <1>7, <2>1, <2>2
<1>9. d <= ((newer - older) * p) \div older
  <2>1. (newer - older) * p \in Int
    BY <1>1
  <2> QED BY <1>2, <1>8, <2>1, Quotient
<1> QED BY <1>1, <1>2, <1>9 DEF Gain

\* The average price of a walk.
LEMMA VwapIs ==
  ASSUME NEW levels, Priced(levels), NEW a \in Nat \ {0}, a <= Sum(Notionals(levels))
  PROVE  Vwap(levels, a) \in Nat \ {0}
<1>1. PICK t : t = Traded(levels, Spent(levels, a))
  OBVIOUS
<1>2. t \in Nat \ {0} /\ t <= One * a
  <2>1. Sum(Notionals(levels)) \in Nat \ {0}
    BY WalkIs
  <2>2. a = Smaller(a, Sum(Notionals(levels)))
    BY DEF Smaller
  <2> QED BY <1>1, <2>2, WalkIs
<1>3. One \in Nat \ {0} /\ Scale \in Nat \ {0} /\ One * a = a * One
  BY ScaleAssumption
<1>4. 1 * t <= a * One * Scale /\ a * One * Scale \in Nat
  <2>1. PICK x \in Nat : x = a * One
    BY <1>3
  <2>2. t <= x * Scale /\ x * Scale \in Nat
    BY <1>2, <1>3, <2>1
  <2> QED BY <1>2, <2>1, <2>2
<1>5. (a * One * Scale) \div t \in Int /\ 1 <= (a * One * Scale) \div t
  BY <1>2, <1>4, Quotient
<1> QED BY <1>1, <1>5 DEF Vwap

LEMMA NothingSpent ==
  ASSUME NEW levels, Priced(levels)
  PROVE  \E s : Split(levels, s) /\ Sum(s) = 0 /\ Traded(levels, s) = 0
<1> DEFINE s == [i \in 1..Len(levels) |-> 0]
<1>1. Len(levels) \in Nat /\ \A i \in 1..Len(levels) : Worth(levels, i) \in Nat
  BY LevelsAre
<1>2. s \in Seq(Nat) /\ Len(s) = Len(levels) /\ Sum(s) = 0
  BY <1>1, ZerosAre
<1>3. \A i \in 1..Len(levels) : s[i] <= Worth(levels, i)
  BY <1>1
<1> HIDE DEF s
<1>4. Traded(levels, s) \in Nat /\ Traded(levels, s) <= One * Sum(s)
  BY <1>2, TradedIs
<1>5. Traded(levels, s) = 0
  BY <1>2, <1>4, ScaleAssumption
<1> QED BY <1>2, <1>3, <1>5 DEF Split

\* The more is taken of a book, the worse its average price.
LEMMA VwapsCompare ==
  ASSUME NEW levels, Priced(levels), NEW a \in Nat \ {0}, NEW b \in Nat \ {0},
         a <= b, b <= Sum(Notionals(levels))
  PROVE  /\ levels \in Asks => Vwap(levels, a) <= Vwap(levels, b)
         /\ levels \in Bids => Vwap(levels, b) <= Vwap(levels, a)
<1>1. PICK s, t, x, y : /\ s = Spent(levels, a) /\ x = Traded(levels, s)
                        /\ t = Spent(levels, b) /\ y = Traded(levels, t)
  OBVIOUS
<1>2. Sum(Notionals(levels)) \in Nat /\ a <= Sum(Notionals(levels))
  <2>1. Sum(Notionals(levels)) \in Nat
    BY WalkIs
  <2> QED BY <2>1
<1>3. Split(levels, s) /\ Sum(s) = a /\ Split(levels, t) /\ Sum(t) = b
  BY <1>1, <1>2, SpentIs DEF Split, Smaller
<1>4. x \in Nat \ {0} /\ y \in Nat \ {0}
  BY <1>1, WalkIs
<1>5. PICK z : Split(levels, z) /\ Sum(z) = 0 /\ Traded(levels, z) = 0
  BY NothingSpent
<1>6. Vwap(levels, a) = (a * One * Scale) \div x /\ Vwap(levels, b) = (b * One * Scale) \div y
  BY <1>1 DEF Vwap
<1>7. ASSUME levels \in Asks PROVE Vwap(levels, a) <= Vwap(levels, b)
  <2>1. PICK c \in Nat : \A u : Split(levels, u) => x + c * Sum(u) >= Traded(levels, u) + c * a
    BY <1>1, <1>2, <1>3, <1>7, AsksBuyMost
  <2>2. x + c * b >= y + c * a
    BY <1>1, <1>3, <2>1
  <2>3. x + c * 0 >= 0 + c * a
    BY <1>5, <2>1
  <2>4. x >= c * a
    BY <1>4, <2>3
  <2>5. a * y <= b * x
    BY <1>4, <2>2, <2>4, AverageFalls
  <2> QED BY <1>4, <1>6, <2>5, QuotientsCompare
<1>8. ASSUME levels \in Bids PROVE Vwap(levels, b) <= Vwap(levels, a)
  <2>1. PICK c \in Nat : \A u : Split(levels, u) => Traded(levels, u) + c * a >= x + c * Sum(u)
    BY <1>1, <1>2, <1>3, <1>8, BidsSellLeast
  <2>2. y + c * a >= x + c * b
    BY <1>1, <1>3, <2>1
  <2>3. 0 + c * a >= x + c * 0
    BY <1>5, <2>1
  <2>4. x <= c * a
    BY <1>4, <2>3
  <2>5. b * x <= a * y
    BY <1>4, <2>2, <2>4, AverageRises
  <2> QED BY <1>4, <1>6, <2>5, QuotientsCompare
<1> QED BY <1>7, <1>8

-----------------------------------------------------------------------------
(* The chart *)

\* What a venue's book fills of the target.
Fills(levels) == Smaller(cfg.target, Sum(Notionals(levels)))

LEMMA FillsAre ==
  ASSUME NEW levels, Priced(levels), cfg.target \in Nat \ {0}
  PROVE  /\ Fills(levels) \in Nat \ {0}
         /\ Fills(levels) <= Sum(Notionals(levels)) /\ Fills(levels) <= cfg.target
         /\ Vwap(levels, Fills(levels)) \in Nat \ {0}
         /\ Walk(levels, cfg.target) = [vwap |-> Vwap(levels, Fills(levels)), filled |-> Fills(levels),
                                        capped |-> Fills(levels) < cfg.target]
         /\ Walk(levels, cfg.target) \in Leg /\ Walk(levels, cfg.target) # None
<1>1. /\ Fills(levels) \in Nat \ {0} /\ Fills(levels) <= Sum(Notionals(levels))
      /\ Sum(Notionals(levels)) \in Nat
      /\ Walk(levels, cfg.target) = [vwap |-> Vwap(levels, Fills(levels)), filled |-> Fills(levels),
                                     capped |-> Fills(levels) < cfg.target]
  BY WalkIs DEF Fills
<1>2. Fills(levels) <= cfg.target
  BY <1>1 DEF Fills, Smaller
<1>3. Vwap(levels, Fills(levels)) \in Nat \ {0}
  BY <1>1, VwapIs
<1>4. Walk(levels, cfg.target) \in Leg
  BY <1>1, <1>3 DEF Leg
<1> QED BY <1>1, <1>2, <1>3, <1>4, ScaleAssumption

LEMMA FeesAre ==
  ASSUME RulesTypeOK, NEW x \in Usable, NEW y \in Usable
  PROVE  Fees(cfg, x, y) \in Int
<1>1. cfg.taker_fee \in [Venues -> Maybe(Int)] /\ DefaultFee \in Nat
  BY RulesAssumption DEF RulesTypeOK, ClientConfig
<1>2. x \in Venues /\ y \in Venues
  BY DEF Usable
<1>3. taker(cfg, x) \in Int /\ taker(cfg, y) \in Int
  BY <1>1, <1>2 DEF taker, Maybe
<1> QED BY <1>3 DEF Fees

\* Every usable venue is in the sample.
LEMMA SampleIs ==
  ASSUME RulesTypeOK, cfg.target \in Nat \ {0}, Cardinality(Usable) >= 2
  PROVE  /\ VenueSample # None
         /\ VenueSample = [x \in Usable |-> [ask |-> Walk(quotes[x].asks, cfg.target),
                                             bid |-> Walk(quotes[x].bids, cfg.target)]]
<1> DEFINE sample == [x \in Usable |-> [ask |-> Walk(quotes[x].asks, cfg.target),
                                        bid |-> Walk(quotes[x].bids, cfg.target)]]
           there == {x \in Usable : /\ Walk(quotes[x].asks, cfg.target) # None
                                    /\ Walk(quotes[x].bids, cfg.target) # None}
<1>1. \A x \in Usable : /\ Walk(quotes[x].asks, cfg.target) \in Leg
                        /\ Walk(quotes[x].bids, cfg.target) \in Leg
                        /\ Walk(quotes[x].asks, cfg.target) # None
                        /\ Walk(quotes[x].bids, cfg.target) # None
  BY SidesAre, FillsAre
<1>2. there = Usable
  BY <1>1
<1>3. Cardinality(Usable) \in Nat
  BY UsableIs
<1>4. VenueSample = IF Cardinality(there) < 2 THEN None
                    ELSE [x \in there |-> [ask |-> Walk(quotes[x].asks, cfg.target),
                                           bid |-> Walk(quotes[x].bids, cfg.target)]]
  BY DEF VenueSample
<1> HIDE DEF there
<1>5. VenueSample = sample
  BY <1>2, <1>3, <1>4
<1>6. sample \in [Usable -> [ask : Leg, bid : Leg]]
  BY <1>1
<1>7. Usable \in SUBSET Venues
  BY DEF Usable
<1> HIDE DEF sample
<1>8. sample # None
  BY <1>6, <1>7, RulesAssumption
<1> QED BY <1>5, <1>8 DEF sample

\* The point of any two of them.
LEMMA PointIs ==
  ASSUME RulesTypeOK, cfg.target \in Nat \ {0}, Cardinality(Usable) >= 2,
         NEW x \in Usable, NEW y \in Usable, x # y
  PROVE  LET point == ChartPoint(VenueSample, x, y)
             asks == quotes[x].asks
             bids == quotes[y].bids
         IN /\ point # None
            /\ point.in = Gain(Vwap(bids, Fills(bids)), Vwap(asks, Fills(asks))) - Fees(cfg, x, y)
            /\ point.in \in Int
            /\ point.notional = Smaller(Fills(asks), Fills(bids))
            /\ point.capped = (Fills(asks) < cfg.target \/ Fills(bids) < cfg.target)
<1>1. PICK sample : sample = VenueSample
  OBVIOUS
<1>2. /\ DOMAIN sample = Usable
      /\ \A z \in Usable : sample[z] = [ask |-> Walk(quotes[z].asks, cfg.target),
                                        bid |-> Walk(quotes[z].bids, cfg.target)]
  BY <1>1, SampleIs
<1>3. PICK asks, bids, outs, backs :
        /\ asks = quotes[x].asks /\ bids = quotes[y].bids
        /\ outs = quotes[x].bids /\ backs = quotes[y].asks
  OBVIOUS
<1>4. Priced(asks) /\ Priced(bids) /\ Priced(outs) /\ Priced(backs)
  BY <1>3, SidesAre
<1>5. /\ sample[x].ask = Walk(asks, cfg.target) /\ sample[y].bid = Walk(bids, cfg.target)
      /\ sample[x].bid = Walk(outs, cfg.target) /\ sample[y].ask = Walk(backs, cfg.target)
  BY <1>2, <1>3
<1>6. /\ sample[x].ask = [vwap |-> Vwap(asks, Fills(asks)), filled |-> Fills(asks),
                          capped |-> Fills(asks) < cfg.target]
      /\ sample[y].bid = [vwap |-> Vwap(bids, Fills(bids)), filled |-> Fills(bids),
                          capped |-> Fills(bids) < cfg.target]
      /\ sample[x].bid.vwap = Vwap(outs, Fills(outs)) /\ sample[y].ask.vwap = Vwap(backs, Fills(backs))
  <2>1. ASSUME NEW levels, Priced(levels)
        PROVE  Walk(levels, cfg.target) = [vwap |-> Vwap(levels, Fills(levels)), filled |-> Fills(levels),
                                           capped |-> Fills(levels) < cfg.target]
    BY <2>1, FillsAre
  <2>2. Walk(outs, cfg.target) = [vwap |-> Vwap(outs, Fills(outs)), filled |-> Fills(outs),
                                  capped |-> Fills(outs) < cfg.target]
    BY <1>4, <2>1
  <2>3. Walk(backs, cfg.target) = [vwap |-> Vwap(backs, Fills(backs)), filled |-> Fills(backs),
                                   capped |-> Fills(backs) < cfg.target]
    BY <1>4, <2>1
  <2>4. Walk(asks, cfg.target) = [vwap |-> Vwap(asks, Fills(asks)), filled |-> Fills(asks),
                                  capped |-> Fills(asks) < cfg.target]
    BY <1>4, <2>1
  <2>5. Walk(bids, cfg.target) = [vwap |-> Vwap(bids, Fills(bids)), filled |-> Fills(bids),
                                  capped |-> Fills(bids) < cfg.target]
    BY <1>4, <2>1
  <2> QED BY <1>5, <2>2, <2>3, <2>4, <2>5
<1>7. /\ Vwap(asks, Fills(asks)) \in Nat \ {0} /\ Vwap(bids, Fills(bids)) \in Nat \ {0}
      /\ Vwap(outs, Fills(outs)) \in Nat \ {0} /\ Vwap(backs, Fills(backs)) \in Nat \ {0}
      /\ Fills(asks) \in Nat \ {0} /\ Fills(bids) \in Nat \ {0}
  BY <1>4, FillsAre
<1>8. PICK in, out, fees : /\ in = Gain(Vwap(bids, Fills(bids)), Vwap(asks, Fills(asks)))
                           /\ out = Gain(Vwap(outs, Fills(outs)), Vwap(backs, Fills(backs)))
                           /\ fees = Fees(cfg, x, y)
  OBVIOUS
<1>9. in \in Int /\ out \in Int /\ fees \in Int
  <2>1. \A a \in Nat \ {0}, b \in Nat \ {0} : Gain(a, b) \in Int
    BY GainsCompare
  <2> QED BY <1>7, <1>8, <2>1, FeesAre
<1> DEFINE point == [in |-> in - fees, out |-> out - fees,
                     notional |-> Smaller(Fills(asks), Fills(bids)),
                     capped |-> Fills(asks) < cfg.target \/ Fills(bids) < cfg.target]
<1>10. ChartPoint(sample, x, y) = point
  <2>1. {x, y} \cap DOMAIN sample = {x, y}
    BY <1>2
  <2>2. /\ sample[x].ask.vwap = Vwap(asks, Fills(asks)) /\ sample[y].bid.vwap = Vwap(bids, Fills(bids))
        /\ sample[x].ask.filled = Fills(asks) /\ sample[y].bid.filled = Fills(bids)
        /\ sample[x].ask.capped = (Fills(asks) < cfg.target)
        /\ sample[y].bid.capped = (Fills(bids) < cfg.target)
    BY <1>6
  <2>3. ChartPoint(sample, x, y) =
          [in  |-> Gain(sample[y].bid.vwap, sample[x].ask.vwap) - Fees(cfg, x, y),
           out |-> Gain(sample[x].bid.vwap, sample[y].ask.vwap) - Fees(cfg, x, y),
           notional |-> Smaller(sample[x].ask.filled, sample[y].bid.filled),
           capped |-> sample[x].ask.capped \/ sample[y].bid.capped]
    BY <2>1 DEF ChartPoint
  <2> QED BY <1>6, <1>8, <2>2, <2>3
<1>11. point \in [in : Int, out : Int, notional : Nat, capped : BOOLEAN]
  BY <1>7, <1>9 DEF Smaller
<1>12. point # None
  <2> HIDE DEF point
  <2> QED BY <1>11, RulesAssumption
<1> QED BY <1>1, <1>3, <1>8, <1>9, <1>10, <1>12

\* A signal is of two venues that are kept and were observed together.
LEMMA SignalIs ==
  ASSUME RulesTypeOK, NEW e \in Evaluations, e.reason = "Signal"
  PROVE  /\ Cardinality(Usable) >= 2 /\ ~Skewed(e.buy, e.sell)
         /\ e.buy \in DropPriceOutliers(Usable) /\ e.sell \in DropPriceOutliers(Usable)
<1> DEFINE kept == DropPriceOutliers(Usable)
<1>1. Cardinality(Usable) >= 2
  BY UsableIs DEF Evaluations
<1>2. e \notin OutlierRejections
  BY DEF OutlierRejections
<1>3. PICK cf \in Chosen(Candidates(PairsOf(kept))) \X FundingSignals(kept) :
        /\ e.buy = cf[1].buy /\ e.sell = cf[1].sell
        /\ e.reason = Classify(cf[1].buy, cf[1].sell, cf[1].econ)
  BY <1>2 DEF Evaluations
<1> HIDE DEF kept
<1>4. cf[1] \in Chosen(Candidates(PairsOf(kept)))
  BY <1>3
<1>5. e.buy \in kept /\ e.sell \in kept /\ ~Skewed(e.buy, e.sell)
  BY <1>3, <1>4, LegsAre, ReasonIs
<1> QED BY <1>1, <1>5 DEF kept

\* The point of a signal's pair.
LEMMA SignalPoint ==
  ASSUME RulesTypeOK, NEW e \in Evaluations, e.reason = "Signal"
  PROVE  LET point == ChartPoint(VenueSample, e.buy, e.sell)
         IN /\ cfg.target \in Nat \ {0} /\ point # None /\ point.in \in Int /\ e.entry.net \in Int
            /\ point.notional = e.entry.notional /\ point.capped = e.entry.capped
            /\ IF point.capped THEN point.in <= e.entry.net ELSE point.in = e.entry.net
<1>1. PICK asks, bids, fees, entry, point :
        /\ asks = quotes[e.buy].asks /\ bids = quotes[e.sell].bids /\ fees = Fees(cfg, e.buy, e.sell)
        /\ entry = e.entry /\ point = ChartPoint(VenueSample, e.buy, e.sell)
  OBVIOUS
<1>2. /\ entry = ExecutableSpread(asks, bids, cfg.target, fees) /\ entry # None
      /\ e.buy \in Usable /\ e.sell \in Usable /\ e.buy # e.sell
      /\ Priced(asks) /\ asks \in Asks /\ Priced(bids) /\ bids \in Bids /\ fees \in Int
  BY <1>1, EntryIs, SidesAre, FeesAre
<1>3. cfg.target \in Int
  BY RulesAssumption DEF RulesTypeOK, ClientConfig
<1> DEFINE fa == Fills(asks)
           fb == Fills(bids)
           size == Smaller(fa, fb)
<1>4. /\ cfg.target \in Nat \ {0} /\ size \in Nat \ {0}
      /\ size <= Sum(Notionals(asks)) /\ size <= Sum(Notionals(bids))
      /\ entry.net = Gain(Vwap(bids, size), Vwap(asks, size)) - fees
      /\ entry.notional = size /\ entry.capped = (size < cfg.target)
  BY <1>2, <1>3, SpreadIs DEF Fills
<1>5. /\ fa \in Nat \ {0} /\ fa <= Sum(Notionals(asks)) /\ fa <= cfg.target
      /\ fb \in Nat \ {0} /\ fb <= Sum(Notionals(bids)) /\ fb <= cfg.target
  BY <1>2, <1>4, FillsAre
<1>6. /\ point # None /\ point.in \in Int
      /\ point.in = Gain(Vwap(bids, fb), Vwap(asks, fa)) - fees
      /\ point.notional = Smaller(fa, fb)
      /\ point.capped = (fa < cfg.target \/ fb < cfg.target)
  BY <1>1, <1>2, <1>4, SignalIs, PointIs
<1> HIDE DEF fa, fb
<1>7. /\ size <= fa /\ size <= fb
      /\ (fa < cfg.target \/ fb < cfg.target) = (size < cfg.target)
      /\ ~(size < cfg.target) => fa = size /\ fb = size
  BY <1>4, <1>5 DEF Smaller
<1>8. point.notional = entry.notional /\ point.capped = entry.capped
  <2> HIDE DEF size
  <2> QED BY <1>4, <1>6, <1>7 DEF size
<1> HIDE DEF size
<1>9. /\ Vwap(asks, size) <= Vwap(asks, fa) /\ Vwap(bids, fb) <= Vwap(bids, size)
      /\ Vwap(asks, size) \in Nat \ {0} /\ Vwap(asks, fa) \in Nat \ {0}
      /\ Vwap(bids, size) \in Nat \ {0} /\ Vwap(bids, fb) \in Nat \ {0}
  BY <1>2, <1>4, <1>5, <1>7, VwapsCompare, VwapIs
<1>10. PICK i, n : i = Gain(Vwap(bids, fb), Vwap(asks, fa)) /\ n = Gain(Vwap(bids, size), Vwap(asks, size))
  OBVIOUS
<1>11. i \in Int /\ n \in Int /\ i <= n
  <2>1. \A a \in Nat \ {0}, b \in Nat \ {0} : Gain(a, b) \in Int
    BY GainsCompare
  <2> QED BY <1>9, <1>10, <2>1, GainsCompare
<1>12. point.in = i - fees /\ entry.net = n - fees
  BY <1>4, <1>6, <1>10
<1>13. point.in <= entry.net /\ entry.net \in Int
  BY <1>2, <1>11, <1>12
<1>14. ~point.capped => point.in = entry.net
  <2>1. ASSUME ~(size < cfg.target) PROVE i = n
    BY <1>7, <1>10, <2>1
  <2> QED BY <1>6, <1>7, <1>12, <2>1
<1> QED BY <1>1, <1>4, <1>6, <1>8, <1>13, <1>14

\* Whoever gets a signal can see it, whatever the books and the configuration:
\* its pair has a chart point of the same size, the pair a chart opens with and
\* the series behind the statistics show at least as much.
THEOREM SignalsAreCharted == RulesSpec => []SignalIsCharted
<1>1. RulesTypeOK => SignalIsCharted
  <2> SUFFICES ASSUME RulesTypeOK, NEW e \in Evaluations, e.reason = "Signal"
               PROVE  /\ VenueSample # None
                      /\ \A sample \in {VenueSample} : \A point \in {ChartPoint(sample, e.buy, e.sell)} :
                           /\ point # None
                           /\ point.notional = e.entry.notional /\ point.capped = e.entry.capped
                           /\ IF point.capped THEN point.in <= e.entry.net ELSE point.in = e.entry.net
                           /\ \A p \in best_pair(sample) : ChartPoint(sample, p[1], p[2]).in >= point.in
                      /\ BestSpreadPoints # {}
                      /\ \A p \in BestSpreadPoints \cup SummaryRows : p.entry.net >= e.entry.net
    BY DEF SignalIsCharted
  <2>1. PICK x, y, entry, sample, point :
          /\ x = e.buy /\ y = e.sell /\ entry = e.entry
          /\ sample = VenueSample /\ point = ChartPoint(sample, x, y)
    OBVIOUS
  <2>2. /\ x \in Usable /\ y \in Usable /\ x # y /\ entry # None
        /\ entry = ExecutableSpread(quotes[x].asks, quotes[y].bids, cfg.target, Fees(cfg, x, y))
    BY <2>1, EntryIs
  <2>3. /\ Cardinality(Usable) >= 2 /\ ~Skewed(x, y)
        /\ x \in DropPriceOutliers(Usable) /\ y \in DropPriceOutliers(Usable)
    BY <2>1, SignalIs
  <2>4. /\ cfg.target \in Nat \ {0} /\ point # None /\ point.in \in Int /\ entry.net \in Int
        /\ point.notional = entry.notional /\ point.capped = entry.capped
        /\ IF point.capped THEN point.in <= entry.net ELSE point.in = entry.net
    BY <2>1, SignalPoint
  <2>5. sample # None /\ DOMAIN sample = Usable
    BY <2>1, <2>3, <2>4, SampleIs
  <2>6. ASSUME NEW p \in best_pair(sample) PROVE ChartPoint(sample, p[1], p[2]).in >= point.in
    <3>1. /\ p \in PairsOf(Usable)
          /\ \A o \in PairsOf(Usable) : ChartPoint(sample, o[1], o[2]).in <= ChartPoint(sample, p[1], p[2]).in
      BY <2>5 DEF best_pair, Best
    <3>2. <<x, y>> \in PairsOf(Usable)
      BY <2>2 DEF PairsOf
    <3>3. ChartPoint(sample, x, y).in <= ChartPoint(sample, p[1], p[2]).in
      BY <3>1, <3>2
    <3>4. p[1] \in Usable /\ p[2] \in Usable /\ p[1] # p[2]
      BY <3>1 DEF PairsOf
    <3>5. ChartPoint(sample, p[1], p[2]).in \in Int
      BY <2>1, <2>3, <2>4, <3>4, PointIs
    <3> QED BY <2>1, <2>4, <3>3, <3>5
  <2> DEFINE near == {q \in PairsOf(DropPriceOutliers(Usable)) : ~Skewed(q[1], q[2])}
             Of(q) == ExecutableSpread(quotes[q[1]].asks, quotes[q[2]].bids, cfg.target, Fees(cfg, q[1], q[2]))
             there == {q \in near : Of(q) # None}
             Line(q) == [buy |-> q[1], sell |-> q[2], entry |-> Of(q)]
             f == [q \in there |-> Of(q).net]
  <2>7. Spreads(near) = {Line(q) : q \in there}
    BY DEF Spreads
  <2>8. <<x, y>> \in there /\ Of(<<x, y>>) = entry
    BY <2>2, <2>3 DEF PairsOf
  <2>9. IsFiniteSet(there)
    <3>1. IsFiniteSet(Usable)
      BY UsableIs
    <3>2. there \subseteq Usable \X Usable
      BY DEF PairsOf, DropPriceOutliers
    <3> HIDE DEF there
    <3> QED BY <3>1, <3>2, FS_Product, FS_Subset
  <2>10. ASSUME NEW q \in there PROVE Of(q).net \in Int
    <3>1. q[1] \in Usable /\ q[2] \in Usable /\ Of(q) # None
      BY DEF PairsOf, DropPriceOutliers
    <3>2. PICK asks, bids, fees : asks = quotes[q[1]].asks /\ bids = quotes[q[2]].bids /\ fees = Fees(cfg, q[1], q[2])
      OBVIOUS
    <3>3. Priced(asks) /\ Priced(bids) /\ fees \in Int /\ cfg.target \in Int
      BY <2>4, <3>1, <3>2, SidesAre, FeesAre
    <3> DEFINE size == Smaller(Smaller(cfg.target, Sum(Notionals(asks))), Smaller(cfg.target, Sum(Notionals(bids))))
    <3>4. /\ size \in Nat \ {0} /\ size <= Sum(Notionals(asks)) /\ size <= Sum(Notionals(bids))
          /\ Of(q).net = Gain(Vwap(bids, size), Vwap(asks, size)) - fees
      BY <3>1, <3>2, <3>3, SpreadIs
    <3> HIDE DEF size, Of
    <3>5. Vwap(bids, size) \in Nat \ {0} /\ Vwap(asks, size) \in Nat \ {0}
      BY <3>3, <3>4, VwapIs
    <3>6. Gain(Vwap(bids, size), Vwap(asks, size)) \in Int
      BY <3>5, GainsCompare
    <3> QED BY <3>3, <3>4, <3>6
  <2>11. PICK w \in there : \A q \in there : Of(q).net <= Of(w).net
    <3>1. f \in [there -> Int] /\ there # {}
      BY <2>8, <2>10
    <3>2. \A q \in there : f[q] = Of(q).net
      OBVIOUS
    <3> HIDE DEF f, there, Of
    <3>3. PICK w \in there : \A q \in there : f[q] <= f[w]
      BY <2>9, <3>1, Highest
    <3> QED BY <3>2, <3>3
  <2>12. \A q : Line(q).entry = Of(q)
    OBVIOUS
  <2>13. BestSpreadPoints = {c \in Spreads(near) : \A o \in Spreads(near) : o.entry.net <= c.entry.net}
    BY DEF BestSpreadPoints, Widest, Best
  <2> HIDE DEF near, there, Of, Line
  <2>14. Line(w) \in BestSpreadPoints
    BY <2>7, <2>11, <2>12, <2>13
  <2>15. ASSUME NEW p \in BestSpreadPoints PROVE p.entry.net >= entry.net
    <3>1. PICK q \in there : p = Line(q)
      BY <2>7, <2>13
    <3>2. Line(<<x, y>>) \in Spreads(near)
      BY <2>7, <2>8
    <3>3. Line(<<x, y>>).entry.net <= p.entry.net
      BY <2>13, <3>2
    <3>4. p.entry.net \in Int
      BY <2>10, <2>12, <3>1
    <3> QED BY <2>4, <2>8, <2>12, <3>3, <3>4
  <2>16. SummaryRows \subseteq BestSpreadPoints
    BY DEF SummaryRows
  <2> QED BY <2>1, <2>4, <2>5, <2>6, <2>14, <2>15, <2>16
<1> QED BY <1>1, RulesTypes, PTL
=============================================================================
