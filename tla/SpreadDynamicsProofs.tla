------------------------- MODULE SpreadDynamicsProofs -------------------------
(***************************************************************************)
(* Proofs about the spread statistics (SpreadDynamics): the episode clock  *)
(* and the window of samples, for any throttle, window and thresholds.     *)
(***************************************************************************)
EXTENDS SpreadDynamics, TLAPS, WellFoundedInduction, FiniteSetTheorems

-----------------------------------------------------------------------------
(* The inductive invariants *)

EpisodeInv == DynTypeOK /\ EpisodeIsContinuous

\* The first observation is kept, and the newest sample is that of the throttle.
Throttled ==
  /\ samples = <<>> <=> seen = <<>>
  /\ samples = <<>> <=> last = None
  /\ samples # <<>> => samples[Len(samples)].t = last /\ last <= now

InOrder == \A j \in DOMAIN samples : \A i \in 1..j : samples[i].t <= samples[j].t

Fresh == \A i \in DOMAIN samples : last - samples[i].t <= Window

Observed ==
  \A i \in DOMAIN samples :
    \E k \in DOMAIN seen : seen[k].t = samples[i].t /\ seen[k].net = samples[i].net

Apart ==
  \A i \in DOMAIN samples : \A j \in 1..(i - 1) : samples[i].t - samples[j].t >= MinInterval

\* Every observation of the window is close behind a sample.
CloseTo(t, u) == 0 <= t - u /\ (t - u < MinInterval \/ t = u)

Covered ==
  \A k \in DOMAIN seen :
    last - seen[k].t <= Window - MinInterval => \E i \in DOMAIN samples : CloseTo(seen[k].t, samples[i].t)

WindowInv == DynTypeOK /\ Throttled /\ InOrder /\ Fresh /\ Observed /\ Apart /\ Covered

Times == 1..MaxTime
SampleSet == [t : Times, net : Nets]
Observation == [t : Times, net : Nets, above : BOOLEAN]

-----------------------------------------------------------------------------
(* Numbers and sequences *)

\* An induction over numbers starts from a smallest counterexample.
LEMMA LeastNumber ==
  ASSUME NEW X \in SUBSET Nat, X # {}
  PROVE  \E n \in X : \A m \in X : n <= m
<1> DEFINE Below(n) == 0..n - 1
           Lower == {Below(n) : n \in X}
           Order == StrictSubsetOrdering(Nat)
<1>1. IsWellFoundedOn(Order, FiniteSubsetsOf(Nat))
  BY FS_StrictSubsetOrderingWellFounded
<1>2. \A n \in X : Below(n) \in FiniteSubsetsOf(Nat)
  BY FS_Interval DEF FiniteSubsetsOf
<1>. HIDE DEF Order
<1>3. Lower \subseteq FiniteSubsetsOf(Nat) /\ Lower # {}
  BY <1>2
<1>. HIDE DEF Lower
<1>4. PICK L \in Lower : \A M \in Lower : <<M, L>> \notin Order
  BY <1>1, <1>3, WFMin
<1>5. PICK n \in X : L = Below(n)
  BY <1>4 DEF Lower
<1>6. \A m \in X : n <= m
  <2>. SUFFICES ASSUME NEW m \in X, m < n PROVE FALSE
    OBVIOUS
  <2>1. m \in Below(n) /\ m \notin Below(m) /\ Below(m) \subseteq Below(n) /\ Below(m) \in Lower
    BY DEF Lower
  <2>2. <<Below(m), L>> \in Order
    BY <1>5, <2>1 DEF Order, StrictSubsetOrdering
  <2>. QED BY <1>4, <2>1, <2>2
<1>. QED BY <1>6

LEMMA GreatestIs ==
  ASSUME NEW n \in Nat, NEW X \in SUBSET (0..n), X # {}
  PROVE  Max(X) \in X /\ \A x \in X : x <= Max(X)
<1> DEFINE Y == {n - x : x \in X}
<1>1. Y \in SUBSET Nat /\ Y # {}
  OBVIOUS
<1>2. PICK y \in Y : \A z \in Y : y <= z
  <2>. HIDE DEF Y
  <2>. QED BY <1>1, LeastNumber
<1>3. PICK x \in X : y = n - x
  BY <1>2
<1>4. \A z \in X : z <= x
  <2>. SUFFICES ASSUME NEW z \in X PROVE z <= x
    OBVIOUS
  <2>1. n - z \in Y /\ y <= n - z
    BY <1>2
  <2>2. x \in Int /\ z \in Int
    OBVIOUS
  <2>. QED BY <1>3, <2>1, <2>2
<1>. QED BY <1>3, <1>4 DEF Max

LEMMA AppendIs ==
  ASSUME NEW S, NEW q \in Seq(S), NEW e \in S
  PROVE  /\ Append(q, e) \in Seq(S) /\ Len(q) \in Nat /\ Len(Append(q, e)) = Len(q) + 1
         /\ \A k \in 1..Len(q) : Append(q, e)[k] = q[k]
         /\ Append(q, e)[Len(q) + 1] = e
  OBVIOUS

\* q without its d oldest elements.
Cut(q, d) == [k \in 1..Len(q) - d |-> q[k + d]]

LEMMA CutIs ==
  ASSUME NEW S, NEW q \in Seq(S), NEW d \in Nat, d < Len(q)
  PROVE  SubSeq(q, d + 1, Len(q)) = Cut(q, d) /\ Cut(q, d) \in Seq(S)
<1>1. SubSeq(q, d + 1, Len(q)) = Cut(q, d)
  BY DEF Cut
<1>2. Len(q) - d \in Nat /\ \A k \in 1..Len(q) - d : q[k + d] \in S
  OBVIOUS
<1>. QED BY <1>1, <1>2 DEF Cut

\* Of samples in order of time, trimming keeps those of the window.
LEMMA TrimmedIs ==
  ASSUME NEW q \in Seq(SampleSet), Len(q) > 0, NEW t \in Int,
         \A j \in 1..Len(q) : \A i \in 1..j : q[i].t <= q[j].t,
         t - q[Len(q)].t <= Window
  PROVE  \E m \in 0..Len(q) - 1 :
           /\ Trimmed(q, t) = Cut(q, m) /\ Trimmed(q, t) \in Seq(SampleSet)
           /\ \A j \in 1..Len(q) : j > m <=> t - q[j].t <= Window
<1> DEFINE n == Len(q)
           outside == {k \in 0..n : \A j \in 1..k : t - q[j].t > Window}
           m == Max(outside)
<1>1. n \in Nat \ {0} /\ Window \in Int /\ \A j \in 1..n : q[j].t \in Int
  <2>1. \A j \in 1..n : q[j] \in SampleSet
    OBVIOUS
  <2>. QED BY <2>1, DynamicsAssumption DEF SampleSet, Times
<1>2. Trimmed(q, t) = SubSeq(q, m + 1, n)
  BY DEF Trimmed
<1>3. outside \in SUBSET (0..n) /\ 0 \in outside
  BY <1>1
<1>4. m \in outside /\ \A k \in outside : k <= m
  <2>. HIDE DEF outside, n
  <2>. QED BY <1>1, <1>3, GreatestIs
<1>. HIDE DEF m
<1>5. m \in 0..n /\ \A j \in 1..m : t - q[j].t > Window
  BY <1>4
<1>6. m < n
  <2>1. t - q[n].t <= Window /\ q[n].t \in Int
    BY <1>1
  <2>2. m = n => t - q[n].t > Window
    BY <1>1, <1>5
  <2>. QED BY <1>1, <1>5, <2>1, <2>2
<1>7. t - q[m + 1].t <= Window
  <2>1. m + 1 \notin outside
    <3>1. ~(m + 1 <= m)
      BY <1>5
    <3>. HIDE DEF outside
    <3>. QED BY <1>4, <3>1
  <2>2. m + 1 \in 0..n
    BY <1>1, <1>5, <1>6
  <2>3. PICK j \in 1..m + 1 : ~(t - q[j].t > Window)
    BY <2>1, <2>2
  <2>4. j = m + 1
    BY <1>5, <2>3
  <2>. QED BY <1>1, <2>2, <2>3, <2>4
<1>8. ASSUME NEW j \in 1..n PROVE j > m <=> t - q[j].t <= Window
  <2>1. CASE j > m
    <3>1. m + 1 \in 1..j /\ m + 1 \in 1..n
      BY <1>1, <1>5, <2>1
    <3>2. q[m + 1].t <= q[j].t
      BY <3>1
    <3>. QED BY <1>1, <1>7, <2>1, <3>1, <3>2
  <2>2. CASE ~(j > m)
    <3>1. j \in 1..m
      BY <1>1, <1>5, <2>2
    <3>. QED BY <1>1, <1>5, <2>2, <3>1
  <2>. QED BY <2>1, <2>2
<1>9. m \in 0..n - 1 /\ m \in Nat
  BY <1>1, <1>5, <1>6
<1>10. SubSeq(q, m + 1, n) = Cut(q, m) /\ Cut(q, m) \in Seq(SampleSet)
  BY <1>6, <1>9, CutIs DEF n
<1>. QED BY <1>2, <1>8, <1>9, <1>10 DEF n

-----------------------------------------------------------------------------
(* Steps and types *)

Noticed(t, net) == [t |-> t, net |-> net, above |-> net > threshold]

Taken(t, net) == [t |-> t, net |-> net]

LEMMA SampleIs ==
  ASSUME DynTypeOK, Sample
  PROVE  \E t \in Times, net \in Nets :
           /\ t > now /\ now' = t /\ threshold' = threshold
           /\ \/ record(net, t) /\ seen' = Append(seen, Noticed(t, net))
              \/ UNCHANGED <<samples, open, last, seen>>
<1>1. PICK gap \in Gaps, net \in Nets :
        /\ now + gap <= MaxTime /\ now' = now + gap
        /\ IF Abs(net) <= SanityCap
           THEN /\ record(net, now')
                /\ seen' = Append(seen, [t |-> now', net |-> net, above |-> net > threshold])
           ELSE UNCHANGED <<samples, open, last, seen>>
        /\ UNCHANGED threshold
  BY DEF Sample
<1>2. now + gap \in Times /\ now + gap > now
  BY <1>1, DynamicsAssumption DEF DynTypeOK, Times
<1>3. /\ record(net, now') <=> record(net, now + gap)
      /\ [t |-> now', net |-> net, above |-> net > threshold] = Noticed(now + gap, net)
  BY <1>1 DEF record, Skip, Keep, update_episode, Noticed
<1>. QED BY <1>1, <1>2, <1>3

LEMMA NoticedIs ==
  ASSUME DynTypeOK, NEW t \in Times, NEW net \in Nets
  PROVE  /\ Noticed(t, net) \in Observation /\ Noticed(t, net).t = t /\ Noticed(t, net).net = net
         /\ Noticed(t, net).above <=> net > threshold
         /\ Taken(t, net) \in SampleSet /\ Taken(t, net).t = t /\ Taken(t, net).net = net
<1>1. (net > threshold) \in BOOLEAN
  OBVIOUS
<1>2. Noticed(t, net) \in Observation
  BY <1>1, Zenon DEF Noticed, Observation
<1>3. Noticed(t, net).above <=> net > threshold
  BY Zenon DEF Noticed
<1>4. /\ Noticed(t, net).t = t /\ Noticed(t, net).net = net
      /\ Taken(t, net) \in SampleSet /\ Taken(t, net).t = t /\ Taken(t, net).net = net
  BY DEF Noticed, Taken, SampleSet
<1>. QED BY <1>2, <1>3, <1>4

LEMMA TypesAre ==
  DynTypeOK =>
    /\ now \in Int /\ now >= 0 /\ samples \in Seq(SampleSet) /\ seen \in Seq(Observation)
    /\ last \in Times \cup {None} /\ open \in Times \cup {None}
    /\ None \notin Times /\ Times \subseteq Int
  BY DynamicsAssumption DEF DynTypeOK, Times, SampleSet, Observation

\* The samples in the order of time, no later than the last one kept.
Kept(t, net) == Trimmed(Append(samples, Taken(t, net)), t)

Settled == DynTypeOK /\ Throttled /\ InOrder

LEMMA KeptIs ==
  ASSUME Settled, NEW t \in Times, t > now, NEW net \in Nets
  PROVE  \E m \in 0..Len(samples) :
           /\ Kept(t, net) \in Seq(SampleSet) /\ Len(Kept(t, net)) = Len(samples) + 1 - m
           /\ DOMAIN Kept(t, net) = 1..Len(samples) + 1 - m
           /\ Kept(t, net)[Len(samples) + 1 - m] = Taken(t, net)
           /\ \A k \in 1..Len(samples) - m : Kept(t, net)[k] = samples[k + m]
           /\ \A j \in 1..Len(samples) : /\ samples[j].t \in Int /\ samples[j].t < t
                                         /\ j > m <=> t - samples[j].t <= Window
<1> DEFINE n == Len(samples)
           e == Taken(t, net)
           q == Append(samples, e)
<1>1. /\ samples \in Seq(SampleSet) /\ e \in SampleSet /\ e.t = t /\ n \in Nat /\ now \in Int
      /\ t \in Int /\ DOMAIN samples = 1..n
  BY TypesAre, NoticedIs DEF Settled
<1>2. /\ q \in Seq(SampleSet) /\ Len(q) = n + 1 /\ \A k \in 1..n : q[k] = samples[k]
      /\ q[n + 1] = e
  BY <1>1, AppendIs
<1>. HIDE DEF q, e
<1>3. ASSUME NEW j \in 1..n PROVE samples[j].t \in Int /\ samples[j].t < t
  <2>1. samples[j] \in SampleSet /\ samples[n] \in SampleSet /\ n \in DOMAIN samples /\ j \in 1..n
    BY <1>1
  <2>2. samples[j].t \in Int /\ samples[n].t \in Int
    BY <2>1 DEF SampleSet, Times
  <2>3. samples[j].t <= samples[n].t /\ samples[n].t = last /\ last <= now
    BY <1>1, <2>1 DEF Settled, Throttled, InOrder
  <2>. QED BY <1>1, <2>2, <2>3
<1>4. ASSUME NEW j \in 1..n + 1, NEW i \in 1..j PROVE q[i].t <= q[j].t
  <2>1. CASE j = n + 1 /\ i = n + 1
    BY <1>1, <1>2, <2>1
  <2>2. CASE j = n + 1 /\ i # n + 1
    <3>1. i \in 1..n
      BY <1>1, <2>2
    <3>. QED BY <1>1, <1>2, <1>3, <2>2, <3>1
  <2>3. CASE j # n + 1
    <3>1. j \in 1..n /\ i \in 1..n
      BY <1>1, <2>3
    <3>2. samples[i].t <= samples[j].t
      BY <1>1, <3>1 DEF Settled, InOrder
    <3>. QED BY <1>2, <3>1, <3>2
  <2>. QED BY <2>1, <2>2, <2>3
<1>5. t - q[Len(q)].t <= Window
  BY <1>1, <1>2, DynamicsAssumption
<1>6. PICK m \in 0..n :
        /\ Trimmed(q, t) = Cut(q, m) /\ Trimmed(q, t) \in Seq(SampleSet)
        /\ \A j \in 1..n + 1 : j > m <=> t - q[j].t <= Window
  <2>1. Len(q) > 0 /\ Len(q) - 1 = n
    BY <1>1, <1>2
  <2>. QED BY <1>1, <1>2, <1>4, <1>5, <2>1, TrimmedIs
<1>7. Kept(t, net) = Cut(q, m) /\ Kept(t, net) \in Seq(SampleSet)
  BY <1>6 DEF Kept, q, e
<1>8. n + 1 - m \in Nat /\ Kept(t, net) = [k \in 1..n + 1 - m |-> q[k + m]]
  BY <1>1, <1>2, <1>6, <1>7 DEF Cut
<1>. HIDE DEF n
<1>9. /\ Len(Kept(t, net)) = n + 1 - m /\ DOMAIN Kept(t, net) = 1..n + 1 - m
      /\ \A k \in 1..n + 1 - m : Kept(t, net)[k] = q[k + m]
  BY <1>8
<1>10. Kept(t, net)[n + 1 - m] = e
  <2>1. n + 1 - m \in 1..n + 1 - m /\ (n + 1 - m) + m = n + 1
    BY <1>1, <1>6
  <2>. QED BY <1>2, <1>9, <2>1
<1>11. ASSUME NEW k \in 1..n - m PROVE Kept(t, net)[k] = samples[k + m]
  <2>1. k \in 1..n + 1 - m /\ k + m \in 1..n
    BY <1>1, <1>6
  <2>. QED BY <1>2, <1>9, <2>1
<1>12. \A j \in 1..n : j > m <=> t - samples[j].t <= Window
  <2>1. \A j \in 1..n : j \in 1..n + 1
    BY <1>1
  <2>. QED BY <1>2, <1>6, <2>1
<1>. QED BY <1>3, <1>6, <1>7, <1>9, <1>10, <1>11, <1>12 DEF n, e

\* What a record does to the series.
LEMMA RecordIs ==
  ASSUME NEW t, NEW net, record(net, t)
  PROVE  /\ update_episode(net, t)
         /\ \/ last # None /\ t - last < MinInterval /\ UNCHANGED <<samples, last>>
            \/ /\ last # None => t - last >= MinInterval
               /\ samples' = Kept(t, net) /\ last' = t
  BY DEF record, Skip, Keep, Kept, Taken

LEMMA InitInv == DynInit => EpisodeInv /\ WindowInv
<1>. SUFFICES ASSUME DynInit PROVE EpisodeInv /\ WindowInv
  OBVIOUS
<1>1. DynTypeOK
  BY DynamicsAssumption DEF DynInit, DynTypeOK
<1>2. EpisodeIsContinuous
  <2>1. Streak \in Int => Streak \notin DOMAIN seen
    BY DEF DynInit
  <2>2. DOMAIN seen = {}
    BY DEF DynInit
  <2>. QED BY <2>2 DEF DynInit, EpisodeIsContinuous
<1>3. Throttled /\ InOrder /\ Fresh /\ Observed /\ Apart /\ Covered
  BY DEF DynInit, Throttled, InOrder, Fresh, Observed, Apart, Covered
<1>. QED BY <1>1, <1>2, <1>3 DEF EpisodeInv, WindowInv

LEMMA SettledKept == Settled /\ [DynNext]_dynVars => Settled'
<1>. SUFFICES ASSUME Settled, [DynNext]_dynVars PROVE Settled'
  OBVIOUS
<1>1. CASE Retune
  BY <1>1 DEF Retune, Settled, DynTypeOK, Throttled, InOrder
<1>2. CASE UNCHANGED dynVars
  BY <1>2 DEF dynVars, Settled, DynTypeOK, Throttled, InOrder
<1>3. CASE Sample
  <2>1. PICK t \in Times, net \in Nets :
          /\ t > now /\ now' = t /\ threshold' = threshold
          /\ \/ record(net, t) /\ seen' = Append(seen, Noticed(t, net))
             \/ UNCHANGED <<samples, open, last, seen>>
    BY <1>3, SampleIs DEF Settled
  <2>2. /\ now \in Int /\ t \in Int /\ samples \in Seq(SampleSet) /\ seen \in Seq(Observation)
        /\ now' \in 0..MaxTime /\ threshold' \in Thresholds /\ None \notin Times
        /\ last \in Times \cup {None} /\ open \in Times \cup {None}
    <3>1. t \in 0..MaxTime
      BY DEF Times
    <3>. QED BY <2>1, <3>1, TypesAre DEF Settled, DynTypeOK, Times
  <2>3. CASE UNCHANGED <<samples, open, last, seen>>
    <3>1. DynTypeOK'
      BY <2>2, <2>3 DEF Settled, DynTypeOK
    <3>2. Throttled' /\ InOrder'
      <4>1. samples # <<>> => last \in Int /\ last <= now
        BY <2>2, DynamicsAssumption DEF Settled, Throttled, Times
      <4>. QED BY <2>1, <2>2, <2>3, <4>1 DEF Settled, Throttled, InOrder
    <3>. QED BY <3>1, <3>2 DEF Settled
  <2>4. CASE record(net, t) /\ seen' = Append(seen, Noticed(t, net))
    <3>1. seen' \in Seq(Observation) /\ Len(seen') = Len(seen) + 1 /\ Len(seen) \in Nat
      BY <2>2, <2>4, NoticedIs, AppendIs DEF Settled
    <3>2. seen' # <<>>
      BY <3>1
    <3>3. open' \in Times \cup {None}
      BY <2>2, <2>4, RecordIs DEF update_episode
    <3>4. CASE last # None /\ UNCHANGED <<samples, last>>
      <4>1. DynTypeOK'
        BY <2>2, <3>1, <3>3, <3>4 DEF DynTypeOK, SampleSet, Observation, Times
      <4>2. Throttled' /\ InOrder'
        <5>1. last \in Int /\ last <= now
          BY <2>2, <3>4, DynamicsAssumption DEF Settled, Throttled, Times
        <5>. QED BY <2>1, <2>2, <3>2, <3>4, <5>1 DEF Settled, Throttled, InOrder
      <4>. QED BY <4>1, <4>2 DEF Settled
    <3>5. CASE samples' = Kept(t, net) /\ last' = t
      <4>1. PICK m \in 0..Len(samples) :
              /\ samples' \in Seq(SampleSet) /\ Len(samples') = Len(samples) + 1 - m
              /\ DOMAIN samples' = 1..Len(samples) + 1 - m
              /\ samples'[Len(samples) + 1 - m] = Taken(t, net)
              /\ \A k \in 1..Len(samples) - m : samples'[k] = samples[k + m]
              /\ \A j \in 1..Len(samples) : samples[j].t \in Int /\ samples[j].t < t
        BY <2>1, <3>5, KeptIs
      <4>2. Len(samples) \in Nat /\ Taken(t, net).t = t
        BY <2>2, NoticedIs DEF Settled
      <4>3. DynTypeOK'
        BY <2>2, <3>1, <3>3, <3>5, <4>1 DEF DynTypeOK, SampleSet, Observation, Times
      <4>4. Throttled'
        <5>1. samples' # <<>> /\ last' # None /\ samples'[Len(samples')].t = t
          BY <2>2, <3>5, <4>1, <4>2
        <5>. QED BY <2>1, <2>2, <3>2, <3>5, <5>1 DEF Throttled
      <4>5. InOrder'
        <5> DEFINE n == Len(samples)
        <5>0. samples'[n + 1 - m].t = t
          BY <4>1, <4>2
        <5>1. ASSUME NEW j \in 1..n + 1 - m, NEW i \in 1..j PROVE samples'[i].t <= samples'[j].t
          <6>1. CASE i = n + 1 - m
            <7>1. i = j
              BY <4>2, <6>1
            <7>. QED BY <2>2, <5>0, <6>1, <7>1
          <6>2. CASE i # n + 1 - m
            <7>1. i \in 1..n - m /\ i + m \in 1..n
              BY <4>2, <6>2
            <7>2. CASE j = n + 1 - m
              <8>1. samples'[i].t = samples[i + m].t /\ samples[i + m].t < t /\ samples[i + m].t \in Int
                BY <4>1, <7>1
              <8>. QED BY <2>2, <5>0, <7>2, <8>1
            <7>3. CASE j # n + 1 - m
              <8>1. j \in 1..n - m /\ j + m \in 1..n /\ i + m \in 1..j + m
                BY <4>2, <7>1, <7>3
              <8>2. samples[i + m].t <= samples[j + m].t
                BY SMTT(30), <2>2, <8>1 DEF Settled, InOrder
              <8>. QED BY <4>1, <7>1, <8>1, <8>2
            <7>. QED BY <7>2, <7>3
          <6>. QED BY <6>1, <6>2
        <5>. QED BY <4>1, <5>1 DEF InOrder
      <4>. QED BY <4>3, <4>4, <4>5 DEF Settled
    <3>. QED BY <2>4, <3>4, <3>5, RecordIs
  <2>. QED BY <2>1, <2>3, <2>4
<1>. QED BY <1>1, <1>2, <1>3 DEF DynNext

LEMMA SettledHolds == DynSpec => []Settled
<1>1. DynInit => Settled
  BY InitInv DEF WindowInv, Settled
<1>. QED BY <1>1, SettledKept, PTL DEF DynSpec

\* The series, its clock and its throttle keep their types
\* (crates/market_state/src/dynamics.rs:82-146).
THEOREM DynTypes == DynSpec => []DynTypeOK
<1>1. Settled => DynTypeOK
  BY DEF Settled
<1>. QED BY <1>1, SettledHolds, PTL

-----------------------------------------------------------------------------
(* The episode clock *)

\* From m on every observation of s was above its threshold, and that before was not.
StreakFrom(s, m) ==
  /\ \A i \in m..Len(s) : s[i].above
  /\ m = 1 \/ ~s[m - 1].above

StreakOf(s) ==
  LET below == {i \in DOMAIN s : ~s[i].above}
  IN (IF below = {} THEN 0 ELSE Max(below)) + 1

LEMMA StreakIs ==
  ASSUME NEW s \in Seq(Observation)
  PROVE  /\ StreakOf(s) \in 1..Len(s) + 1 /\ StreakFrom(s, StreakOf(s))
         /\ \A m \in 1..Len(s) + 1 : StreakFrom(s, m) => StreakOf(s) = m
<1> DEFINE n == Len(s)
           below == {i \in DOMAIN s : ~s[i].above}
           top == IF below = {} THEN 0 ELSE Max(below)
<1>1. n \in Nat /\ DOMAIN s = 1..n
  OBVIOUS
<1>2. \A i : i \in below <=> i \in 1..n /\ ~s[i].above
  BY <1>1
<1>3. below \in SUBSET (0..n)
  BY <1>1
<1>. HIDE DEF n, below
<1>4. top \in 0..n /\ (top = 0 \/ top \in below) /\ \A i \in below : i <= top
  <2>1. CASE below = {}
    BY <1>1, <2>1
  <2>2. CASE below # {}
    <3>1. Max(below) \in below /\ \A i \in below : i <= Max(below)
      BY <1>1, <1>3, <2>2, GreatestIs
    <3>. QED BY <1>3, <2>2, <3>1
  <2>. QED BY <2>1, <2>2
<1>5. StreakOf(s) = top + 1
  BY DEF StreakOf, below
<1>. HIDE DEF top
<1>6. \A i \in top + 1..n : s[i].above
  <2>. SUFFICES ASSUME NEW i \in top + 1..n PROVE s[i].above
    OBVIOUS
  <2>1. i \in 1..n /\ ~(i <= top)
    BY <1>1, <1>4
  <2>2. i \notin below
    BY <1>4, <2>1
  <2>. QED BY <1>2, <2>1, <2>2
<1>7. top + 1 \in 1..n + 1 /\ (top + 1) - 1 = top
  BY <1>1, <1>4
<1>8. StreakFrom(s, top + 1)
  <2>1. top + 1 = 1 \/ ~s[(top + 1) - 1].above
    BY <1>2, <1>4, <1>7
  <2>. QED BY <1>6, <2>1 DEF StreakFrom, n
<1>9. ASSUME NEW m \in 1..n + 1, StreakFrom(s, m) PROVE top + 1 = m
  <2>1. ~(top >= m)
    <3>. SUFFICES ASSUME top >= m PROVE FALSE
      OBVIOUS
    <3>1. top \in below /\ top \in m..n
      BY <1>1, <1>4
    <3>. QED BY <1>2, <1>9, <3>1 DEF StreakFrom, n
  <2>2. ~(top < m - 1)
    <3>. SUFFICES ASSUME top < m - 1 PROVE FALSE
      OBVIOUS
    <3>1. m # 1 /\ m - 1 \in 1..n
      BY <1>1, <1>4
    <3>2. m - 1 \in below
      BY <1>2, <1>9, <3>1 DEF StreakFrom
    <3>. QED BY <1>1, <1>4, <3>1, <3>2
  <2>. QED BY <1>1, <1>4, <2>1, <2>2
<1>. QED BY <1>5, <1>7, <1>8, <1>9 DEF n

LEMMA EpisodeStep ==
  ASSUME DynTypeOK, EpisodeIsContinuous, NEW t \in Times, NEW net \in Nets,
         update_episode(net, t), NEW e, e = Noticed(t, net), seen' = Append(seen, e)
  PROVE  EpisodeIsContinuous'
<1> DEFINE n == Len(seen)
           m == StreakOf(seen)
<1>1. /\ seen \in Seq(Observation) /\ n \in Nat /\ DOMAIN seen = 1..n
      /\ seen' \in Seq(Observation) /\ Len(seen') = n + 1 /\ DOMAIN seen' = 1..n + 1
      /\ \A k \in 1..n : seen'[k] = seen[k]
      /\ seen'[n + 1] = e
  BY TypesAre, NoticedIs, AppendIs
<1>2. m = Streak /\ StreakOf(seen') = Streak'
  BY DEF Streak, StreakOf
<1>3. m \in 1..n + 1 /\ StreakFrom(seen, m)
  BY <1>1, StreakIs
<1>4. open = IF m \in 1..n THEN seen[m].t ELSE None
  BY <1>1, <1>2 DEF EpisodeIsContinuous
<1>5. /\ e.t = t /\ (e.above <=> net > threshold)
  BY NoticedIs
<1>6. t # None /\ \A k \in 1..n : seen[k].t # None
  <2>1. None \notin Times
    BY TypesAre
  <2>2. \A k \in 1..n : seen[k] \in Observation
    BY <1>1
  <2>. QED BY <2>1, <2>2 DEF Observation
<1>. HIDE DEF n, m
<1>7. CASE net > threshold
  <2>1. \A i \in m..n + 1 : seen'[i].above
    <3>. SUFFICES ASSUME NEW i \in m..n + 1 PROVE seen'[i].above
      OBVIOUS
    <3>1. CASE i = n + 1
      BY <1>1, <1>5, <1>7, <3>1
    <3>2. CASE i # n + 1
      <4>1. i \in m..n /\ i \in 1..n
        BY <1>1, <1>3, <3>2
      <4>. QED BY <1>1, <1>3, <4>1 DEF StreakFrom, n
    <3>. QED BY <3>1, <3>2
  <2>2. m = 1 \/ ~seen'[m - 1].above
    <3>1. m # 1 => m - 1 \in 1..n
      BY <1>1, <1>3
    <3>. QED BY <1>1, <1>3, <3>1 DEF StreakFrom
  <2>3. StreakFrom(seen', m)
    BY <1>1, <2>1, <2>2 DEF StreakFrom
  <2>4. Streak' = m
    <3>1. m \in 1..Len(seen') + 1
      BY <1>1, <1>3
    <3>2. \A k \in 1..Len(seen') + 1 : StreakFrom(seen', k) => StreakOf(seen') = k
      BY <1>1, StreakIs
    <3>. QED BY <1>2, <2>3, <3>1, <3>2
  <2>5. open' = seen'[m].t /\ m \in DOMAIN seen'
    <3>1. CASE m \in 1..n
      BY <1>1, <1>4, <1>6, <1>7, <3>1 DEF update_episode
    <3>2. CASE m = n + 1
      <4>1. m \notin 1..n /\ m \in 1..n + 1
        BY <1>1, <3>2
      <4>. QED BY <1>1, <1>4, <1>5, <1>7, <3>2, <4>1 DEF update_episode
    <3>. QED BY <1>1, <1>3, <3>1, <3>2
  <2>. QED BY <2>4, <2>5 DEF EpisodeIsContinuous
<1>8. CASE ~(net > threshold)
  <2>1. StreakFrom(seen', n + 2)
    <3>1. n + 2..Len(seen') = {} /\ (n + 2) - 1 = n + 1
      BY <1>1
    <3>. QED BY <1>1, <1>5, <1>8, <3>1 DEF StreakFrom
  <2>2. Streak' = n + 2
    <3>1. n + 2 \in 1..Len(seen') + 1
      BY <1>1
    <3>2. \A k \in 1..Len(seen') + 1 : StreakFrom(seen', k) => StreakOf(seen') = k
      BY <1>1, StreakIs
    <3>. QED BY <1>2, <2>1, <3>1, <3>2
  <2>3. n + 2 \notin DOMAIN seen' /\ open' = None
    BY <1>1, <1>8 DEF update_episode
  <2>. QED BY <2>2, <2>3 DEF EpisodeIsContinuous
<1>. QED BY <1>7, <1>8

\* An episode is open exactly while the last observation was above the threshold
\* of its time, and dates from the first since which that is so: the clock also
\* runs on observations the throttle does not keep, and no retuned threshold
\* restarts it (crates/market_state/src/dynamics.rs:124-146, 214-222).
THEOREM EpisodeContinuous == DynSpec => []EpisodeIsContinuous
<1>1. DynInit => EpisodeIsContinuous
  BY InitInv DEF EpisodeInv
<1>2. Settled /\ EpisodeIsContinuous /\ [DynNext]_dynVars => EpisodeIsContinuous'
  <2>. SUFFICES ASSUME Settled, EpisodeIsContinuous, [DynNext]_dynVars
                PROVE  EpisodeIsContinuous'
    OBVIOUS
  <2>1. CASE UNCHANGED <<open, seen>>
    BY <2>1 DEF EpisodeIsContinuous, Streak
  <2>2. CASE Sample
    <3>1. PICK t \in Times, net \in Nets :
            \/ record(net, t) /\ seen' = Append(seen, Noticed(t, net))
            \/ UNCHANGED <<samples, open, last, seen>>
      BY <2>2, SampleIs DEF Settled
    <3>2. CASE record(net, t) /\ seen' = Append(seen, Noticed(t, net))
      <4>1. PICK e : e = Noticed(t, net)
        OBVIOUS
      <4>2. update_episode(net, t) /\ DynTypeOK
        BY <3>2, RecordIs DEF Settled
      <4>. QED BY <3>2, <4>1, <4>2, EpisodeStep
    <3>. QED BY <2>1, <3>1, <3>2
  <2>. QED BY <2>1, <2>2 DEF DynNext, Retune, dynVars
<1>. QED BY <1>1, <1>2, SettledHolds, PTL DEF DynSpec

-----------------------------------------------------------------------------
(* The window *)

Thinned == Fresh /\ Observed /\ Apart /\ Covered

\* What the throttle skips is close behind the newest sample.
LEMMA SkipThins ==
  ASSUME Settled, Thinned, NEW t \in Times, NEW net \in Nets, t > now,
         last # None, t - last < MinInterval, UNCHANGED <<samples, last>>,
         NEW e, e = Noticed(t, net), seen' = Append(seen, e)
  PROVE  Thinned'
<1> DEFINE n == Len(seen)
           l == Len(samples)
<1>1. /\ n \in Nat /\ DOMAIN seen = 1..n /\ DOMAIN seen' = 1..n + 1
      /\ \A k \in 1..n : seen'[k] = seen[k]
      /\ seen'[n + 1].t = t
  <2>1. seen \in Seq(Observation) /\ e \in Observation /\ e.t = t
    BY TypesAre, NoticedIs DEF Settled
  <2>. QED BY <2>1, AppendIs
<1>2. /\ l \in DOMAIN samples /\ samples[l].t = last /\ last <= now /\ last \in Int
      /\ now \in Int /\ t \in Int
  <2>1. samples \in Seq(SampleSet) /\ last \in Int /\ now \in Int /\ t \in Int
    BY TypesAre DEF Settled
  <2>2. samples # <<>>
    BY DEF Settled, Throttled
  <2>. QED BY <2>1, <2>2 DEF Settled, Throttled
<1>3. CloseTo(t, samples[l].t)
  BY <1>2 DEF CloseTo
<1>. HIDE DEF n, l
<1>4. Fresh' /\ Apart'
  BY DEF Thinned, Fresh, Apart
<1>5. Observed'
  <2>. SUFFICES ASSUME NEW i \in DOMAIN samples
                PROVE  \E k \in 1..n + 1 : seen'[k].t = samples[i].t /\ seen'[k].net = samples[i].net
    BY <1>1 DEF Observed
  <2>1. PICK k \in 1..n : seen[k].t = samples[i].t /\ seen[k].net = samples[i].net
    BY <1>1 DEF Thinned, Observed
  <2>2. k \in 1..n + 1
    BY <1>1
  <2>. QED BY <1>1, <2>1, <2>2
<1>6. Covered'
  <2>. SUFFICES ASSUME NEW k \in 1..n + 1, last - seen'[k].t <= Window - MinInterval
                PROVE  \E i \in DOMAIN samples : CloseTo(seen'[k].t, samples[i].t)
    BY <1>1 DEF Covered
  <2>1. CASE k = n + 1
    BY <1>1, <1>2, <1>3, <2>1
  <2>2. CASE k # n + 1
    <3>1. k \in 1..n
      BY <1>1, <2>2
    <3>. QED BY <1>1, <3>1 DEF Thinned, Covered
  <2>. QED BY <2>1, <2>2
<1>. QED BY <1>4, <1>5, <1>6 DEF Thinned

\* What is trimmed is not needed to cover what is still in the window.
LEMMA KeepThins ==
  ASSUME Settled, Thinned, NEW t \in Times, NEW net \in Nets, t > now,
         last # None => t - last >= MinInterval, samples' = Kept(t, net), last' = t,
         NEW e, e = Noticed(t, net), seen' = Append(seen, e)
  PROVE  Thinned'
<1> DEFINE n == Len(seen)
           l == Len(samples)
<1>1. /\ n \in Nat /\ DOMAIN seen = 1..n /\ DOMAIN seen' = 1..n + 1
      /\ \A k \in 1..n : seen'[k] = seen[k] /\ seen[k].t \in Int
      /\ seen'[n + 1].t = t /\ seen'[n + 1].net = net
  <2>1. seen \in Seq(Observation) /\ e \in Observation /\ e.t = t /\ e.net = net
    BY TypesAre, NoticedIs DEF Settled
  <2>2. \A k \in 1..n : seen[k] \in Observation
    BY <2>1
  <2>3. \A k \in 1..n : seen[k].t \in Int
    BY <2>2 DEF Observation, Times
  <2>. QED BY <2>1, <2>3, AppendIs
<1>2. /\ t \in Int /\ l \in Nat /\ DOMAIN samples = 1..l /\ now \in Int
      /\ Window \in Nat /\ MinInterval \in Nat
  BY TypesAre, DynamicsAssumption DEF Settled
<1>3. seen # <<>> => last # None /\ last \in Int /\ last <= now /\ t - last >= MinInterval
  BY TypesAre DEF Settled, Throttled
<1>4. n > 0 => seen # <<>>
  OBVIOUS
<1>5. l > 0 => seen # <<>>
  BY DEF Settled, Throttled
<1>6. \A j \in 1..l : samples[j].t <= last
  <2>. SUFFICES ASSUME NEW j \in 1..l PROVE samples[j].t <= last
    OBVIOUS
  <2>1. l \in DOMAIN samples /\ j \in 1..l /\ samples # <<>>
    BY <1>2
  <2>. QED BY <2>1 DEF Settled, Throttled, InOrder
<1>7. PICK m \in 0..l :
        /\ Len(samples') = l + 1 - m /\ DOMAIN samples' = 1..l + 1 - m
        /\ samples'[l + 1 - m] = Taken(t, net)
        /\ \A k \in 1..l - m : samples'[k] = samples[k + m]
        /\ \A j \in 1..l : /\ samples[j].t \in Int /\ samples[j].t < t
                           /\ j > m <=> t - samples[j].t <= Window
  BY KeptIs
<1>8. samples'[l + 1 - m].t = t /\ samples'[l + 1 - m].net = net
  BY <1>7, NoticedIs DEF Settled
<1>. HIDE DEF n, l
<1>9. \A i \in 1..l + 1 - m : i = l + 1 - m \/ (i \in 1..l - m /\ i + m \in 1..l /\ i + m > m)
  BY <1>2, <1>7
<1>10. Fresh'
  <2>. SUFFICES ASSUME NEW i \in 1..l + 1 - m PROVE t - samples'[i].t <= Window
    BY <1>7 DEF Fresh
  <2>1. CASE i = l + 1 - m
    BY <1>2, <1>8, <2>1
  <2>2. CASE i # l + 1 - m
    BY <1>7, <1>9, <2>2
  <2>. QED BY <2>1, <2>2
<1>11. Observed'
  <2>. SUFFICES ASSUME NEW i \in 1..l + 1 - m
                PROVE  \E k \in 1..n + 1 : seen'[k].t = samples'[i].t /\ seen'[k].net = samples'[i].net
    BY ZenonT(30), <1>1, <1>7 DEF Observed
  <2>1. CASE i = l + 1 - m
    <3>1. n + 1 \in 1..n + 1
      BY <1>1
    <3>. QED BY <1>1, <1>8, <2>1, <3>1
  <2>2. CASE i # l + 1 - m
    <3>1. samples'[i] = samples[i + m] /\ i + m \in 1..l
      BY <1>7, <1>9, <2>2
    <3>2. PICK k \in 1..n : seen[k].t = samples[i + m].t /\ seen[k].net = samples[i + m].net
      BY <1>1, <1>2, <3>1 DEF Thinned, Observed
    <3>3. k \in 1..n + 1
      BY <1>1
    <3>. QED BY <1>1, <3>1, <3>2, <3>3
  <2>. QED BY <2>1, <2>2
<1>12. Apart'
  <2>. SUFFICES ASSUME NEW i \in 1..l + 1 - m, NEW j \in 1..(i - 1)
                PROVE  samples'[i].t - samples'[j].t >= MinInterval
    BY <1>7 DEF Apart
  <2>1. j \in 1..l - m /\ j + m \in 1..l
    BY <1>2
  <2>2. samples'[j] = samples[j + m] /\ samples[j + m].t \in Int
    BY <1>7, <2>1
  <2>3. CASE i = l + 1 - m
    <3>1. samples[j + m].t <= last
      BY <1>6, <2>1
    <3>2. last \in Int /\ t - last >= MinInterval
      BY <1>2, <1>3, <1>5, <2>1
    <3>. QED BY SMTT(30), <1>2, <1>8, <2>2, <2>3, <3>1, <3>2
  <2>4. CASE i # l + 1 - m
    <3>1. i + m \in 1..l /\ samples'[i] = samples[i + m] /\ j + m \in 1..((i + m) - 1)
      BY <1>2, <1>7, <1>9, <2>4
    <3>2. \A h \in 1..((i + m) - 1) : samples[i + m].t - samples[h].t >= MinInterval
      BY <1>2, <3>1 DEF Thinned, Apart
    <3>. QED BY <2>2, <3>1, <3>2
  <2>. QED BY <2>3, <2>4
<1>13. Covered'
  <2>. SUFFICES ASSUME NEW k \in 1..n + 1, t - seen'[k].t <= Window - MinInterval
                PROVE  \E i \in 1..l + 1 - m : CloseTo(seen'[k].t, samples'[i].t)
    BY <1>1, <1>7 DEF Covered
  <2>1. CASE k = n + 1
    <3>1. l + 1 - m \in 1..l + 1 - m
      BY <1>2, <1>7
    <3>. QED BY <1>1, <1>2, <1>8, <2>1, <3>1 DEF CloseTo
  <2>2. CASE k # n + 1
    <3>1. k \in 1..n /\ seen'[k] = seen[k] /\ seen[k].t \in Int /\ n > 0
      BY <1>1, <2>2
    <3>2. last - seen[k].t <= Window - MinInterval
      BY SMTT(30), <1>2, <1>3, <1>4, <3>1
    <3>3. PICK i \in 1..l : CloseTo(seen[k].t, samples[i].t)
      BY <1>1, <1>2, <3>1, <3>2 DEF Thinned, Covered
    <3>4. t - samples[i].t <= Window
      <4> DEFINE u == seen[k].t
                 v == samples[i].t
      <4>1. /\ u \in Int /\ v \in Int /\ t - u <= Window - MinInterval
            /\ v <= t /\ (u - v < MinInterval \/ u = v)
        <5>1. u \in Int /\ t - u <= Window - MinInterval
          BY <3>1
        <5>2. v \in Int /\ v < t
          BY <1>7, <3>3
        <5>3. CloseTo(u, v)
          BY <3>3
        <5>. HIDE DEF u, v
        <5>. QED BY <1>2, <5>1, <5>2, <5>3 DEF CloseTo
      <4>. HIDE DEF u, v
      <4>2. t - v <= Window
        BY <1>2, <4>1
      <4>. QED BY <4>2 DEF v
    <3>5. i > m /\ i - m \in 1..l - m /\ i - m \in 1..l + 1 - m /\ (i - m) + m = i
      BY <1>2, <1>7, <3>4
    <3>6. samples'[i - m] = samples[i]
      BY <1>7, <3>5
    <3>7. CloseTo(seen'[k].t, samples'[i - m].t)
      BY <3>1, <3>3, <3>6
    <3>. QED BY <3>5, <3>7
  <2>. QED BY <2>1, <2>2
<1>. QED BY <1>10, <1>11, <1>12, <1>13 DEF Thinned

LEMMA ThinnedKept == Settled /\ Thinned /\ [DynNext]_dynVars => Thinned'
<1>. SUFFICES ASSUME Settled, Thinned, [DynNext]_dynVars PROVE Thinned'
  OBVIOUS
<1>1. CASE UNCHANGED <<samples, last, seen>>
  BY <1>1 DEF Thinned, Fresh, Observed, Apart, Covered
<1>2. CASE Sample
  <2>1. PICK t \in Times, net \in Nets :
          /\ t > now
          /\ \/ record(net, t) /\ seen' = Append(seen, Noticed(t, net))
             \/ UNCHANGED <<samples, open, last, seen>>
    BY <1>2, SampleIs DEF Settled
  <2>2. CASE record(net, t) /\ seen' = Append(seen, Noticed(t, net))
    <3>1. PICK e : e = Noticed(t, net)
      OBVIOUS
    <3>2. \/ last # None /\ t - last < MinInterval /\ UNCHANGED <<samples, last>>
          \/ /\ last # None => t - last >= MinInterval
             /\ samples' = Kept(t, net) /\ last' = t
      BY <2>2, RecordIs
    <3>. QED BY <2>1, <2>2, <3>1, <3>2, SkipThins, KeepThins
  <2>. QED BY <1>1, <2>1, <2>2
<1>. QED BY <1>1, <1>2 DEF DynNext, Retune, dynVars

\* The samples the statistics are computed from are observations of the window, at
\* least the interval of the throttle apart, and none of the window is further
\* than that interval behind a sample, however ticks come
\* (crates/market_state/src/dynamics.rs:124-146).
THEOREM WindowExact == DynSpec => []WindowIsExact
<1>1. DynInit => Thinned
  BY InitInv DEF WindowInv, Thinned
<1>2. Settled /\ Thinned => WindowIsExact
  <2>. SUFFICES ASSUME Settled, Thinned, samples # <<>>,
                       NEW newest, newest = Last(samples).t
                PROVE  /\ newest = last
                       /\ \A i \in DOMAIN samples :
                            /\ newest - samples[i].t <= Window
                            /\ \E k \in DOMAIN seen :
                                 seen[k].t = samples[i].t /\ seen[k].net = samples[i].net
                            /\ \A j \in 1..(i - 1) : samples[i].t - samples[j].t >= MinInterval
                       /\ \A k \in DOMAIN seen :
                            newest - seen[k].t <= Window - MinInterval =>
                              \E i \in DOMAIN samples :
                                seen[k].t - samples[i].t \in 0..(MinInterval - 1) \cup {0}
    BY DEF WindowIsExact
  <2>1. newest = last
    BY DEF Settled, Throttled, Last
  <2>2. ASSUME NEW k \in DOMAIN seen, NEW i \in DOMAIN samples, CloseTo(seen[k].t, samples[i].t)
        PROVE  seen[k].t - samples[i].t \in 0..(MinInterval - 1) \cup {0}
    <3>1. seen[k] \in Observation /\ samples[i] \in SampleSet
      BY TypesAre DEF Settled
    <3>2. seen[k].t \in Int /\ samples[i].t \in Int
      BY <3>1 DEF Observation, SampleSet, Times
    <3>. QED BY <2>2, <3>2, DynamicsAssumption DEF CloseTo
  <2>. QED BY <2>1, <2>2 DEF Thinned, Fresh, Observed, Apart, Covered
<1>. QED BY <1>1, <1>2, SettledHolds, ThinnedKept, PTL DEF DynSpec

-----------------------------------------------------------------------------
(* The baseline *)

LEMMA PartsAre ==
  ASSUME NEW S, IsFiniteSet(S), NEW f \in [S -> Int], NEW v \in Int
  PROVE  /\ Cardinality(S) \in Nat
         /\ Less(f, v) \subseteq S /\ IsFiniteSet(Less(f, v)) /\ Cardinality(Less(f, v)) \in Nat
         /\ AtMost(f, v) \subseteq S /\ IsFiniteSet(AtMost(f, v)) /\ Cardinality(AtMost(f, v)) \in Nat
<1>1. Less(f, v) \subseteq S /\ AtMost(f, v) \subseteq S
  BY DEF Less, AtMost
<1>. QED BY <1>1, FS_Subset, FS_CardinalityType

\* Values on a finite set have a largest.
LEMMA Highest ==
  ASSUME NEW S, S # {}, IsFiniteSet(S), NEW f \in [S -> Int]
  PROVE  \E x \in S : \A y \in S : f[y] <= f[x]
<1> DEFINE HasTop(T) == \E x \in T : \A y \in T : f[y] <= f[x]
           Topless == {T \in FiniteSubsetsOf(S) : T # {} /\ ~HasTop(T)}
           Order == StrictSubsetOrdering(S)
<1>1. IsWellFoundedOn(Order, FiniteSubsetsOf(S))
  BY FS_StrictSubsetOrderingWellFounded
<1>2. S \in FiniteSubsetsOf(S)
  BY DEF FiniteSubsetsOf
<1>. HIDE DEF Order
<1>3. ASSUME Topless # {} PROVE FALSE
  <2>1. PICK T \in Topless : \A U \in Topless : <<U, T>> \notin Order
    <3>1. Topless \subseteq FiniteSubsetsOf(S)
      OBVIOUS
    <3>. HIDE DEF Topless
    <3>. QED BY <1>1, <1>3, <3>1, WFMin
  <2>2. T \subseteq S /\ IsFiniteSet(T) /\ T # {} /\ ~HasTop(T)
    BY <2>1 DEF FiniteSubsetsOf
  <2>3. PICK x \in T : TRUE
    BY <2>2
  <2> DEFINE U == T \ {x}
  <2>4. IsFiniteSet(U) /\ U \subseteq S /\ U \in FiniteSubsetsOf(S)
    BY <2>2, FS_RemoveElement DEF FiniteSubsetsOf
  <2>5. <<U, T>> \in Order
    BY <2>2, <2>3 DEF Order, StrictSubsetOrdering
  <2>6. U \notin Topless
    <3>. HIDE DEF U, Topless
    <3>. QED BY <2>1, <2>5
  <2>7. U = {} \/ HasTop(U)
    BY <2>4, <2>6
  <2>8. CASE U = {}
    <3>1. T = {x} /\ f[x] \in Int
      BY <2>2, <2>3, <2>8
    <3>. QED BY <2>2, <3>1
  <2>9. CASE HasTop(U)
    <3>1. PICK y \in U : \A z \in U : f[z] <= f[y]
      BY <2>9
    <3>2. \A z \in T : f[z] \in Int /\ (z \in U \/ z = x)
      BY <2>2
    <3>3. CASE f[x] <= f[y]
      BY <2>2, <3>1, <3>2, <3>3
    <3>4. CASE ~(f[x] <= f[y])
      <4>1. \A z \in T : f[z] <= f[x]
        BY <2>3, <3>1, <3>2, <3>4
      <4>. QED BY <2>2, <2>3, <4>1
    <3>. QED BY <3>3, <3>4
  <2>. QED BY <2>7, <2>8, <2>9
<1>4. S \notin Topless
  <2>. HIDE DEF Topless
  <2>. QED BY <1>3
<1>. QED BY <1>2, <1>4

\* Each rank has a value: take one that as few values as possible reach.
LEMMA SortedIs ==
  ASSUME NEW S, IsFiniteSet(S), NEW f \in [S -> Int], NEW k \in 1..Cardinality(S)
  PROVE  /\ \E x \in S : Sorted(f, k) = f[x]
         /\ Cardinality(Less(f, Sorted(f, k))) < k
         /\ Cardinality(AtMost(f, Sorted(f, k))) >= k
<1> DEFINE Size(x) == Cardinality(AtMost(f, f[x]))
           Reached == {x \in S : Size(x) >= k}
           Sizes == {Size(x) : x \in Reached}
           values == {f[x] : x \in S}
           Ranked(v) == Cardinality(Less(f, v)) < k /\ Cardinality(AtMost(f, v)) >= k
<1>1. /\ Cardinality(S) \in Nat /\ k \in Nat \ {0} /\ k <= Cardinality(S)
      /\ \A x \in S : f[x] \in Int /\ Size(x) \in Nat
  <2>1. Cardinality(S) \in Nat
    BY FS_CardinalityType
  <2>. QED BY <2>1, PartsAre
<1>2. Reached # {}
  <2>1. S # {}
    BY <1>1, FS_EmptySet
  <2>2. PICK x \in S : \A y \in S : f[y] <= f[x]
    BY <2>1, Highest
  <2>3. AtMost(f, f[x]) = S
    BY <2>2 DEF AtMost
  <2>. QED BY <1>1, <2>3
<1>3. PICK x \in Reached : \A y \in Reached : Size(x) <= Size(y)
  <2>1. Sizes \in SUBSET Nat /\ Sizes # {}
    BY <1>1, <1>2
  <2>2. PICK n \in Sizes : \A m \in Sizes : n <= m
    <3>. HIDE DEF Sizes
    <3>. QED BY <2>1, LeastNumber
  <2>. HIDE DEF Size, Reached
  <2>. QED BY <2>2
<1>4. x \in S /\ f[x] \in Int /\ Size(x) >= k
  BY <1>1, <1>3
<1>5. Cardinality(Less(f, f[x])) < k
  <2>. SUFFICES ASSUME ~(Cardinality(Less(f, f[x])) < k) PROVE FALSE
    OBVIOUS
  <2> DEFINE L == Less(f, f[x])
  <2>1. L \subseteq S /\ IsFiniteSet(L) /\ Cardinality(L) \in Nat
    BY <1>4, PartsAre
  <2>2. L # {}
    BY <1>1, <2>1, FS_EmptySet
  <2>3. PICK y \in L : \A z \in L : f[z] <= f[y]
    <3> DEFINE g == [z \in L |-> f[z]]
    <3>1. g \in [L -> Int] /\ \A z \in L : g[z] = f[z]
      BY <1>1, <2>1
    <3>2. PICK y \in L : \A z \in L : g[z] <= g[y]
      <4>. HIDE DEF g, L
      <4>. QED BY <2>1, <2>2, <3>1, Highest
    <3>. QED BY <3>1, <3>2
  <2>4. y \in S /\ f[y] \in Int /\ f[y] < f[x]
    BY <1>1, <2>1, <2>3 DEF Less
  <2>5. L \subseteq AtMost(f, f[y])
    BY <2>1, <2>3 DEF AtMost
  <2>6. AtMost(f, f[y]) \subseteq AtMost(f, f[x]) /\ x \in AtMost(f, f[x]) /\ x \notin AtMost(f, f[y])
    BY <1>1, <1>4, <2>4 DEF AtMost
  <2>7. /\ IsFiniteSet(AtMost(f, f[x])) /\ IsFiniteSet(AtMost(f, f[y]))
        /\ Size(x) \in Nat /\ Size(y) \in Nat
    BY <1>4, <2>4, PartsAre
  <2>8. Cardinality(L) <= Size(y)
    BY <2>5, <2>7, FS_Subset
  <2>9. Size(y) < Size(x)
    <3>1. Size(y) <= Size(x) /\ (Size(y) = Size(x) => AtMost(f, f[y]) = AtMost(f, f[x]))
      BY <2>6, <2>7, FS_Subset
    <3>. QED BY <2>6, <2>7, <3>1
  <2>10. y \in Reached
    BY <1>1, <2>1, <2>4, <2>7, <2>8
  <2>. QED BY <1>3, <2>7, <2>9, <2>10
<1>6. Sorted(f, k) = CHOOSE v \in values : Ranked(v)
  BY DEF Sorted
<1>7. f[x] \in values /\ Ranked(f[x])
  BY <1>4, <1>5
<1>. HIDE DEF Ranked, values
<1>8. Sorted(f, k) \in values /\ Ranked(Sorted(f, k))
  BY <1>6, <1>7
<1>. QED BY <1>8 DEF Ranked, values

AtLeast(f, v) == {i \in DOMAIN f : f[i] >= v}

\* The values of the two middle ranks are those counting from either end finds.
LEMMA MedianIs ==
  ASSUME NEW S, S # {}, IsFiniteSet(S), NEW f \in [S -> Int]
  PROVE  IsMedian2(median_of_sorted(f), f)
<1> DEFINE n == Cardinality(S)
           lo == Sorted(f, (n + 1) \div 2)
           hi == Sorted(f, n \div 2 + 1)
           values == {f[x] : x \in S}
           Low == {v \in values : 2 * Cardinality(AtMost(f, v)) >= n}
           High == {v \in values : 2 * Cardinality(AtLeast(f, v)) >= n}
<1>1. n \in Nat \ {0} /\ \A v \in values : v \in Int
  BY FS_CardinalityType, FS_EmptySet
<1>2. (n + 1) \div 2 \in 1..n /\ n \div 2 + 1 \in 1..n
  <2>. HIDE DEF n
  <2>. QED BY <1>1
<1>3. /\ lo \in values /\ Cardinality(Less(f, lo)) < (n + 1) \div 2
      /\ Cardinality(AtMost(f, lo)) >= (n + 1) \div 2
      /\ hi \in values /\ Cardinality(Less(f, hi)) < n \div 2 + 1
      /\ Cardinality(AtMost(f, hi)) >= n \div 2 + 1
  BY <1>2, SortedIs
<1>4. ASSUME NEW v \in Int
      PROVE  /\ Cardinality(Less(f, v)) \in Nat /\ Cardinality(AtMost(f, v)) \in Nat
             /\ Cardinality(AtLeast(f, v)) = n - Cardinality(Less(f, v))
  <2>1. AtLeast(f, v) = S \ Less(f, v) /\ S \cap Less(f, v) = Less(f, v)
    BY DEF AtLeast, Less
  <2>2. Cardinality(S \ Less(f, v)) = n - Cardinality(S \cap Less(f, v))
    BY FS_Difference
  <2>. QED BY <2>1, <2>2, PartsAre
<1>5. ASSUME NEW v \in Int, NEW w \in Int, v < w
      PROVE  Cardinality(AtMost(f, v)) <= Cardinality(Less(f, w))
  <2>1. AtMost(f, v) \subseteq Less(f, w)
    BY <1>5 DEF AtMost, Less
  <2>. QED BY <2>1, PartsAre, FS_Subset
<1>. HIDE DEF lo, hi, n, values
<1>6. Min(Low) = lo
  <2>1. lo \in Int /\ lo \in Low
    BY <1>1, <1>3, <1>4
  <2>2. \A v \in Low : v \in Int /\ lo <= v
    <3>. SUFFICES ASSUME NEW v \in Low, ~(lo <= v) PROVE FALSE
      BY <1>1
    <3>1. v \in Int /\ v < lo
      BY <1>1, <2>1
    <3>2. 2 * Cardinality(AtMost(f, v)) >= n /\ Cardinality(AtMost(f, v)) <= Cardinality(Less(f, lo))
      BY <1>5, <2>1, <3>1
    <3>. QED BY <1>1, <1>3, <1>4, <2>1, <3>1, <3>2
  <2>. HIDE DEF Low
  <2>3. PICK m : m = Min(Low)
    OBVIOUS
  <2>4. m \in Low /\ \A v \in Low : m <= v
    BY <2>1, <2>2, <2>3 DEF Min
  <2>5. m \in Int /\ m <= lo /\ lo <= m
    BY <2>1, <2>2, <2>4
  <2>. QED BY <2>1, <2>3, <2>5
<1>7. Max(High) = hi
  <2>1. hi \in Int /\ hi \in High
    BY <1>1, <1>3, <1>4
  <2>2. \A v \in High : v \in Int /\ v <= hi
    <3>. SUFFICES ASSUME NEW v \in High, ~(v <= hi) PROVE FALSE
      BY <1>1
    <3>1. v \in Int /\ hi < v
      BY <1>1, <2>1
    <3>2. /\ 2 * Cardinality(AtLeast(f, v)) >= n
          /\ Cardinality(AtMost(f, hi)) <= Cardinality(Less(f, v))
      BY <1>5, <2>1, <3>1
    <3>. QED BY <1>1, <1>3, <1>4, <2>1, <3>1, <3>2
  <2>. HIDE DEF High
  <2>3. PICK m : m = Max(High)
    OBVIOUS
  <2>4. m \in High /\ \A v \in High : v <= m
    BY <2>1, <2>2, <2>3 DEF Max
  <2>5. m \in Int /\ m <= hi /\ hi <= m
    BY <2>1, <2>2, <2>4
  <2>. QED BY <2>1, <2>3, <2>5
<1>8. DOMAIN f = S /\ median_of_sorted(f) = lo + hi
  BY DEF median_of_sorted, lo, hi, n
<1>. QED BY <1>6, <1>7, <1>8 DEF IsMedian2, AtLeast, n, values

\* The middle of the values is no higher than what more than half of them are up to.
LEMMA MinorityYields ==
  ASSUME NEW S, IsFiniteSet(S), NEW f \in [S -> Int], NEW v \in Int,
         2 * Cardinality(AtMost(f, v)) > Cardinality(S)
  PROVE  median_of_sorted(f) <= 2 * v
<1> DEFINE n == Cardinality(S)
<1>1. /\ n \in Nat /\ Cardinality(AtMost(f, v)) \in Nat
      /\ Cardinality(AtMost(f, v)) <= n /\ 2 * Cardinality(AtMost(f, v)) > n
  BY PartsAre, FS_Subset
<1>2. ASSUME NEW k \in 1..n, k <= Cardinality(AtMost(f, v)) PROVE Sorted(f, k) \in Int /\ Sorted(f, k) <= v
  <2>1. Sorted(f, k) \in Int /\ Cardinality(Less(f, Sorted(f, k))) < k
    BY SortedIs
  <2>2. ASSUME v < Sorted(f, k) PROVE FALSE
    <3>1. AtMost(f, v) \subseteq Less(f, Sorted(f, k))
      BY <2>1, <2>2 DEF AtMost, Less
    <3>2. /\ Cardinality(AtMost(f, v)) <= Cardinality(Less(f, Sorted(f, k)))
          /\ Cardinality(Less(f, Sorted(f, k))) \in Nat
      BY <2>1, <3>1, PartsAre, FS_Subset
    <3>. QED BY <1>1, <1>2, <2>1, <3>2
  <2>. QED BY <2>1, <2>2
<1>3. /\ (n + 1) \div 2 \in 1..n /\ (n + 1) \div 2 <= Cardinality(AtMost(f, v))
      /\ n \div 2 + 1 \in 1..n /\ n \div 2 + 1 <= Cardinality(AtMost(f, v))
  <2>. HIDE DEF n
  <2>. QED BY <1>1
<1>4. median_of_sorted(f) = Sorted(f, (n + 1) \div 2) + Sorted(f, n \div 2 + 1)
  BY DEF median_of_sorted
<1>. HIDE DEF n
<1>. QED BY <1>2, <1>3, <1>4

\* A spike does not raise the baseline it is measured against: the samples since
\* the episode opened do not count as long as enough from before it are in the
\* window, and when all count, a minority of them cannot raise the median above
\* what was there (crates/market_state/src/dynamics.rs:158-176, 205-212).
THEOREM BaselineStays == DynSpec => []SpikeLeavesBaseline
<1>1. Settled /\ EpisodeIsContinuous => SpikeLeavesBaseline
  <2>. SUFFICES ASSUME Settled, EpisodeIsContinuous PROVE SpikeLeavesBaseline
    OBVIOUS
  <2> DEFINE D == DOMAIN samples
             n == Len(samples)
             q == Cardinality(Before)
             before == {i \in D : open = None \/ samples[i].t < open}
             top == Max({samples[i].net : i \in Before})
  <2>1. /\ D = 1..n /\ n \in Nat /\ IsFiniteSet(D) /\ Cardinality(D) = n
        /\ \A i \in D : samples[i].net \in Int
        /\ \A k \in DOMAIN seen : seen[k].t \in Int
        /\ None \notin Int /\ MinQuiet \in Nat \ {0}
    <3>1. /\ samples \in Seq(SampleSet) /\ seen \in Seq(Observation) /\ Nets \subseteq Int
          /\ None \notin Int /\ MinQuiet \in Nat \ {0}
      BY DynamicsAssumption DEF Settled, DynTypeOK, SampleSet, Observation, Times
    <3>2. n \in Nat /\ D = 1..n
      BY <3>1
    <3>3. IsFiniteSet(1..n) /\ Cardinality(1..n) = n
      <4>. HIDE DEF n
      <4>1. IsFiniteSet(1..n) /\ Cardinality(1..n) = IF 1 > n THEN 0 ELSE n - 1 + 1
        BY <3>2, FS_Interval
      <4>. QED BY <3>2, <4>1
    <3>4. \A i \in D : samples[i] \in SampleSet
      BY <3>1
    <3>5. \A k \in DOMAIN seen : seen[k] \in Observation
      BY <3>1
    <3>6. \A e \in SampleSet : e.net \in Int
      BY <3>1 DEF SampleSet
    <3>7. \A e \in Observation : e.t \in Int
      BY DynamicsAssumption DEF Observation, Times
    <3>. QED BY <3>1, <3>2, <3>3, <3>4, <3>5, <3>6, <3>7
  <2>2. Before = before
    BY <2>1 DEF EpisodeIsContinuous, Before
  <2>3. Before \subseteq D /\ IsFiniteSet(Before) /\ q \in Nat /\ q <= n
    BY <2>1, FS_Subset, FS_CardinalityType DEF Before
  <2>4. Quiet = IF q < MinQuiet THEN D ELSE Before
    BY <2>2 DEF Quiet
  <2>5. stats(now).baseline2 = median_of_sorted(NetsOf(Quiet))
    BY DEF stats
  <2>6. ASSUME NEW S \in SUBSET D PROVE IsFiniteSet(S) /\ NetsOf(S) \in [S -> Int]
    BY <2>1, FS_Subset DEF NetsOf
  <2>7. ASSUME q >= MinQuiet PROVE IsMedian2(stats(now).baseline2, NetsOf(Before))
    <3>1. Quiet = Before /\ Before # {}
      BY <2>1, <2>3, <2>4, <2>7, FS_EmptySet
    <3>. QED BY <2>3, <2>5, <2>6, <3>1, MedianIs
  <2>8. ASSUME 2 * q > n PROVE stats(now).baseline2 <= 2 * top
    <3>1. Before # {}
      BY <2>1, <2>8, FS_EmptySet
    <3>2. top \in Int /\ \A i \in Before : samples[i].net <= top
      <4> DEFINE nets == {samples[i].net : i \in Before}
                 f == NetsOf(Before)
      <4>1. PICK x \in Before : \A y \in Before : f[y] <= f[x]
        <5>1. IsFiniteSet(Before) /\ f \in [Before -> Int]
          BY <2>3, <2>6
        <5>. HIDE DEF f
        <5>. QED BY <3>1, <5>1, Highest
      <4>2. samples[x].net \in nets /\ \A m \in nets : m \in Int /\ samples[x].net >= m
        BY <2>1, <2>3, <4>1 DEF NetsOf
      <4>3. top \in nets /\ \A m \in nets : top >= m
        <5>. HIDE DEF nets
        <5>1. top = CHOOSE m \in nets : \A o \in nets : m >= o
          BY DEF Max, nets
        <5>. QED BY <4>2, <5>1
      <4>. QED BY <4>2, <4>3
    <3>3. PICK S \in {D, Before} : S = Quiet
      BY <2>4
    <3>4. S \subseteq D /\ Before \subseteq S /\ IsFiniteSet(S) /\ NetsOf(S) \in [S -> Int]
      BY <2>3, <2>6, <3>3
    <3>5. Before \subseteq AtMost(NetsOf(S), top)
      BY <3>2, <3>4 DEF AtMost, NetsOf
    <3>6. 2 * Cardinality(AtMost(NetsOf(S), top)) > Cardinality(S)
      <4>1. /\ IsFiniteSet(AtMost(NetsOf(S), top)) /\ Cardinality(AtMost(NetsOf(S), top)) \in Nat
            /\ Cardinality(S) \in Nat
        BY <3>2, <3>4, PartsAre
      <4>2. q <= Cardinality(AtMost(NetsOf(S), top)) /\ Cardinality(S) <= n
        BY <2>1, <3>4, <3>5, <4>1, FS_Subset
      <4>. QED BY <2>1, <2>3, <2>8, <4>1, <4>2
    <3>. HIDE DEF top
    <3>. QED BY <2>5, <3>2, <3>3, <3>4, <3>6, MinorityYields
  <2>. QED BY <2>7, <2>8 DEF SpikeLeavesBaseline
<1>. QED BY SettledHolds, EpisodeContinuous, <1>1, PTL
=============================================================================
