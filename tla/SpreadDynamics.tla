---------------------------- MODULE SpreadDynamics ----------------------------
(***************************************************************************)
(* The spread statistics of one instrument                                 *)
(* (crates/market_state/src/dynamics.rs) and the sampler that feeds them   *)
(* (bin/server/src/main.rs).  The series are keyed by instrument and no    *)
(* operation touches two of them.                                          *)
(*                                                                         *)
(* Time is monotonic and finer than the sampling interval: two ticks never *)
(* happen at the same Instant, but a late timer fires its missed ticks     *)
(* right after each other.  The statistics are doubled, so that the mean   *)
(* of two samples is an integer.                                           *)
(***************************************************************************)
EXTENDS Integers, Sequences, SequencesExt

CONSTANTS
  Nets,          \* net spreads of the best pair
  Thresholds,    \* min_net_spread_pct, as clients set it
  SanityCap,     \* chart.sanity_max_spread_pct
  MinInterval,   \* DynamicsConfig.min_sample_interval
  Window,        \* DynamicsConfig.window
  MinQuiet,      \* MIN_QUIET_SAMPLES
  Gaps,          \* times between two ticks
  MaxTime,       \* bound: the clock
  None

ASSUME DynamicsAssumption ==
  /\ Nets \subseteq Int /\ Thresholds \subseteq Int /\ Thresholds # {}
  /\ SanityCap \in Nat /\ MinInterval \in Nat /\ Window \in Nat
  /\ MinQuiet \in Nat \ {0}
  /\ Gaps \subseteq Nat \ {0} /\ MaxTime \in Nat
  /\ None \notin Int

VARIABLES
  now,        \* the Instant of the last tick
  threshold,  \* min_net_spread_pct of the current configuration
  samples,    \* Series.samples
  open,       \* Series.episode_open
  last,       \* Series.last_recorded
  seen        \* history: what record was called with

dynVars == <<now, threshold, samples, open, last, seen>>

DynTypeOK ==
  /\ now \in 0..MaxTime
  /\ threshold \in Thresholds
  /\ samples \in Seq([t : 1..MaxTime, net : Nets])
  /\ open \in 1..MaxTime \cup {None}
  /\ last \in 1..MaxTime \cup {None}
  /\ seen \in Seq([t : 1..MaxTime, net : Nets, above : BOOLEAN])

DynInit ==
  /\ now = 0 /\ threshold \in Thresholds
  /\ samples = <<>> /\ open = None /\ last = None
  /\ seen = <<>>

-----------------------------------------------------------------------------
(* record *)

update_episode(net, t) ==
  open' = IF net > threshold THEN IF open = None THEN t ELSE open
                             ELSE None

\* The front of the deque is popped for as long as it is outside the window.
Trimmed(s, t) ==
  LET outside == {k \in 0..Len(s) : \A j \in 1..k : t - s[j].t > Window}
  IN SubSeq(s, Max(outside) + 1, Len(s))

\* Mutant: a skipped observation starts the interval anew.
SkipDebounced(net, t) ==
  /\ last # None /\ t - last < MinInterval
  /\ last' = t
  /\ UNCHANGED samples /\ update_episode(net, t)

\* Mutant: a skipped observation does not reach the episode clock.
SkipWhole(net, t) ==
  /\ last # None /\ t - last < MinInterval
  /\ UNCHANGED <<samples, last, open>>

Skip(net, t) ==
  /\ last # None /\ t - last < MinInterval
  /\ UNCHANGED <<samples, last>>
  /\ update_episode(net, t)

Keep(net, t) ==
  /\ last # None => t - last >= MinInterval
  /\ samples' = Trimmed(Append(samples, [t |-> t, net |-> net]), t)
  /\ last' = t
  /\ update_episode(net, t)

record(net, t) == Skip(net, t) \/ Keep(net, t)

-----------------------------------------------------------------------------
(* stats *)

\* The nets of some of the samples.
NetsOf(S) == [i \in S |-> samples[i].net]

Less(f, v)   == {i \in DOMAIN f : f[i] < v}
AtMost(f, v) == {i \in DOMAIN f : f[i] <= v}

\* The k-th smallest of the values of f: what a sorted list has at k.
Sorted(f, k) ==
  CHOOSE v \in {f[i] : i \in DOMAIN f} : Cardinality(Less(f, v)) < k /\ Cardinality(AtMost(f, v)) >= k

\* Twice the median of the values of f; there is one.
median_of_sorted(f) ==
  LET n == Cardinality(DOMAIN f) IN Sorted(f, (n + 1) \div 2) + Sorted(f, n \div 2 + 1)

\* Mutant: the sample that opened the episode counts as quiet.
QuietLate ==
  LET before == {i \in DOMAIN samples : open = None \/ samples[i].t <= open}
  IN IF Cardinality(before) < MinQuiet THEN DOMAIN samples ELSE before

\* The samples the baseline is computed from: those before the open episode, or
\* all of them when those are too few.
Quiet ==
  LET before == {i \in DOMAIN samples : open = None \/ samples[i].t < open}
  IN IF Cardinality(before) < MinQuiet THEN DOMAIN samples ELSE before

\* The statistics a reader gets at time t; there is a sample.  The standard
\* deviation and the scale of the z-score are arithmetic on the same samples.
stats(t) ==
  LET baseline2 == median_of_sorted(NetsOf(Quiet))
  IN [baseline2        |-> baseline2,
      mad4             |-> median_of_sorted([i \in Quiet |->
                              LET d == 2 * samples[i].net - baseline2
                              IN IF d < 0 THEN -d ELSE d]),
      current          |-> Last(samples).net,
      sample_count     |-> Len(samples),
      baseline_samples |-> Cardinality(Quiet),
      episode_ms       |-> IF open = None THEN 0 ELSE t - open]

-----------------------------------------------------------------------------
(* The sampler *)

Abs(n) == IF n < 0 THEN -n ELSE n

\* The instrument has a best pair within the sanity cap; a tick without one
\* leaves the series alone, whatever it holds.
Sample ==
  \E gap \in Gaps, net \in Nets :
    /\ now + gap <= MaxTime /\ now' = now + gap
    /\ IF Abs(net) <= SanityCap
       THEN /\ record(net, now')
            /\ seen' = Append(seen, [t |-> now', net |-> net, above |-> net > threshold])
       ELSE UNCHANGED <<samples, open, last, seen>>
    /\ UNCHANGED threshold

\* A client changes its minimum spread.
Retune ==
  /\ threshold' \in Thresholds \ {threshold}
  /\ UNCHANGED <<now, samples, open, last, seen>>

DynNext == Sample \/ Retune

DynSpec == DynInit /\ [][DynNext]_dynVars

-----------------------------------------------------------------------------
(* What the statistics promise *)

\* The first observation of the run of above-threshold ones that goes on.
Streak ==
  LET below == {i \in DOMAIN seen : ~seen[i].above}
  IN (IF below = {} THEN 0 ELSE Max(below)) + 1

\* An episode is open exactly when the last observation was above the threshold
\* of its time, and it is as old as the first of the observations since which
\* that has been so: neither the throttle nor a retuned threshold hides a dip or
\* restarts the clock (record, dynamics.rs:124-146, 214-222).
EpisodeIsContinuous ==
  open = IF Streak \in DOMAIN seen THEN seen[Streak].t ELSE None

\* The retained samples are observations at least MinInterval apart, none older
\* than Window when the newest was taken, and no observation of the window is
\* further than the interval from a sample: the throttle thins, it never starves
\* (record, dynamics.rs:124-146).
WindowIsExact ==
  samples # <<>> =>
    LET newest == Last(samples).t
    IN /\ newest = last
       /\ \A i \in DOMAIN samples :
            /\ newest - samples[i].t <= Window
            /\ \E k \in DOMAIN seen : seen[k].t = samples[i].t /\ seen[k].net = samples[i].net
            /\ \A j \in 1..(i - 1) : samples[i].t - samples[j].t >= MinInterval
       /\ \A k \in DOMAIN seen :
            newest - seen[k].t <= Window - MinInterval =>
              \E i \in DOMAIN samples : seen[k].t - samples[i].t \in 0..(MinInterval - 1) \cup {0}

\* The value in the middle: half of the values are up to the one, half from the
\* other, and nothing closer to the middle is.
IsMedian2(m, f) ==
  LET n == Cardinality(DOMAIN f)
      values == {f[i] : i \in DOMAIN f}
      atLeast(v) == {i \in DOMAIN f : f[i] >= v}
  IN m = Min({v \in values : 2 * Cardinality(AtMost(f, v)) >= n})
         + Max({v \in values : 2 * Cardinality(atLeast(v)) >= n})

\* The samples from before the observations that make up the open episode.
Before == {i \in DOMAIN samples : Streak \in DOMAIN seen => samples[i].t < seen[Streak].t}

\* A spike does not raise the baseline it is measured against: with MinQuiet
\* samples from before it the baseline is their median; with fewer, but still
\* more than half of the window, it is at most their largest (stats,
\* dynamics.rs:32-39, 60-63, 158-176).
SpikeLeavesBaseline ==
  /\ Cardinality(Before) >= MinQuiet => IsMedian2(stats(now).baseline2, NetsOf(Before))
  /\ 2 * Cardinality(Before) > Len(samples) =>
       stats(now).baseline2 <= 2 * Max({samples[i].net : i \in Before})
=============================================================================
