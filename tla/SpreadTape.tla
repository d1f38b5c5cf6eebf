------------------------------ MODULE SpreadTape ------------------------------
(***************************************************************************)
(* The two tiers of the spread tape (crates/spread_tape/src/lib.rs) for    *)
(* one instrument, the sampler that fills them and the queries that read   *)
(* them.  The maps are keyed by instrument and no operation touches two    *)
(* entries.  The live broadcast of `record` is in WsSession.               *)
(*                                                                         *)
(* Time is the wall clock in milliseconds of the model: it runs, but an    *)
(* administrator or NTP may set it.  The sampler's timer is monotonic and  *)
(* fires its missed ticks in a burst when the loop was held up.            *)
(***************************************************************************)
EXTENDS Integers, Sequences, FiniteSets, SequencesExt

CONSTANTS
  Nets, Pairs,                  \* what a best-pair point carries
  Resolution, Window,           \* chart.resolution_ms, chart.window_ms
  HistResolution, HistWindow,   \* chart.history_resolution_ms, chart.history_window_ms
  Slack,                        \* the 4 extra samples of with_history
  MaxDue,                       \* bound: ticks the timer is behind
  Jumps,                        \* by how much the clock may be set off
  MaxClock, MaxSteps,           \* bounds: the clock, and how often it is set
  MaxPoints,                    \* bound: points recorded
  None

Point == [ts : Int, net : Nets, pair : Pairs]
SpreadBucket == [ts : Int, min : Nets, max : Nets, close : Nets, pair : Pairs, samples : Nat]

ASSUME TapeAssumption ==
  /\ Nets \subseteq Int
  /\ Resolution \in Nat \ {0} /\ HistResolution \in Nat \ {0}
  /\ Window \in Nat /\ HistWindow \in Nat /\ Slack \in Nat
  /\ Jumps \subseteq Int
  /\ MaxDue \in Nat \ {0} /\ MaxClock \in Nat /\ MaxSteps \in Nat /\ MaxPoints \in Nat
  /\ None \notin SpreadBucket

VARIABLES
  clock,      \* Utc::now
  due,        \* ticks of the sampler's interval that have not fired yet
  steps,      \* how often the clock was set
  buffer,     \* InstrTape.buffer, the sample times
  buckets,    \* InstrHistory.buckets
  current,    \* InstrHistory.current
  steady,     \* history: samples within Window of the newest, none from before
              \* the clock was last set
  log         \* history: points that came in the order of their buckets

tapeVars == <<clock, due, steps, buffer, buckets, current, steady, log>>

Larger(a, b) == IF a >= b THEN a ELSE b

-----------------------------------------------------------------------------
(* with_history *)

Capacity == Larger(Window \div Resolution, 1) + Slack
HistCapacity == Larger(HistWindow \div HistResolution, 1) + 1

\* history_window_ms: what /spread/range may ask for at most.
HistoryWindowMs == HistCapacity * HistResolution

TapeTypeOK ==
  /\ clock \in 0..MaxClock /\ due \in 0..MaxDue /\ steps \in 0..MaxSteps
  /\ buffer \in Seq(0..MaxClock) /\ Len(buffer) <= Capacity
  /\ buckets \in Seq(SpreadBucket) /\ Len(buckets) <= HistCapacity
  /\ current \in SpreadBucket \cup {None}
  /\ steady \in Seq(0..MaxClock)
  /\ log \in Seq([bucket : Int, net : Nets, pair : Pairs])

TapeInit ==
  /\ clock = 0 /\ due = 1 /\ steps = 0      \* an interval fires at once
  /\ buffer = <<>> /\ buckets = <<>> /\ current = None
  /\ steady = <<>> /\ log = <<>>

\* The newest n elements of a deque.
Newest(s, n) == IF Len(s) > n THEN SubSeq(s, Len(s) - n + 1, Len(s)) ELSE s

\* The elements of s at the indices in I, in their order.
Kept(s, I) ==
  LET part[k \in 0..Len(s)] ==
        IF k = 0 THEN <<>> ELSE IF k \in I THEN Append(part[k - 1], s[k]) ELSE part[k - 1]
  IN part[Len(s)]

-----------------------------------------------------------------------------
(* record *)

\* Mutant: the slack of the ring is forgotten.
BufferedTight(ts) == Newest(Append(buffer, ts), Larger(Window \div Resolution, 1))

Buffered(ts) == Newest(Append(buffer, ts), Capacity)

(* record_point *)

BucketOf(ts) == ts - (ts % HistResolution)

Opened(p) == [ts |-> BucketOf(p.ts), min |-> p.net, max |-> p.net, close |-> p.net,
              pair |-> p.pair, samples |-> 1]

\* Mutant: the venues of the maximum are those of the last point.
FoldedLast(b, p) ==
  [ts |-> b.ts, min |-> IF p.net < b.min THEN p.net ELSE b.min, max |-> Larger(b.max, p.net),
   close |-> p.net, pair |-> p.pair, samples |-> b.samples + 1]

Folded(b, p) ==
  [ts |-> b.ts,
   min |-> IF p.net < b.min THEN p.net ELSE b.min,
   max |-> Larger(b.max, p.net),
   close |-> p.net,
   pair |-> IF p.net > b.max THEN p.pair ELSE b.pair,
   samples |-> b.samples + 1]

\* Mutant: one closed bucket too few is kept.
ClosedTight == IF current = None THEN buckets ELSE Newest(Append(buckets, current), HistCapacity - 1)

Closed == IF current = None THEN buckets ELSE Newest(Append(buckets, current), HistCapacity)

RecordPoint(p) ==
  \/ /\ current # None /\ current.ts = BucketOf(p.ts)
     /\ current' = Folded(current, p)
     /\ UNCHANGED buckets
  \/ /\ current # None /\ BucketOf(p.ts) < current.ts     \* the clock went back: drop
     /\ UNCHANGED <<current, buckets>>
  \/ /\ current # None => BucketOf(p.ts) > current.ts
     /\ buckets' = Closed
     /\ current' = Opened(p)

-----------------------------------------------------------------------------
(* Readers *)

\* history and the backfill of watch: the samples within w of the newest one.
History(w) == Kept(buffer, {k \in DOMAIN buffer : buffer[k] >= Last(buffer) - w})

NewestStart == IF current # None THEN current.ts ELSE Last(buckets).ts

\* Mutant: the bucket at the edge of the window is left out.
LongHistoryOpen(w) ==
  Kept(buckets, {k \in DOMAIN buckets : buckets[k].ts > NewestStart - w})
    \o (IF current = None THEN <<>> ELSE <<current>>)

\* long_history; there is a bucket once there was a point.
LongHistory(w) ==
  Kept(buckets, {k \in DOMAIN buckets : buckets[k].ts >= NewestStart - w})
    \o (IF current = None THEN <<>> ELSE <<current>>)

\* spread_range: the requested window, the client's and the server's limit.
RangeWindow(requested, clientWindow) ==
  LET asked == IF requested = None THEN clientWindow ELSE requested
  IN Min({asked, clientWindow, HistoryWindowMs})

-----------------------------------------------------------------------------
(* The sampler and its clocks *)

\* A period of the sampler's timer passes.
Elapse ==
  /\ due < MaxDue /\ clock + Resolution <= MaxClock
  /\ due' = due + 1 /\ clock' = clock + Resolution
  /\ UNCHANGED <<steps, buffer, buckets, current, steady, log>>

\* The wall clock is set, forwards or backwards.
SetClock ==
  /\ steps < MaxSteps /\ steps' = steps + 1
  /\ \E j \in Jumps : clock + j \in 0..MaxClock /\ clock' = clock + j
  /\ steady' = <<>>
  /\ UNCHANGED <<due, buffer, buckets, current, log>>

SteadyWith(ts) == Append(Kept(steady, {k \in DOMAIN steady : steady[k] >= ts - Window}), ts)

InOrder(ts) == log = <<>> \/ BucketOf(ts) >= Last(log).bucket

\* A tick of the sampler.  No pair and no sample: fewer than two usable venues.
\* A sample alone: the best pair is missing or beyond the sanity cap.
Sample ==
  /\ due > 0 /\ due' = due - 1
  /\ \/ UNCHANGED <<buffer, buckets, current, steady, log>>
     \/ /\ buffer' = Buffered(clock) /\ steady' = SteadyWith(clock)
        /\ \/ UNCHANGED <<buckets, current, log>>
           \/ /\ Len(log) < MaxPoints
              /\ \E n \in Nets, pair \in Pairs :
                   /\ RecordPoint([ts |-> clock, net |-> n, pair |-> pair])
                   /\ log' = IF InOrder(clock)
                             THEN Append(log, [bucket |-> BucketOf(clock), net |-> n, pair |-> pair])
                             ELSE log
  /\ UNCHANGED <<clock, steps>>

TapeNext == Elapse \/ SetClock \/ Sample

TapeSpec == TapeInit /\ [][TapeNext]_tapeVars

-----------------------------------------------------------------------------
(* What the tape promises *)

Retained == IF current = None THEN buckets ELSE Append(buckets, current)

Members(start) == {j \in DOMAIN log : log[j].bucket = start}

Exact(b) ==
  LET points == Members(b.ts)
  IN /\ \A j \in points : b.min <= log[j].net /\ log[j].net <= b.max
     /\ \E j \in points : log[j].net = b.min
     /\ \E j \in points : /\ log[j].net = b.max /\ log[j].pair = b.pair
                          /\ \A k \in points : k < j => log[k].net < b.max
     /\ \E j \in points : log[j].net = b.close /\ \A k \in points : k <= j
     /\ b.samples = Cardinality(points)

\* Every bucket aggregates exactly the points of its interval that were not
\* overtaken by a later bucket, its venues are those of the first point that
\* reached the maximum, and its close is the last point (record_point,
\* crates/spread_tape/src/lib.rs:152-200), however the clock was set.
BucketsAreExact == \A i \in DOMAIN Retained : Exact(Retained[i])

\* Whatever window /spread/range ends up with, its answer holds every bucket of
\* that window there ever was, oldest first: the count-bounded retention never
\* cuts into the time-bounded window (crates/spread_tape/src/lib.rs:88-90,
\* 109-113, 202-226; crates/api/src/rest.rs:166-174).
RangeIsComplete ==
  Retained # <<>> =>
    LET windows == UNION {{RangeWindow(requested, client) :
                             requested \in (0..HistoryWindowMs + 1) \cup {None}} :
                             client \in 0..HistoryWindowMs + 1}
        starts == {log[i].bucket : i \in DOMAIN log}
    IN \A w \in windows :
         LET answer == LongHistory(w)
         IN /\ \A j \in DOMAIN answer : \A i \in 1..(j - 1) : answer[i].ts < answer[j].ts
            /\ {answer[i].ts : i \in DOMAIN answer} = {s \in starts : \A t \in starts : s >= t - w}

\* As long as nobody sets the clock, the ring holds every sample of the window a
\* watcher may ask for, also right after a burst of missed ticks: the four extra
\* slots make up for a timer that is late (crates/spread_tape/src/lib.rs:87,
\* 117-122, 130-143).
BackfillIsComplete ==
  steady # <<>> => IsSuffix(steady, History(Window))
=============================================================================
