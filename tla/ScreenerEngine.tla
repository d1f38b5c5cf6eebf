--------------------------- MODULE ScreenerEngine ---------------------------
(***************************************************************************)
(* One client's screening engine (crates/screener/src/lib.rs): per         *)
(* instrument it debounces episodes, gates signals by lifetime, cooldown   *)
(* and hysteresis, and caps the pushes of the whole engine per minute.     *)
(*                                                                         *)
(* A call of on_instrument is one action: a session owns its engine and    *)
(* calls it from one task.  What the call returns is the variable `event`. *)
(*                                                                         *)
(* Net spreads are natural numbers (the code's decimals only get compared  *)
(* and added).  Instants are kept as ages, the distance from `now`, which  *)
(* is all the code ever derives from them; ages stop growing at AgeCap,    *)
(* beyond every threshold they are compared with, so time is unbounded     *)
(* while the state space is finite.                                        *)
(***************************************************************************)
EXTENDS Naturals

CONSTANTS
  Instruments,
  Nets,           \* net spreads an accepted evaluation can carry
  MinNet,         \* min_net_spread_pct
  AlertNet,       \* alert_net_spread_pct
  HystStep,       \* hysteresis_step_pct
  CloseTicks,     \* episode_close_ticks
  MinLifetime,    \* min_signal_lifetime_ms
  Cooldown,       \* cooldown_ms
  MaxPerMin,      \* max_signals_per_min, None when the client sets no cap
  RateSpan,       \* the 60 seconds of allow_emit
  AgeCap,         \* bound of the model: ages above it are not told apart
  None            \* Option::None

\* ClientConfig::validate demands AlertNet >= MinNet.  An evaluation classified
\* Signal has net >= MinNet (rules.rs: BelowMinSpread is net < MinNet).
ASSUME ConfigAssumption ==
  /\ Nets \subseteq Nat
  /\ MinNet \in Nat /\ AlertNet \in Nat /\ HystStep \in Nat
  /\ AlertNet >= MinNet
  /\ \A n \in Nets : n >= MinNet
  /\ CloseTicks \in Nat
  /\ MinLifetime \in Nat /\ Cooldown \in Nat
  /\ MaxPerMin \in Nat \cup {None}
  /\ RateSpan \in Nat \ {0}

ASSUME AgeCapAssumption ==
  AgeCap \in Nat /\ AgeCap >= MinLifetime /\ AgeCap >= Cooldown /\ AgeCap >= RateSpan

VARIABLES
  st,      \* state: DashMap<Instrument, InstrState>
  rate,    \* RateWindow of the engine
  event    \* result of the last on_instrument call, None outside of one

engineVars == <<st, rate, event>>

Ages == 0..AgeCap
Levels == {"info", "alert"}

\* reject_streak only matters up to the close threshold; it is saturated there.
CloseAfter == IF CloseTicks = 0 THEN 1 ELSE CloseTicks

InstrState == [peak      : Nets \cup {None},
               openedAge : Ages \cup {None},
               emitAge   : Ages \cup {None},
               lastLevel : Levels \cup {None},
               streak    : 0..CloseAfter]

RateWindow == [age : Ages, count : Nat]

ScreenerEvent == [inst : Instruments, net : Nets, level : Levels]

\* None is a value of its own.
ASSUME NoneAssumption == None \notin Nat \cup Levels \cup ScreenerEvent

Fresh == [peak |-> None, openedAge |-> None, emitAge |-> None,
          lastLevel |-> None, streak |-> 0]

TypeOK == /\ st \in [Instruments -> InstrState]
          /\ rate \in RateWindow
          /\ event \in ScreenerEvent \cup {None}

\* DashMap entries appear on first use as InstrState::default().
Init == /\ st = [i \in Instruments |-> Fresh]
        /\ rate = [age |-> 0, count |-> 0]
        /\ event = None

-----------------------------------------------------------------------------
Older(age) == IF age = None \/ age = AgeCap THEN age ELSE age + 1

LevelOf(net) == IF net >= AlertNet THEN "alert" ELSE "info"

\* PeakState::decide, first the answer, then the peak it leaves behind.
Widens(peak, net) == net > MinNet /\ (peak # None => peak + HystStep < net)
PeakAfter(peak, net) ==
  IF net <= MinNet THEN None ELSE IF Widens(peak, net) THEN net ELSE peak

\* Mutant: an upgrade leaves the peak where it was.
EmittedPeakStale(peak, net) == IF peak = None \/ Widens(peak, net) THEN net ELSE peak

\* The peak an emitted tick leaves: when the upgrade overrode a Suppress, it is
\* forced up to the reported net.
EmittedPeak(peak, net) ==
  LET p == PeakAfter(peak, net)
  IN  IF p = None \/ p < net THEN net ELSE p

\* allow_emit: the window rolls when a full span has passed, and only on use.
Rolled == IF rate.age >= RateSpan THEN [age |-> 0, count |-> 0] ELSE rate
\* Mutant: one push too many per window.
RateAllowsOneMore == MaxPerMin # None => Rolled.count <= MaxPerMin
RateAllows == MaxPerMin # None => Rolled.count < MaxPerMin
RateCharged ==
  IF MaxPerMin = None THEN rate ELSE [Rolled EXCEPT !.count = @ + 1]

-----------------------------------------------------------------------------
\* Mutant: the episode closes one rejection late.
OnRejectLate(i) ==
  /\ st' = [st EXCEPT ![i] =
              IF st[i].streak = CloseAfter
              THEN [Fresh EXCEPT !.emitAge = st[i].emitAge, !.streak = CloseAfter + 1]
              ELSE [@ EXCEPT !.streak = @ + 1]]
  /\ event' = None
  /\ UNCHANGED rate

\* Mutant: closing the episode keeps its level.
OnRejectKeepsLevel(i) ==
  LET streak == IF st[i].streak < CloseAfter THEN st[i].streak + 1 ELSE CloseAfter
  IN  /\ st' = [st EXCEPT ![i] =
                  IF streak = CloseAfter
                  THEN [@ EXCEPT !.peak = None, !.openedAge = None, !.streak = streak]
                  ELSE [@ EXCEPT !.streak = streak]]
      /\ event' = None
      /\ UNCHANGED rate

\* Mutant: closing the episode forgets when it was last reported.
OnRejectForgetsReport(i) ==
  LET streak == IF st[i].streak < CloseAfter THEN st[i].streak + 1 ELSE CloseAfter
  IN  /\ st' = [st EXCEPT ![i] = IF streak = CloseAfter
                                 THEN [Fresh EXCEPT !.streak = streak]
                                 ELSE [@ EXCEPT !.streak = streak]]
      /\ event' = None
      /\ UNCHANGED rate

\* The evaluation was rejected by a filter.
OnReject(i) ==
  LET streak == IF st[i].streak < CloseAfter THEN st[i].streak + 1 ELSE CloseAfter
  IN  /\ st' = [st EXCEPT ![i] =
                  IF streak = CloseAfter
                  THEN [Fresh EXCEPT !.emitAge = st[i].emitAge, !.streak = streak]
                  ELSE [@ EXCEPT !.streak = streak]]
      /\ event' = None
      /\ UNCHANGED rate

\* What every accepted evaluation does first: end the rejection streak and open
\* the episode if none is open.
Seen(i) == [st[i] EXCEPT !.streak = 0,
                         !.openedAge = IF @ = None THEN 0 ELSE @]

\* Mutant: reaching the alert level is no reason to push.
UpgradeIgnored(i, net) == FALSE

Upgrade(i, net) == LevelOf(net) = "alert" /\ st[i].lastLevel = "info"

\* The two gates that run before hysteresis.
Ripe(i, net) ==
  /\ Seen(i).openedAge >= MinLifetime
  /\ \/ Upgrade(i, net)
     \/ st[i].emitAge # None => st[i].emitAge >= Cooldown

\* Mutant: hysteresis runs before the gates, so a held tick consumes the crossing.
OnHeldConsuming(i, net) ==
  /\ ~Ripe(i, net)
  /\ st' = [st EXCEPT ![i] = [Seen(i) EXCEPT !.peak = PeakAfter(@, net)]]
  /\ event' = None
  /\ UNCHANGED rate

\* A gate holds the signal back: hysteresis is not consulted.
OnHeld(i, net) ==
  /\ ~Ripe(i, net)
  /\ st' = [st EXCEPT ![i] = Seen(i)]
  /\ event' = None
  /\ UNCHANGED rate

\* Hysteresis suppresses the signal; at net = MinNet it forgets the peak.
OnSuppressed(i, net) ==
  /\ Ripe(i, net)
  /\ ~Widens(st[i].peak, net) /\ ~Upgrade(i, net)
  /\ st' = [st EXCEPT ![i] = [Seen(i) EXCEPT !.peak = PeakAfter(@, net)]]
  /\ event' = None
  /\ UNCHANGED rate

\* Mutant: a denied tick consumes the crossing.
OnDeniedConsuming(i, net) ==
  /\ Ripe(i, net)
  /\ Widens(st[i].peak, net) \/ Upgrade(i, net)
  /\ ~RateAllows
  /\ st' = [st EXCEPT ![i] = [Seen(i) EXCEPT !.peak = EmittedPeak(@, net)]]
  /\ rate' = Rolled
  /\ event' = None

\* The rate cap denies the push: the peak goes back to what it was.
OnDenied(i, net) ==
  /\ Ripe(i, net)
  /\ Widens(st[i].peak, net) \/ Upgrade(i, net)
  /\ ~RateAllows
  /\ st' = [st EXCEPT ![i] = Seen(i)]
  /\ rate' = Rolled
  /\ event' = None

\* Mutant: the recorded level follows the last report down.
OnPushDowngrading(i, net) ==
  /\ Ripe(i, net)
  /\ Widens(st[i].peak, net) \/ Upgrade(i, net)
  /\ RateAllows
  /\ st' = [st EXCEPT ![i] = [Seen(i) EXCEPT !.peak = EmittedPeak(@, net),
                                             !.emitAge = 0,
                                             !.lastLevel = LevelOf(net)]]
  /\ rate' = RateCharged
  /\ event' = [inst |-> i, net |-> net, level |-> LevelOf(net)]

\* The signal is pushed.
OnPush(i, net) ==
  /\ Ripe(i, net)
  /\ Widens(st[i].peak, net) \/ Upgrade(i, net)
  /\ RateAllows
  /\ st' = [st EXCEPT ![i] =
              [Seen(i) EXCEPT !.peak = EmittedPeak(@, net),
                              !.emitAge = 0,
                              !.lastLevel = IF @ = "alert" THEN @ ELSE LevelOf(net)]]
  /\ rate' = RateCharged
  /\ event' = [inst |-> i, net |-> net, level |-> LevelOf(net)]

OnSignal(i, net) == \/ OnHeld(i, net)
                    \/ OnSuppressed(i, net)
                    \/ OnDenied(i, net)
                    \/ OnPush(i, net)

\* Time passes between two calls; evaluations that find no candidate pair
\* (evaluate returned None) change nothing and are such time too.
Tick ==
  /\ st' = [i \in Instruments |-> [st[i] EXCEPT !.openedAge = Older(@),
                                                !.emitAge = Older(@)]]
  /\ rate' = [rate EXCEPT !.age = Older(@)]
  /\ event' = None

Next == \/ Tick
        \/ \E i \in Instruments : OnReject(i) \/ \E net \in Nets : OnSignal(i, net)

Spec == Init /\ [][Next]_engineVars
=============================================================================
