--------------------------- MODULE ScreenerClient ---------------------------
(***************************************************************************)
(* What the receiver of one engine's events observes.  The engine of       *)
(* ScreenerEngine runs unchanged; the history variables record the         *)
(* evaluations that went in and the events that came out, and the          *)
(* promises of the screener are stated over them.                          *)
(***************************************************************************)
EXTENDS ScreenerEngine, Integers

CONSTANT Reject   \* the verdict of an evaluation some filter rejected

ASSUME RejectAssumption == Reject \notin Nat /\ Reject # None

VARIABLES
  verdict,   \* last evaluation of an instrument: Reject, its net, or None
  told,      \* the nets reported in the instrument's open episode
  lastAge,   \* age of the instrument's last report, or None
  prevAge,   \* age of the instrument's last report but one, or None
  sent       \* sent[a]: reports of all instruments a units of time ago

histVars == <<verdict, told, lastAge, prevAge, sent>>
vars == <<engineVars, histVars>>

\* The span over which reports are counted: one rate window, newest first.
Span == 0..RateSpan - 1

HistOK == /\ verdict \in [Instruments -> Nets \cup {Reject, None}]
          /\ told \in [Instruments -> SUBSET Nets]
          /\ lastAge \in [Instruments -> Ages \cup {None}]
          /\ prevAge \in [Instruments -> Ages \cup {None}]
          /\ sent \in [Span -> Nat]

ClientTypeOK == TypeOK /\ HistOK

ClientInit == /\ Init
              /\ verdict = [i \in Instruments |-> None]
              /\ told = [i \in Instruments |-> {}]
              /\ lastAge = [i \in Instruments |-> None]
              /\ prevAge = [i \in Instruments |-> None]
              /\ sent = [a \in Span |-> 0]

\* History of one call that evaluated instrument i to v.
Observe(i, v) ==
  /\ verdict' = [verdict EXCEPT ![i] = v]
  /\ IF event' = None
     THEN /\ told' = [told EXCEPT ![i] = IF st'[i].openedAge = None THEN {} ELSE @]
          /\ UNCHANGED <<lastAge, prevAge, sent>>
     ELSE /\ told' = [told EXCEPT ![i] = @ \cup {event'.net}]
          /\ lastAge' = [lastAge EXCEPT ![i] = 0]
          /\ prevAge' = [prevAge EXCEPT ![i] = lastAge[i]]
          /\ sent' = [sent EXCEPT ![0] = @ + 1]

Rejected(i) == OnReject(i) /\ Observe(i, Reject)
Accepted(i, net) == OnSignal(i, net) /\ Observe(i, net)

Elapse == /\ Tick
          /\ lastAge' = [i \in Instruments |-> Older(lastAge[i])]
          /\ prevAge' = [i \in Instruments |-> Older(prevAge[i])]
          /\ sent' = [a \in Span |-> IF a = 0 THEN 0 ELSE sent[a - 1]]
          /\ UNCHANGED <<verdict, told>>

ClientNext == \/ Elapse
              \/ \E i \in Instruments : \/ Rejected(i)
                                        \/ \E net \in Nets : Accepted(i, net)

ClientSpec == ClientInit /\ [][ClientNext]_vars

\* The market keeps being re-evaluated as it stands, and time passes.
Reevaluate(i) == \/ verdict[i] = Reject /\ Rejected(i)
                 \/ \E net \in Nets : verdict[i] = net /\ Accepted(i, net)

FairClientSpec == /\ ClientSpec
                  /\ WF_vars(Elapse)
                  /\ \A i \in Instruments : WF_vars(Reevaluate(i))

-----------------------------------------------------------------------------
(* Safety *)

\* Hysteresis is anchored at what the client has actually been told: whenever a
\* peak is remembered, it was reported in the open episode.  No gate,
\* suppression or rate denial may move it (lib.rs:188-193, 228-233).
PeakIsReported ==
  \A i \in Instruments : st[i].peak # None => st[i].peak \in told[i]

\* An episode is closed as a whole: no peak, level or report of a closed episode
\* leaks into the next one, and the recorded level says whether the open episode
\* has been reported (lib.rs:151-164).
EpisodesAreSeparate ==
  \A i \in Instruments :
    /\ (st[i].lastLevel = None) <=> (told[i] = {})
    /\ (st[i].openedAge = None) => (told[i] = {} /\ st[i].peak = None)

\* Once an episode has reached the alert level the engine never forgets it, so
\* oscillation around the threshold cannot arm a second upgrade push
\* (lib.rs:236-242).
AlertIsLatched ==
  \A i \in Instruments :
    st[i].lastLevel = "alert" <=> \E net \in told[i] : net >= AlertNet

\* The upgrade push may ignore the cooldown, but it cannot be chained: of three
\* consecutive reports of an instrument the first and the third are at least one
\* cooldown apart, across episodes too (lib.rs:199-206).
NoBurst ==
  [][\A i \in Instruments :
       (event' # None /\ event'.inst = i) =>
          prevAge[i] = None \/ prevAge[i] >= Cooldown]_vars

\* Within one episode an instrument is reported again only when it widened by
\* more than the hysteresis step over everything already reported, or when this
\* is its info-to-alert upgrade (config.rs:145-150, lib.rs:218-226).
NoRepeat ==
  [][\A i \in Instruments :
       (event' # None /\ event'.inst = i) =>
          \/ \A net \in told[i] : event'.net > net + HystStep
          \/ event'.level = "alert" /\ \A net \in told[i] : net < AlertNet]_vars

\* The sum of the first n values of f.
Total(f, n) ==
  LET sum[k \in 0..RateSpan] == IF k = 0 THEN 0 ELSE sum[k - 1] + f[k - 1]
  IN sum[n]

\* Reports of all instruments during the last RateSpan units of time.
InSpan == Total(sent, RateSpan)

\* The cap is a tumbling window that restarts on use: a span of that length can
\* straddle two windows, so it holds at most two caps' worth (lib.rs:254-271).
AtMostTwoCaps == MaxPerMin # None => InSpan <= 2 * MaxPerMin

-----------------------------------------------------------------------------
(* Liveness *)

AboveFloor(i) == verdict[i] \notin {Reject, None} /\ verdict[i] > MinNet
AboveAlert(i) == AboveFloor(i) /\ verdict[i] >= AlertNet

\* Another instrument is reported and takes the last place of the rate window.
\* The window is one for all instruments, so whoever is evaluated first when it
\* restarts may use it up again and again.
CrowdedOut(i) == event # None /\ event.inst # i /\ rate.count = MaxPerMin

\* A spread that stays above the entry floor is eventually reported: a gate or a
\* denial delays the crossing but never consumes it.  Unless the client asked for
\* no reports at all, nothing but other instruments that use up the cap again and
\* again can hold it back for ever (lib.rs:188-193, 229-233, 254-271).
SustainedIsReported ==
  MaxPerMin # 0 =>
    \A i \in Instruments :
      <>[]AboveFloor(i) => <>[](told[i] # {}) \/ []<>CrowdedOut(i)

\* A spread that stays at the alert level is eventually notified at that level,
\* also when the episode was already reported as info, under the same proviso
\* (lib.rs:175-186, 229-242).
SustainedIsNotified ==
  MaxPerMin # 0 =>
    \A i \in Instruments :
      <>[]AboveAlert(i) => <>[](st[i].lastLevel = "alert") \/ []<>CrowdedOut(i)
=============================================================================
