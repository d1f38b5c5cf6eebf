------------------------ MODULE ScreenerClientProofs ------------------------
(***************************************************************************)
(* Proofs about ScreenerClient, for every set of instruments and every     *)
(* configuration ClientConfig::validate accepts, provided its hysteresis   *)
(* step is not negative, which validate does not look at.                  *)
(***************************************************************************)
EXTENDS ScreenerClient, TLAPS, WellFoundedInduction, FiniteSetTheorems

(* The inductive invariant, one instrument at a time: the client-visible    *)
(* promises, plus the facts about ages NoBurst rests on.  The engine's      *)
(* timestamp is the age of the last report, across episodes.  An instrument *)
(* whose episode is at level info got there by a push that waited out the   *)
(* cooldown, so its last report but one is old enough for an upgrade.       *)
Sound(i) ==
  /\ st[i].peak # None => st[i].peak \in told[i]
  /\ (st[i].lastLevel = None) <=> (told[i] = {})
  /\ (st[i].openedAge = None) => (told[i] = {} /\ st[i].peak = None)
  /\ st[i].lastLevel = "alert" <=> \E net \in told[i] : net >= AlertNet
  /\ st[i].lastLevel = "info" => (prevAge[i] = None \/ prevAge[i] >= Cooldown)
  /\ lastAge[i] = st[i].emitAge
  /\ prevAge[i] # None => (st[i].emitAge # None /\ prevAge[i] >= st[i].emitAge)

IInv == ClientTypeOK /\ \A i \in Instruments : Sound(i)

-----------------------------------------------------------------------------
(* Ages *)

\* An age stays an age as time passes and never decreases.
LEMMA OlderType ==
  ASSUME NEW age \in Ages \cup {None}
  PROVE  /\ Older(age) \in Ages \cup {None}
         /\ Older(age) = None <=> age = None
         /\ age # None => Older(age) >= age
  BY NoneAssumption, AgeCapAssumption DEF Older, Ages

\* Time preserves the order of two ages.
LEMMA OlderMonotone ==
  ASSUME NEW a \in Ages, NEW b \in Ages, a >= b
  PROVE  Older(a) >= Older(b)
  BY NoneAssumption, AgeCapAssumption DEF Older, Ages

LEMMA CloseAfterType == CloseAfter \in Nat /\ CloseAfter >= 1
  BY ConfigAssumption DEF CloseAfter

-----------------------------------------------------------------------------
(* The state machine stays within its types. *)

LEMMA InitSound == ClientInit => IInv
  <1> SUFFICES ASSUME ClientInit PROVE IInv
    OBVIOUS
  <1>1. ClientTypeOK
    BY AgeCapAssumption, ConfigAssumption, CloseAfterType
    DEF ClientInit, Init, ClientTypeOK, TypeOK, HistOK, InstrState, RateWindow, Fresh, Ages, Span
  <1>2. \A i \in Instruments : Sound(i)
    BY NoneAssumption DEF ClientInit, Init, Sound, Fresh, Levels
  <1> QED BY <1>1, <1>2 DEF IInv

LEMMA ElapseTypes == ClientTypeOK /\ Elapse => ClientTypeOK'
  <1> SUFFICES ASSUME ClientTypeOK, Elapse PROVE ClientTypeOK'
    OBVIOUS
  <1>1. st' \in [Instruments -> InstrState]
    BY ZenonT(30), OlderType DEF ClientTypeOK, TypeOK, Elapse, Tick, InstrState
  <1>2. rate' \in RateWindow
    BY OlderType, NoneAssumption DEF ClientTypeOK, TypeOK, Elapse, Tick, RateWindow, Ages
  <1>3. /\ prevAge' \in [Instruments -> Ages \cup {None}]
        /\ lastAge' \in [Instruments -> Ages \cup {None}]
    BY OlderType DEF ClientTypeOK, HistOK, Elapse
  <1>4. sent' \in [Span -> Nat]
    BY ConfigAssumption DEF ClientTypeOK, HistOK, Elapse, Span
  <1> QED BY <1>1, <1>2, <1>3, <1>4 DEF ClientTypeOK, TypeOK, HistOK, Elapse, Tick

\* Opening the episode of an accepted signal.
LEMMA SeenType ==
  ASSUME TypeOK, NEW i \in Instruments
  PROVE  /\ Seen(i) \in InstrState
         /\ Seen(i).peak = st[i].peak /\ Seen(i).emitAge = st[i].emitAge
         /\ Seen(i).lastLevel = st[i].lastLevel /\ Seen(i).openedAge \in Ages
  <1> DEFINE opened == IF st[i].openedAge = None THEN 0 ELSE st[i].openedAge
  <1>1. st[i] \in InstrState
    BY DEF TypeOK
  <1>2. 0 \in Ages /\ 0 \in 0..CloseAfter
    BY CloseAfterType, AgeCapAssumption DEF Ages
  <1>3. opened \in Ages
    BY <1>1, <1>2 DEF InstrState
  <1>4. Seen(i) = [st[i] EXCEPT !.streak = 0, !.openedAge = opened]
    BY DEF Seen
  <1> QED BY <1>1, <1>2, <1>3, <1>4 DEF InstrState

LEMMA PeakType ==
  ASSUME NEW peak \in Nets \cup {None}, NEW net \in Nets
  PROVE  /\ PeakAfter(peak, net) \in {None, peak, net}
         /\ EmittedPeak(peak, net) \in {peak, net} \ {None}
  BY NoneAssumption, ConfigAssumption DEF PeakAfter, EmittedPeak, Widens

LEMMA RateType ==
  ASSUME rate \in RateWindow
  PROVE  Rolled \in RateWindow /\ RateCharged \in RateWindow
  BY AgeCapAssumption DEF Rolled, RateCharged, RateWindow, Ages

LEMMA SignalTypes ==
  ASSUME TypeOK, NEW i \in Instruments, NEW net \in Nets, OnSignal(i, net)
  PROVE  TypeOK'
  <1> USE DEF TypeOK
  <1>1. CASE OnHeld(i, net)
    BY <1>1, SeenType DEF OnHeld
  <1>2. CASE OnSuppressed(i, net)
    <2>1. [Seen(i) EXCEPT !.peak = PeakAfter(@, net)] \in InstrState
      BY SeenType, PeakType DEF InstrState
    <2> QED BY <1>2, <2>1 DEF OnSuppressed
  <1>3. CASE OnDenied(i, net)
    BY <1>3, SeenType, RateType DEF OnDenied
  <1>4. CASE OnPush(i, net)
    <2>1. [Seen(i) EXCEPT !.peak = EmittedPeak(@, net),
                          !.emitAge = 0,
                          !.lastLevel = IF @ = "alert" THEN @ ELSE LevelOf(net)] \in InstrState
      <3>1. EmittedPeak(Seen(i).peak, net) \in Nets \cup {None}
        BY SeenType, PeakType DEF InstrState
      <3>2. 0 \in Ages
        BY AgeCapAssumption DEF Ages
      <3>3. LevelOf(net) \in Levels
        BY DEF LevelOf, Levels
      <3> QED BY SeenType, <3>1, <3>2, <3>3 DEF InstrState
    <2>2. [inst |-> i, net |-> net, level |-> LevelOf(net)] \in ScreenerEvent
      BY DEF ScreenerEvent, LevelOf, Levels
    <2> QED BY <1>4, <2>1, <2>2, RateType DEF OnPush
  <1> QED BY <1>1, <1>2, <1>3, <1>4 DEF OnSignal

LEMMA RejectTypes ==
  ASSUME TypeOK, NEW i \in Instruments, OnReject(i)
  PROVE  TypeOK'
  <1> DEFINE streak == IF st[i].streak < CloseAfter THEN st[i].streak + 1 ELSE CloseAfter
  <1>1. streak \in 0..CloseAfter
    BY CloseAfterType DEF TypeOK, InstrState
  <1> HIDE DEF streak
  <1>2. /\ [Fresh EXCEPT !.emitAge = st[i].emitAge, !.streak = streak] \in InstrState
        /\ [st[i] EXCEPT !.streak = streak] \in InstrState
    BY <1>1 DEF TypeOK, InstrState, Fresh
  <1>3. st' = [st EXCEPT ![i] =
                IF streak = CloseAfter
                THEN [Fresh EXCEPT !.emitAge = st[i].emitAge, !.streak = streak]
                ELSE [@ EXCEPT !.streak = streak]]
    BY DEF OnReject, streak
  <1> QED BY <1>2, <1>3 DEF TypeOK, OnReject

LEMMA ObserveTypes ==
  ASSUME ClientTypeOK, TypeOK', NEW i \in Instruments,
         NEW v \in Nets \cup {Reject}, Observe(i, v)
  PROVE  ClientTypeOK'
  <1> USE DEF ClientTypeOK, HistOK
  <1>1. verdict' \in [Instruments -> Nets \cup {Reject, None}]
    BY DEF Observe
  <1>2. CASE event' = None
    BY <1>1, <1>2 DEF Observe
  <1>3. CASE event' # None
    <2>1. event'.net \in Nets
      BY <1>3 DEF TypeOK, ScreenerEvent
    <2>2. 0 \in Ages /\ lastAge[i] \in Ages \cup {None}
      BY AgeCapAssumption DEF Ages
    <2>3. sent' \in [Span -> Nat]
      BY <1>3 DEF Observe
    <2> QED BY <1>1, <1>3, <2>1, <2>2, <2>3 DEF Observe
  <1> QED BY <1>2, <1>3

LEMMA NextTypes == ClientTypeOK /\ [ClientNext]_vars => ClientTypeOK'
  <1> SUFFICES ASSUME ClientTypeOK, [ClientNext]_vars PROVE ClientTypeOK'
    OBVIOUS
  <1>1. CASE Elapse
    BY <1>1, ElapseTypes
  <1>2. ASSUME NEW i \in Instruments, Rejected(i) PROVE ClientTypeOK'
    BY <1>2, RejectTypes, ObserveTypes DEF Rejected, ClientTypeOK
  <1>3. ASSUME NEW i \in Instruments, NEW net \in Nets, Accepted(i, net) PROVE ClientTypeOK'
    BY <1>3, SignalTypes, ObserveTypes DEF Accepted, ClientTypeOK
  <1>4. CASE UNCHANGED vars
    BY <1>4 DEF vars, engineVars, histVars, ClientTypeOK, TypeOK, HistOK
  <1> QED BY <1>1, <1>2, <1>3, <1>4 DEF ClientNext

-----------------------------------------------------------------------------
(* Every step keeps every instrument sound. *)

LEMMA ElapseSound ==
  ASSUME IInv, Elapse, NEW i \in Instruments
  PROVE  Sound(i)'
  <1>1. /\ st'[i].peak = st[i].peak /\ st'[i].lastLevel = st[i].lastLevel
        /\ st'[i].openedAge = Older(st[i].openedAge)
        /\ st'[i].emitAge = Older(st[i].emitAge)
        /\ prevAge'[i] = Older(prevAge[i]) /\ lastAge'[i] = Older(lastAge[i])
        /\ told'[i] = told[i]
    BY DEF IInv, ClientTypeOK, TypeOK, HistOK, InstrState, Elapse, Tick
  <1>2. /\ st[i].openedAge \in Ages \cup {None} /\ st[i].emitAge \in Ages \cup {None}
        /\ prevAge[i] \in Ages \cup {None}
    BY DEF IInv, ClientTypeOK, TypeOK, HistOK, InstrState
  <1>3. Sound(i)
    BY DEF IInv
  <1>4. st[i].openedAge # None => Older(st[i].openedAge) # None
    BY <1>2, OlderType
  <1>5. prevAge[i] # None => prevAge[i] \in Nat /\ Older(prevAge[i]) \in Nat
                               /\ Older(prevAge[i]) >= prevAge[i]
    BY <1>2, OlderType, NoneAssumption DEF Ages, Older
  <1>6. st[i].lastLevel = "info" => prevAge'[i] = None \/ prevAge'[i] >= Cooldown
    BY <1>1, <1>2, <1>3, <1>5, ConfigAssumption, OlderType DEF Sound
  <1>7. prevAge'[i] # None => st'[i].emitAge # None /\ prevAge'[i] >= st'[i].emitAge
    <2> SUFFICES ASSUME prevAge'[i] # None
                 PROVE  st'[i].emitAge # None /\ prevAge'[i] >= st'[i].emitAge
      OBVIOUS
    <2>1. prevAge[i] # None /\ st[i].emitAge # None /\ prevAge[i] >= st[i].emitAge
      BY <1>1, <1>2, <1>3, OlderType DEF Sound
    <2>2. prevAge[i] \in Ages /\ st[i].emitAge \in Ages
      BY <2>1, <1>2
    <2> QED BY <1>1, <2>1, <2>2, OlderMonotone, OlderType
  <1> QED BY <1>1, <1>3, <1>4, <1>6, <1>7 DEF Sound

LEMMA OthersSound ==
  ASSUME IInv, NEW i \in Instruments, NEW j \in Instruments, i # j,
         NEW v, Observe(i, v), st'[j] = st[j]
  PROVE  Sound(j)'
  <1>1. told'[j] = told[j] /\ prevAge'[j] = prevAge[j] /\ lastAge'[j] = lastAge[j]
    BY DEF Observe, IInv, ClientTypeOK, HistOK
  <1>2. Sound(j)
    BY DEF IInv
  <1> QED BY <1>1, <1>2 DEF Sound

LEMMA RejectedSound ==
  ASSUME IInv, NEW i \in Instruments, Rejected(i)
  PROVE  \A j \in Instruments : Sound(j)'
  <1> USE DEF IInv, ClientTypeOK, TypeOK, HistOK
  <1>1. /\ event' = None /\ prevAge'[i] = prevAge[i] /\ lastAge'[i] = lastAge[i]
        /\ told'[i] = IF st'[i].openedAge = None THEN {} ELSE told[i]
    BY DEF Rejected, OnReject, Observe
  <1>2. Sound(i)'
    <2>1. \/ /\ st'[i].peak = None /\ st'[i].openedAge = None
             /\ st'[i].lastLevel = None /\ st'[i].emitAge = st[i].emitAge
          \/ /\ st'[i].peak = st[i].peak /\ st'[i].openedAge = st[i].openedAge
             /\ st'[i].lastLevel = st[i].lastLevel /\ st'[i].emitAge = st[i].emitAge
      BY DEF Rejected, OnReject, Fresh, InstrState
    <2>2. Sound(i)
      OBVIOUS
    <2> QED BY <1>1, <2>1, <2>2, NoneAssumption DEF Sound, Levels
  <1>3. ASSUME NEW j \in Instruments, j # i PROVE Sound(j)'
    <2>1. st'[j] = st[j]
      BY <1>3 DEF Rejected, OnReject
    <2> QED BY <1>3, <2>1, OthersSound DEF Rejected
  <1> QED BY <1>2, <1>3

\* A call that returns nothing leaves the episode's reports alone.
LEMMA QuietSound ==
  ASSUME IInv, NEW i \in Instruments, NEW net \in Nets, Observe(i, net), event' = None,
         st' = [st EXCEPT ![i] = [Seen(i) EXCEPT !.peak = st'[i].peak]],
         st'[i].peak \in {None, st[i].peak}
  PROVE  Sound(i)'
  <1>1. /\ st'[i].openedAge \in Ages /\ st'[i].openedAge # None
        /\ st'[i].emitAge = st[i].emitAge
        /\ st'[i].lastLevel = st[i].lastLevel
    BY SeenType, NoneAssumption DEF IInv, ClientTypeOK, TypeOK, InstrState, Ages
  <1>2. told'[i] = told[i] /\ prevAge'[i] = prevAge[i] /\ lastAge'[i] = lastAge[i]
    BY <1>1 DEF IInv, ClientTypeOK, HistOK, Observe
  <1>3. Sound(i)
    BY DEF IInv
  <1> QED BY <1>1, <1>2, <1>3 DEF Sound

LEMMA PushSound ==
  ASSUME IInv, NEW i \in Instruments, NEW net \in Nets, Observe(i, net), OnPush(i, net)
  PROVE  /\ Sound(i)'
         /\ prevAge'[i] = None \/ prevAge'[i] >= Cooldown \/ Upgrade(i, net)
  <1> USE DEF IInv, ClientTypeOK
  <1>1. event' # None /\ event'.net = net
    <2>1. event' = [inst |-> i, net |-> net, level |-> LevelOf(net)]
      BY DEF OnPush
    <2>2. event' \in ScreenerEvent
      BY <2>1 DEF ScreenerEvent, Levels, LevelOf
    <2> QED BY <2>1, <2>2, NoneAssumption
  <1>2. /\ st'[i].peak = EmittedPeak(st[i].peak, net)
        /\ st'[i].emitAge = 0
        /\ st'[i].openedAge \in Ages
        /\ st'[i].lastLevel = IF st[i].lastLevel = "alert" THEN "alert" ELSE LevelOf(net)
    BY SeenType DEF OnPush, TypeOK, InstrState
  <1>3. /\ told'[i] = told[i] \cup {net}
        /\ prevAge'[i] = st[i].emitAge /\ lastAge'[i] = st'[i].emitAge
    BY <1>1, <1>2 DEF Observe, HistOK, Sound
  <1>4. Sound(i) /\ told[i] \subseteq Nat
    BY ConfigAssumption DEF HistOK
  <1>5. st[i].peak \in Nets \cup {None} /\ st[i].emitAge \in Ages \cup {None}
    BY DEF TypeOK, InstrState
  <1>6. st'[i].peak \in told'[i]
    BY <1>2, <1>3, <1>4, <1>5, PeakType DEF Sound
  <1>7. st'[i].lastLevel \in Levels /\ told'[i] # {}
    BY <1>2, <1>3 DEF Levels, LevelOf
  <1>8. st'[i].lastLevel = "alert" <=> \E n \in told'[i] : n >= AlertNet
    BY <1>2, <1>3, <1>4 DEF Sound, LevelOf
  <1>9. st[i].emitAge = None \/ st[i].emitAge >= Cooldown \/ Upgrade(i, net)
    BY DEF OnPush, Ripe
  <1>10. st'[i].lastLevel = "info" => ~Upgrade(i, net)
    BY <1>2 DEF Upgrade
  <1>11. prevAge'[i] # None => prevAge'[i] >= st'[i].emitAge
    BY <1>2, <1>3, <1>5 DEF Ages
  <1>12. st'[i].emitAge # None /\ st'[i].openedAge # None /\ st'[i].lastLevel # None
    BY <1>2, <1>7, NoneAssumption DEF Ages, Levels
  <1> QED
    BY <1>3, <1>6, <1>7, <1>8, <1>9, <1>10, <1>11, <1>12 DEF Sound

LEMMA AcceptedSound ==
  ASSUME IInv, NEW i \in Instruments, NEW net \in Nets, Accepted(i, net)
  PROVE  \A j \in Instruments : Sound(j)'
  <1> USE DEF IInv, ClientTypeOK, TypeOK
  <1>1. Observe(i, net)
    BY DEF Accepted
  <1>2. CASE OnPush(i, net)
    BY <1>1, <1>2, PushSound, OthersSound DEF OnPush
  <1>3. CASE ~OnPush(i, net)
    <2>1. /\ event' = None
          /\ \/ st' = [st EXCEPT ![i] = Seen(i)]
             \/ st' = [st EXCEPT ![i] = [Seen(i) EXCEPT !.peak = PeakAfter(@, net)]]
                /\ ~Widens(st[i].peak, net)
      BY <1>3 DEF Accepted, OnSignal, OnHeld, OnSuppressed, OnDenied
    <2>2. st'[i].peak \in {None, st[i].peak}
      BY <2>1, SeenType DEF PeakAfter, InstrState
    <2>3. st' = [st EXCEPT ![i] = [Seen(i) EXCEPT !.peak = st'[i].peak]]
      BY <2>1, SeenType DEF InstrState
    <2>4. Sound(i)'
      BY <1>1, <2>1, <2>2, <2>3, QuietSound
    <2>5. ASSUME NEW j \in Instruments, j # i PROVE Sound(j)'
      BY <1>1, <2>1, <2>5, OthersSound
    <2> QED BY <2>4, <2>5
  <1> QED BY <1>2, <1>3

LEMMA NextSound == IInv /\ [ClientNext]_vars => IInv'
  <1> SUFFICES ASSUME IInv, [ClientNext]_vars PROVE IInv'
    OBVIOUS
  <1>1. ClientTypeOK'
    BY NextTypes DEF IInv
  <1>2. \A j \in Instruments : Sound(j)'
    <2>1. CASE Elapse
      BY <2>1, ElapseSound
    <2>2. ASSUME NEW i \in Instruments, Rejected(i) PROVE \A j \in Instruments : Sound(j)'
      BY <2>2, RejectedSound
    <2>3. ASSUME NEW i \in Instruments, NEW net \in Nets, Accepted(i, net)
          PROVE  \A j \in Instruments : Sound(j)'
      BY <2>3, AcceptedSound
    <2>4. CASE UNCHANGED vars
      BY <2>4 DEF vars, engineVars, histVars, IInv, Sound
    <2> QED BY <2>1, <2>2, <2>3, <2>4 DEF ClientNext
  <1> QED BY <1>1, <1>2 DEF IInv

-----------------------------------------------------------------------------
(* Theorems *)

\* The inductive invariant holds throughout.
THEOREM Inductive == ClientSpec => []IInv
  BY InitSound, NextSound, PTL DEF ClientSpec

\* Engine and history stay within their types.
THEOREM TypeCorrect == ClientSpec => []ClientTypeOK
  <1>1. IInv => ClientTypeOK
    BY DEF IInv
  <1> QED BY <1>1, Inductive, PTL

\* For every configuration, hysteresis is anchored at a reported spread: no gate,
\* suppression or rate denial consumes a crossing the client was not told of.
THEOREM PeakAnchored == ClientSpec => []PeakIsReported
  <1>1. IInv => PeakIsReported
    BY DEF IInv, Sound, PeakIsReported
  <1> QED BY <1>1, Inductive, PTL

\* For every configuration, no state of a closed episode reaches the next one.
THEOREM EpisodesSeparate == ClientSpec => []EpisodesAreSeparate
  <1>1. IInv => EpisodesAreSeparate
    BY DEF IInv, Sound, EpisodesAreSeparate
  <1> QED BY <1>1, Inductive, PTL

\* For every configuration, an episode is at level alert exactly when an alert
\* has been reported in it.
THEOREM AlertLatched == ClientSpec => []AlertIsLatched
  <1>1. IInv => AlertIsLatched
    BY DEF IInv, Sound, AlertIsLatched
  <1> QED BY <1>1, Inductive, PTL

\* Who was reported when a call returned an event.
LEMMA EventIsPush ==
  ASSUME [ClientNext]_vars, vars' # vars, event' # None
  PROVE  \E i \in Instruments, net \in Nets :
            OnPush(i, net) /\ Observe(i, net) /\ event'.inst = i /\ event'.net = net
  <1>1. PICK i \in Instruments : Rejected(i) \/ \E net \in Nets : Accepted(i, net)
    BY DEF ClientNext, Elapse, Tick
  <1>2. PICK net \in Nets : OnPush(i, net) /\ Observe(i, net)
    BY <1>1 DEF Rejected, OnReject, Accepted, OnSignal, OnHeld, OnSuppressed, OnDenied
  <1> QED BY <1>2 DEF OnPush

\* For every configuration, three consecutive reports of an instrument span at
\* least one cooldown, although the upgrade push ignores it.
THEOREM Spacing == ClientSpec => NoBurst
  <1> DEFINE P == \A i \in Instruments : (event' # None /\ event'.inst = i) =>
                     prevAge[i] = None \/ prevAge[i] >= Cooldown
  <1>1. IInv /\ [ClientNext]_vars => [P]_vars
    <2> SUFFICES ASSUME IInv, [ClientNext]_vars, vars' # vars, event' # None,
                        NEW i \in Instruments, event'.inst = i, prevAge[i] # None
                 PROVE  prevAge[i] >= Cooldown
      OBVIOUS
    <2>1. PICK net \in Nets : OnPush(i, net)
      BY EventIsPush
    <2>2. st[i].emitAge # None => st[i].emitAge >= Cooldown \/ Upgrade(i, net)
      BY <2>1 DEF OnPush, Ripe
    <2>3. prevAge[i] \in Nat /\ st[i].emitAge \in Nat \cup {None}
      BY DEF IInv, ClientTypeOK, TypeOK, HistOK, InstrState, Ages
    <2>4. Sound(i)
      BY DEF IInv
    <2> QED BY <2>2, <2>3, <2>4, ConfigAssumption DEF Sound, Upgrade
  <1> HIDE DEF P
  <1>2. ClientSpec => [][P]_vars
    BY <1>1, Inductive, PTL DEF ClientSpec
  <1> QED BY <1>2 DEF P, NoBurst

-----------------------------------------------------------------------------
(* No repeat without widening, when signals stay strictly above the floor *)

\* The peak is the top of everything reported in the episode.
PeakIsTop == \A i \in Instruments :
  told[i] # {} => st[i].peak # None /\ \A net \in told[i] : net <= st[i].peak

LEMMA PeakIsTopStep ==
  ASSUME \A n \in Nets : n > MinNet, IInv, PeakIsTop, [ClientNext]_vars
  PROVE  PeakIsTop'
  <1> USE DEF IInv, ClientTypeOK, TypeOK, HistOK, PeakIsTop
  <1>1. CASE Elapse
    BY <1>1 DEF Elapse, Tick, InstrState
  <1>2. CASE UNCHANGED vars
    BY <1>2 DEF vars, engineVars, histVars
  <1>3. ASSUME NEW i \in Instruments, Rejected(i) PROVE PeakIsTop'
    <2>1. told'[i] = {} \/ (told'[i] = told[i] /\ st'[i].peak = st[i].peak)
      BY <1>3 DEF Rejected, OnReject, Observe, Fresh, InstrState
    <2> QED BY <1>3, <2>1 DEF Rejected, OnReject, Observe
  <1>4. ASSUME NEW i \in Instruments, NEW net \in Nets, Accepted(i, net) PROVE PeakIsTop'
    <2>1. CASE OnPush(i, net)
      <3>1. event' # None /\ event'.net = net
        BY <1>4, <2>1, NoneAssumption DEF OnPush, ScreenerEvent, Levels, LevelOf
      <3>2. told'[i] = told[i] \cup {net}
        BY <1>4, <3>1 DEF Accepted, Observe
      <3>3. st'[i].peak = EmittedPeak(st[i].peak, net)
        BY <2>1, SeenType DEF OnPush, InstrState
      <3>4. st[i].peak \in Nat \cup {None} /\ told[i] \subseteq Nat /\ net \in Nat /\ net > MinNet
        BY ConfigAssumption DEF InstrState
      <3>5. st'[i].peak \in Nat /\ st'[i].peak >= net /\ (st[i].peak # None => st'[i].peak >= st[i].peak)
        BY <3>3, <3>4, ConfigAssumption, NoneAssumption DEF EmittedPeak, PeakAfter, Widens
      <3>6. \A n \in told'[i] : n <= st'[i].peak
        BY <3>2, <3>4, <3>5
      <3>7. st'[i].peak # None
        BY <3>5, NoneAssumption
      <3> QED BY <1>4, <2>1, <3>6, <3>7 DEF Accepted, Observe, OnPush
    <2>2. CASE ~OnPush(i, net)
      <3>1. /\ event' = None
            /\ \A j \in Instruments : j # i => st'[j] = st[j]
            /\ st'[i].peak = st[i].peak /\ st'[i].openedAge # None
        BY <1>4, <2>2, SeenType, NoneAssumption, ConfigAssumption
        DEF Accepted, OnSignal, OnHeld, OnSuppressed, OnDenied, PeakAfter, Widens, InstrState, Ages
      <3> QED BY <1>4, <3>1 DEF Accepted, Observe
    <2> QED BY <2>1, <2>2
  <1> QED BY <1>1, <1>2, <1>3, <1>4 DEF ClientNext

\* With signals strictly above the floor, an episode is reported again only when
\* it widened past the hysteresis step, or for its single upgrade.  The premise
\* is needed: at net = min_net_spread_pct the code forgets the peak.
THEOREM WideningOnly ==
  ASSUME \A n \in Nets : n > MinNet
  PROVE  ClientSpec => NoRepeat
  <1> DEFINE P == \A i \in Instruments : (event' # None /\ event'.inst = i) =>
          \/ \A net \in told[i] : event'.net > net + HystStep
          \/ event'.level = "alert" /\ \A net \in told[i] : net < AlertNet
  <1>1. ClientInit => PeakIsTop
    BY DEF ClientInit, PeakIsTop
  <1>2. IInv /\ PeakIsTop /\ [ClientNext]_vars => PeakIsTop'
    BY PeakIsTopStep
  <1>3. IInv /\ PeakIsTop /\ [ClientNext]_vars => [P]_vars
    <2> SUFFICES ASSUME IInv, PeakIsTop, [ClientNext]_vars, vars' # vars, event' # None,
                        NEW i \in Instruments, event'.inst = i
                 PROVE  \/ \A net \in told[i] : event'.net > net + HystStep
                        \/ event'.level = "alert" /\ \A net \in told[i] : net < AlertNet
      OBVIOUS
    <2>1. PICK net \in Nets : OnPush(i, net) /\ event'.net = net
      BY EventIsPush
    <2>2. event'.level = LevelOf(net)
      BY <2>1 DEF OnPush
    <2>3. /\ Sound(i) /\ told[i] \subseteq Nat /\ net \in Nat
          /\ st[i].peak \in Nat \cup {None}
      BY ConfigAssumption DEF IInv, ClientTypeOK, TypeOK, HistOK, InstrState
    <2>4. CASE Upgrade(i, net)
      BY <2>2, <2>3, <2>4, ConfigAssumption DEF Upgrade, Sound
    <2>5. CASE Widens(st[i].peak, net)
      <3>1. \A n \in told[i] : st[i].peak # None /\ n <= st[i].peak
        BY DEF PeakIsTop
      <3>2. \A n \in told[i] : st[i].peak \in Nat /\ n \in Nat /\ net > n + HystStep
        BY <2>3, <2>5, <3>1, ConfigAssumption DEF Widens
      <3> QED BY <2>1, <3>2
    <2> QED BY <2>1, <2>4, <2>5 DEF OnPush
  <1> HIDE DEF P
  <1>4. ClientSpec => [][P]_vars
    BY <1>1, <1>2, <1>3, Inductive, PTL DEF ClientSpec
  <1> QED BY <1>4 DEF P, NoRepeat

-----------------------------------------------------------------------------
(* Two caps *)

\* An induction over numbers starts from a smallest counterexample.
LEMMA LeastNumber ==
  ASSUME NEW X \in SUBSET Nat, X # {}
  PROVE  \E n \in X : \A m \in X : n <= m
<1> DEFINE Below(n) == 0..n - 1
           Lower == {Below(n) : n \in X}
           Order == StrictSubsetOrdering(Nat)
<1>1. IsWellFoundedOn(Order, FiniteSubsetsOf(Nat))
  BY FS_StrictSubsetOrderingWellFounded
<1>2. \A n \in X : Below(n) \in FiniteSubsetsOf(Nat)
  BY FS_Interval DEF FiniteSubsetsOf
<1>. HIDE DEF Order
<1>3. Lower \subseteq FiniteSubsetsOf(Nat) /\ Lower # {}
  BY <1>2
<1>. HIDE DEF Lower
<1>4. PICK L \in Lower : \A M \in Lower : <<M, L>> \notin Order
  BY <1>1, <1>3, WFMin
<1>5. PICK n \in X : L = Below(n)
  BY <1>4 DEF Lower
<1>6. \A m \in X : n <= m
  <2>. SUFFICES ASSUME NEW m \in X, m < n PROVE FALSE
    OBVIOUS
  <2>1. m \in Below(n) /\ m \notin Below(m) /\ Below(m) \subseteq Below(n) /\ Below(m) \in Lower
    BY DEF Lower
  <2>2. <<Below(m), L>> \in Order
    BY <1>5, <2>1 DEF Order, StrictSubsetOrdering
  <2>. QED BY <1>4, <2>1, <2>2
<1>. QED BY <1>6

LEMMA TotalIs ==
  ASSUME NEW f \in [Span -> Nat]
  PROVE  /\ Total(f, 0) = 0
         /\ \A k \in 0..RateSpan : Total(f, k) \in Nat
         /\ \A k \in 1..RateSpan : Total(f, k) = Total(f, k - 1) + f[k - 1]
  <1> DEFINE n == RateSpan
             Sums(g) == [k \in 0..n |-> IF k = 0 THEN 0 ELSE g[k - 1] + f[k - 1]]
             sum == CHOOSE g : g = Sums(g)
             Solves(g, m) == /\ g \in [0..m -> Nat] /\ g[0] = 0
                             /\ \A k \in 1..m : g[k] = g[k - 1] + f[k - 1]
             Unsolved == {m \in 0..n : ~\E g : Solves(g, m)}
  <1>1. n \in Nat /\ \A k \in 1..n : f[k - 1] \in Nat
    BY ConfigAssumption DEF Span
  <1>2. \A k : Total(f, k) = sum[k]
    BY DEF Total
  <1> HIDE DEF n
  <1>3. ASSUME NEW m \in Unsolved, \A l \in Unsolved : m <= l PROVE FALSE
    <2>1. m \in 0..n /\ \A g : ~Solves(g, m)
      BY DEF Unsolved
    <2>2. \A l \in 0..n : l < m => \E g : Solves(g, l)
      <3> HIDE DEF Solves
      <3> QED BY <1>1, <1>3, <2>1
    <2>3. m # 0
      <3>1. Solves([k \in 0..0 |-> 0], 0)
        OBVIOUS
      <3> HIDE DEF Solves
      <3> QED BY <2>1, <3>1
    <2>4. m \in 1..n /\ m - 1 \in 0..n /\ m - 1 < m
      BY <1>1, <2>1, <2>3
    <2>5. PICK g : Solves(g, m - 1)
      <3> HIDE DEF Solves
      <3> QED BY <2>2, <2>4
    <2> DEFINE e == g[m - 1] + f[m - 1]
               h == [k \in 0..m |-> IF k = m THEN e ELSE g[k]]
    <2>6. e \in Nat
      BY <1>1, <2>4, <2>5
    <2>7. h[m] = e /\ \A k \in 0..m - 1 : h[k] = g[k]
      BY <1>1, <2>4
    <2>8. h \in [0..m -> Nat]
      BY <1>1, <2>4, <2>5, <2>6
    <2>9. h[0] = 0
      BY <1>1, <2>4, <2>5, <2>7
    <2>10. ASSUME NEW k \in 1..m PROVE h[k] = h[k - 1] + f[k - 1]
      <3> HIDE DEF h
      <3>1. CASE k = m
        <4>1. m - 1 \in 0..m - 1
          BY <2>4
        <4> QED BY <2>7, <3>1, <4>1
      <3>2. CASE k # m
        <4>1. k \in 1..m - 1 /\ k \in 0..m - 1 /\ k - 1 \in 0..m - 1
          BY <2>4, <3>2
        <4> QED BY <2>5, <2>7, <4>1
      <3> QED BY <3>1, <3>2
    <2> HIDE DEF h
    <2>11. Solves(h, m)
      BY <2>8, <2>9, <2>10
    <2> HIDE DEF Solves
    <2> QED BY <2>1, <2>11
  <1>4. PICK g : Solves(g, n)
    <2>1. Unsolved \in SUBSET Nat /\ (n \in Unsolved <=> ~\E g : Solves(g, n))
      <3> HIDE DEF Solves
      <3> QED BY <1>1
    <2> HIDE DEF Unsolved, Solves
    <2>2. Unsolved = {}
      BY <1>3, <2>1, LeastNumber
    <2> QED BY <2>1, <2>2
  <1>5. g = Sums(g)
    <2>1. g = [k \in 0..n |-> g[k]]
      BY <1>4
    <2>2. \A k \in 0..n : k = 0 \/ k \in 1..n
      BY <1>1
    <2> QED BY <1>4, <2>1, <2>2
  <1>6. sum = Sums(sum)
    <2> HIDE DEF Sums
    <2> QED BY <1>5
  <1> HIDE DEF sum
  <1>7. sum[0] = 0 /\ \A k \in 1..n : sum[k] = sum[k - 1] + f[k - 1]
    <2>1. \A k \in 0..n : sum[k] = Sums(sum)[k]
      BY <1>6
    <2> QED BY <1>1, <2>1
  <1> DEFINE Wrong == {k \in 0..n : sum[k] \notin Nat}
  <1>8. ASSUME Wrong # {} PROVE FALSE
    <2>1. Wrong \in SUBSET Nat
      BY <1>1
    <2>2. PICK k \in Wrong : \A l \in Wrong : k <= l
      <3> HIDE DEF Wrong
      <3> QED BY <1>8, <2>1, LeastNumber
    <2>3. k \in 1..n /\ k - 1 \in 0..n /\ k - 1 \notin Wrong
      BY <1>1, <1>7, <2>2
    <2> QED BY <1>1, <1>7, <2>2, <2>3
  <1> QED BY <1>2, <1>7, <1>8 DEF n

\* What one more report now adds to every sum.
LEMMA TotalBumped ==
  ASSUME NEW f \in [Span -> Nat], NEW g \in [Span -> Nat],
         g = [f EXCEPT ![0] = @ + 1], NEW n \in 1..RateSpan
  PROVE  Total(g, n) = Total(f, n) + 1
  <1> DEFINE Wrong == {k \in 1..RateSpan : Total(g, k) # Total(f, k) + 1}
  <1>1. RateSpan \in Nat \ {0} /\ 0 \in Span /\ \A k \in 2..RateSpan : k - 1 \in Span /\ k - 1 # 0
    BY ConfigAssumption DEF Span
  <1>2. g[0] = f[0] + 1 /\ \A k \in 2..RateSpan : g[k - 1] = f[k - 1]
    BY <1>1
  <1>3. ASSUME Wrong # {} PROVE FALSE
    <2>1. Wrong \in SUBSET Nat
      BY <1>1
    <2>2. PICK k \in Wrong : \A l \in Wrong : k <= l
      <3> HIDE DEF Wrong
      <3> QED BY <1>3, <2>1, LeastNumber
    <2>3. k \in 1..RateSpan /\ Total(g, k) # Total(f, k) + 1
      OBVIOUS
    <2>4. /\ Total(g, k) = Total(g, k - 1) + g[k - 1] /\ Total(f, k) = Total(f, k - 1) + f[k - 1]
          /\ Total(g, 0) = 0 /\ Total(f, 0) = 0
      BY <2>3, TotalIs
    <2>5. CASE k = 1
      <3>1. f[0] \in Nat /\ k - 1 = 0
        BY <1>1, <2>5
      <3> QED BY <1>2, <2>3, <2>4, <3>1
    <2>6. CASE k # 1
      <3>1. k \in 2..RateSpan /\ k - 1 \in 1..RateSpan /\ k - 1 \in 0..RateSpan /\ ~(k <= k - 1)
        BY <1>1, <2>3, <2>6
      <3>2. Total(g, k - 1) = Total(f, k - 1) + 1
        <4>1. k - 1 \notin Wrong
          <5> HIDE DEF Wrong
          <5> QED BY <2>2, <3>1
        <4> QED BY <3>1, <4>1
      <3>3. Total(f, k - 1) \in Nat /\ f[k - 1] \in Nat
        BY <1>1, <3>1, TotalIs
      <3> QED BY <1>2, <2>3, <2>4, <3>1, <3>2, <3>3
    <2> QED BY <2>5, <2>6
  <1> QED BY <1>3

\* As time passes every sum is what it was one unit ago.
LEMMA TotalShifted ==
  ASSUME NEW f \in [Span -> Nat], NEW g \in [Span -> Nat],
         g = [a \in Span |-> IF a = 0 THEN 0 ELSE f[a - 1]], NEW n \in 1..RateSpan
  PROVE  Total(g, n) = Total(f, n - 1)
  <1> DEFINE Wrong == {k \in 1..RateSpan : Total(g, k) # Total(f, k - 1)}
  <1>1. RateSpan \in Nat \ {0} /\ 0 \in Span /\ \A k \in 2..RateSpan : k - 1 \in Span /\ k - 1 # 0
    BY ConfigAssumption DEF Span
  <1>2. g[0] = 0 /\ \A k \in 2..RateSpan : g[k - 1] = f[(k - 1) - 1]
    BY <1>1
  <1>3. ASSUME Wrong # {} PROVE FALSE
    <2>1. Wrong \in SUBSET Nat
      BY <1>1
    <2>2. PICK k \in Wrong : \A l \in Wrong : k <= l
      <3> HIDE DEF Wrong
      <3> QED BY <1>3, <2>1, LeastNumber
    <2>3. k \in 1..RateSpan /\ Total(g, k) # Total(f, k - 1)
      OBVIOUS
    <2>4. Total(g, k) = Total(g, k - 1) + g[k - 1] /\ Total(g, 0) = 0 /\ Total(f, 0) = 0
      BY <2>3, TotalIs
    <2>5. CASE k = 1
      <3>1. k - 1 = 0
        BY <2>5
      <3> QED BY <1>2, <2>3, <2>4, <3>1
    <2>6. CASE k # 1
      <3>1. k \in 2..RateSpan /\ k - 1 \in 1..RateSpan /\ ~(k <= k - 1)
        BY <1>1, <2>3, <2>6
      <3>2. Total(g, k - 1) = Total(f, (k - 1) - 1)
        <4>1. k - 1 \notin Wrong
          <5> HIDE DEF Wrong
          <5> QED BY <2>2, <3>1
        <4> QED BY <3>1, <4>1
      <3>3. Total(f, k - 1) = Total(f, (k - 1) - 1) + f[(k - 1) - 1]
        BY <3>1, TotalIs
      <3> QED BY <1>2, <2>3, <2>4, <3>1, <3>2, <3>3
    <2> QED BY <2>5, <2>6
  <1> QED BY <1>3

LEMMA TotalOfNothing ==
  ASSUME NEW f \in [Span -> Nat], \A a \in Span : f[a] = 0, NEW n \in 0..RateSpan
  PROVE  Total(f, n) = 0
  <1> DEFINE Wrong == {k \in 0..RateSpan : Total(f, k) # 0}
  <1>1. RateSpan \in Nat \ {0} /\ \A k \in 1..RateSpan : k - 1 \in Span
    BY ConfigAssumption DEF Span
  <1>2. ASSUME Wrong # {} PROVE FALSE
    <2>1. Wrong \in SUBSET Nat
      BY <1>1
    <2>2. PICK k \in Wrong : \A l \in Wrong : k <= l
      <3> HIDE DEF Wrong
      <3> QED BY <1>2, <2>1, LeastNumber
    <2>3. k \in 1..RateSpan
      BY <1>1, <2>2, TotalIs
    <2>4. k - 1 \notin Wrong
      <3>1. k - 1 \in Nat /\ ~(k <= k - 1)
        BY <1>1, <2>3
      <3> HIDE DEF Wrong
      <3> QED BY <2>2, <3>1
    <2>5. Total(f, k - 1) = 0
      BY <1>1, <2>3, <2>4
    <2>6. Total(f, k) = Total(f, k - 1) + f[k - 1] /\ f[k - 1] = 0
      BY <1>1, <2>3, TotalIs
    <2> QED BY <2>2, <2>5, <2>6
  <1> QED BY <1>2

(* While the rate window runs, its counter is the number of reports since it *)
(* started, and what is older in the span is at most the cap: the window     *)
(* before was capped as well.  Once it has run out, the whole span holds at  *)
(* most one cap and the next report starts a window of its own.              *)
Capped(window, f) ==
  IF window.age < RateSpan
  THEN /\ Total(f, window.age + 1) = window.count
       /\ window.count <= MaxPerMin
       /\ Total(f, RateSpan) - window.count <= MaxPerMin
  ELSE Total(f, RateSpan) <= MaxPerMin /\ f[0] = 0

LEMMA CappedAtStart ==
  ASSUME MaxPerMin \in Nat, NEW f \in [Span -> Nat], \A a \in Span : f[a] = 0
  PROVE  Capped([age |-> 0, count |-> 0], f)
  <1>1. RateSpan \in Nat \ {0}
    BY ConfigAssumption
  <1>2. Total(f, 1) = 0 /\ Total(f, RateSpan) = 0
    BY <1>1, TotalOfNothing
  <1> QED BY <1>1, <1>2 DEF Capped

LEMMA CappedWithTime ==
  ASSUME MaxPerMin \in Nat, NEW window \in RateWindow, NEW f \in [Span -> Nat], NEW g \in [Span -> Nat],
         g = [a \in Span |-> IF a = 0 THEN 0 ELSE f[a - 1]], Capped(window, f)
  PROVE  Capped([window EXCEPT !.age = Older(@)], g)
  <1> DEFINE age == window.age
             later == [window EXCEPT !.age = Older(@)]
  <1> SUFFICES Capped(later, g)
    OBVIOUS
  <1>1. /\ RateSpan \in Nat \ {0} /\ AgeCap \in Nat /\ AgeCap >= RateSpan
        /\ age \in 0..AgeCap /\ window.count \in Nat
    BY ConfigAssumption, AgeCapAssumption DEF RateWindow, Ages
  <1>2. later.count = window.count /\ later.age = IF age = AgeCap THEN age ELSE age + 1
    BY <1>1, NoneAssumption DEF Older, RateWindow
  <1>3. Total(g, RateSpan) = Total(f, RateSpan - 1) /\ Total(f, RateSpan - 1) <= Total(f, RateSpan)
    <2>1. RateSpan \in 1..RateSpan /\ RateSpan - 1 \in 0..RateSpan /\ RateSpan - 1 \in Span
      BY <1>1 DEF Span
    <2>2. Total(g, RateSpan) = Total(f, RateSpan - 1)
      BY <2>1, TotalShifted
    <2>3. Total(f, RateSpan) = Total(f, RateSpan - 1) + f[RateSpan - 1] /\ Total(f, RateSpan - 1) \in Nat
      BY <2>1, TotalIs
    <2>4. f[RateSpan - 1] \in Nat
      BY <2>1
    <2> QED BY <2>2, <2>3, <2>4
  <1>4. Total(f, RateSpan) \in Nat /\ Total(f, RateSpan - 1) \in Nat
    BY <1>1, TotalIs
  <1>5. g[0] = 0
    BY <1>1 DEF Span
  <1> HIDE DEF later
  <1>6. CASE age + 1 < RateSpan
    <2>1. Total(g, (age + 1) + 1) = Total(f, age + 1)
      <3>1. (age + 1) + 1 \in 1..RateSpan /\ ((age + 1) + 1) - 1 = age + 1
        BY <1>1, <1>6
      <3> QED BY <3>1, TotalShifted
    <2>2. later.age = age + 1
      BY <1>1, <1>2, <1>6
    <2> QED BY <1>1, <1>2, <1>3, <1>4, <1>6, <2>1, <2>2 DEF Capped
  <1>7. CASE age + 1 = RateSpan
    <2>1. later.age = RateSpan
      BY <1>1, <1>2, <1>7
    <2>2. Total(f, RateSpan) <= MaxPerMin
      BY <1>1, <1>7 DEF Capped
    <2> QED BY <1>1, <1>3, <1>4, <1>5, <2>1, <2>2 DEF Capped
  <1>8. CASE age >= RateSpan
    <2>1. later.age >= RateSpan /\ later.age \in Nat
      BY <1>1, <1>2, <1>8
    <2>2. Total(f, RateSpan) <= MaxPerMin
      BY <1>1, <1>8 DEF Capped
    <2> QED BY <1>1, <1>3, <1>4, <1>5, <2>1, <2>2 DEF Capped
  <1> QED BY <1>1, <1>6, <1>7, <1>8

\* What RateSpan units of time leave of a window, seen by the next call.
Current(window) == IF window.age >= RateSpan THEN [age |-> 0, count |-> 0] ELSE window

LEMMA CappedOnUse ==
  ASSUME MaxPerMin \in Nat, NEW window \in RateWindow, NEW f \in [Span -> Nat], Capped(window, f)
  PROVE  Capped(Current(window), f)
  <1>1. RateSpan \in Nat \ {0} /\ window.age \in Nat
    BY ConfigAssumption, AgeCapAssumption DEF RateWindow, Ages
  <1>2. CASE window.age >= RateSpan
    <2>1. Total(f, RateSpan) <= MaxPerMin /\ f[0] = 0 /\ Total(f, RateSpan) \in Nat
      BY <1>1, <1>2, TotalIs DEF Capped
    <2>2. Total(f, 1) = Total(f, 1 - 1) + f[1 - 1] /\ Total(f, 0) = 0
      BY <1>1, TotalIs
    <2> QED BY <1>1, <1>2, <2>1, <2>2 DEF Capped, Current
  <1>3. CASE window.age < RateSpan
    BY <1>1, <1>3 DEF Current
  <1> QED BY <1>1, <1>2, <1>3

LEMMA CappedByPush ==
  ASSUME MaxPerMin \in Nat, NEW window \in RateWindow, NEW f \in [Span -> Nat], NEW g \in [Span -> Nat],
         g = [f EXCEPT ![0] = @ + 1], window.age < RateSpan, window.count < MaxPerMin,
         Capped(window, f)
  PROVE  Capped([window EXCEPT !.count = @ + 1], g)
  <1>1. RateSpan \in Nat \ {0} /\ window.age \in Nat /\ window.count \in Nat
    BY ConfigAssumption, AgeCapAssumption DEF RateWindow, Ages
  <1>2. /\ Total(g, window.age + 1) = Total(f, window.age + 1) + 1
        /\ Total(g, RateSpan) = Total(f, RateSpan) + 1
    <2>1. window.age + 1 \in 1..RateSpan /\ RateSpan \in 1..RateSpan
      BY <1>1
    <2> QED BY <2>1, TotalBumped
  <1>3. Total(f, RateSpan) \in Nat
    BY <1>1, TotalIs
  <1>4. [window EXCEPT !.count = @ + 1] = [age |-> window.age, count |-> window.count + 1]
    BY DEF RateWindow
  <1> QED BY <1>1, <1>2, <1>3, <1>4 DEF Capped

Caps == MaxPerMin # None => Capped(rate, sent)

LEMMA CapsStep ==
  ASSUME IInv, Caps, [ClientNext]_vars
  PROVE  Caps'
  <1> SUFFICES ASSUME MaxPerMin # None PROVE Capped(rate', sent')
    BY DEF Caps
  <1>1. MaxPerMin \in Nat /\ Capped(rate, sent)
    BY ConfigAssumption DEF Caps
  <1>2. /\ rate \in RateWindow /\ sent \in [Span -> Nat]
        /\ rate' \in RateWindow /\ sent' \in [Span -> Nat]
    BY NextTypes DEF IInv, ClientTypeOK, TypeOK, HistOK
  <1>3. CASE Elapse
    BY <1>1, <1>2, <1>3, CappedWithTime DEF Elapse, Tick
  <1>4. CASE UNCHANGED <<rate, sent>>
    BY <1>1, <1>4
  <1>5. ASSUME NEW i \in Instruments, NEW net \in Nets, OnDenied(i, net), Observe(i, net)
        PROVE  Capped(rate', sent')
    <2>1. rate' = Current(rate) /\ sent' = sent
      BY <1>5 DEF OnDenied, Observe, Rolled, Current
    <2> QED BY <1>1, <1>2, <2>1, CappedOnUse
  <1>6. ASSUME NEW i \in Instruments, NEW net \in Nets, OnPush(i, net), Observe(i, net)
        PROVE  Capped(rate', sent')
    <2>1. /\ Current(rate).count < MaxPerMin /\ rate' = [Current(rate) EXCEPT !.count = @ + 1]
      BY <1>6 DEF OnPush, RateAllows, RateCharged, Rolled, Current
    <2>2. sent' = [sent EXCEPT ![0] = @ + 1]
      BY <1>6, NoneAssumption DEF OnPush, Observe, ScreenerEvent, LevelOf, Levels
    <2>3. Current(rate) \in RateWindow /\ Current(rate).age < RateSpan
      BY <1>2, RateType, ConfigAssumption, AgeCapAssumption DEF Current, Rolled, RateWindow, Ages
    <2>4. Capped(Current(rate), sent)
      BY <1>1, <1>2, CappedOnUse
    <2> QED BY <1>1, <1>2, <2>1, <2>2, <2>3, <2>4, CappedByPush
  <1>7. ASSUME NEW i \in Instruments, NEW net \in Nets, OnHeld(i, net) \/ OnSuppressed(i, net),
               Observe(i, net)
        PROVE  UNCHANGED <<rate, sent>>
    BY <1>7 DEF OnHeld, OnSuppressed, Observe
  <1>8. ASSUME NEW i \in Instruments, Rejected(i) PROVE UNCHANGED <<rate, sent>>
    BY <1>8 DEF Rejected, OnReject, Observe
  <1>9. ASSUME UNCHANGED vars PROVE UNCHANGED <<rate, sent>>
    BY <1>9 DEF vars, engineVars, histVars
  <1> QED BY <1>3, <1>4, <1>5, <1>6, <1>7, <1>8, <1>9 DEF ClientNext, Accepted, OnSignal

\* For every configuration with a cap, the reports of all instruments during any
\* rate window's length of time are at most two caps, however the windows fall
\* (allow_emit restarts its window on use, lib.rs:254-271).
THEOREM TwoCaps == ClientSpec => []AtMostTwoCaps
  <1>1. ClientInit => Caps
    <2> SUFFICES ASSUME ClientInit, MaxPerMin # None PROVE Capped(rate, sent)
      BY DEF Caps
    <2>1. MaxPerMin \in Nat
      BY ConfigAssumption
    <2>2. sent \in [Span -> Nat] /\ \A a \in Span : sent[a] = 0
      BY DEF ClientInit
    <2>3. rate = [age |-> 0, count |-> 0]
      BY DEF ClientInit, Init
    <2> QED BY <2>1, <2>2, <2>3, CappedAtStart
  <1>2. IInv /\ Caps /\ [ClientNext]_vars => Caps'
    BY CapsStep
  <1>3. IInv /\ Caps => AtMostTwoCaps
    <2> SUFFICES ASSUME IInv, Caps, MaxPerMin # None PROVE InSpan <= 2 * MaxPerMin
      BY DEF AtMostTwoCaps
    <2>1. /\ rate.age \in Nat /\ rate.count \in Nat /\ RateSpan \in Nat /\ MaxPerMin \in Nat
          /\ Total(sent, RateSpan) \in Nat
      <3>1. rate \in RateWindow /\ sent \in [Span -> Nat]
        BY DEF IInv, ClientTypeOK, TypeOK, HistOK
      <3>2. RateSpan \in Nat /\ MaxPerMin \in Nat
        BY ConfigAssumption
      <3>3. rate.age \in Nat /\ rate.count \in Nat
        BY <3>1, AgeCapAssumption DEF RateWindow, Ages
      <3>4. RateSpan \in 0..RateSpan
        BY <3>2
      <3> QED BY <3>1, <3>2, <3>3, <3>4, TotalIs
    <2>2. Total(sent, RateSpan) <= MaxPerMin + MaxPerMin
      BY <2>1 DEF Caps, Capped
    <2> QED BY <2>1, <2>2 DEF InSpan
  <1> QED BY <1>1, <1>2, <1>3, Inductive, PTL DEF ClientSpec
=============================================================================
