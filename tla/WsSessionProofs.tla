--------------------------- MODULE WsSessionProofs ---------------------------
(***************************************************************************)
(* Proofs about WsSession, for any instruments, streams, capacities and    *)
(* number of samples and events.                                           *)
(***************************************************************************)
EXTENDS WsSession, TLAPS, FiniteSetTheorems

Stages == {"parked", "running", "blocked"}

-----------------------------------------------------------------------------
(* Sequences *)

LEMMA TailOf ==
  ASSUME NEW S, NEW q \in Seq(S), q # <<>>
  PROVE  /\ Len(q) \in Nat \ {0} /\ Head(q) \in S /\ Head(q) = q[1]
         /\ Tail(q) \in Seq(S) /\ Len(Tail(q)) = Len(q) - 1
         /\ \A k \in 1..Len(q) - 1 : Tail(q)[k] = q[k + 1]
  OBVIOUS

LEMMA AppendOf ==
  ASSUME NEW S, NEW q \in Seq(S), NEW e \in S
  PROVE  /\ Append(q, e) \in Seq(S) /\ Len(q) \in Nat /\ Len(Append(q, e)) = Len(q) + 1
         /\ Append(q, e)[Len(q) + 1] = e
         /\ \A k \in 1..Len(q) : Append(q, e)[k] = q[k]
  OBVIOUS

-----------------------------------------------------------------------------
(* Types *)

Shows(m) == m.kind \in {"snap", "tick"}

LEMMA MessageFields ==
  ASSUME NEW m \in Message, Shows(m)
  PROVE  m.stream \in Streams /\ m.inst \in Instruments /\ m.n \in 1..MaxSample
  BY DEF Message, Shows

LEMMA MessagesExist ==
  /\ Answered \in Message
  /\ \A n \in 1..MaxEvent : Event(n) \in Message
  /\ \A k \in {"snap", "tick"}, f \in Streams, i \in Instruments, n \in 1..MaxSample :
       [kind |-> k, stream |-> f, inst |-> i, n |-> n] \in Message
  BY DEF Message, Answered, Event

(* A forwarder's state has its type and its channel at most LiveCap samples. *)
Sound(s) == s \in StreamState /\ Len(s.feed) <= LiveCap

StreamsSound == stream = [f \in Streams |-> stream[f]] /\ \A f \in Streams : Sound(stream[f])

QueueSound ==
  /\ reply \in Message \cup {None} /\ (reply # None => reply.kind # "tick")
  /\ outq \in Seq(Message) /\ Len(outq) <= QueueCap

SessionSound ==
  /\ newest \in [Instruments -> 0..MaxSample]
  /\ watches \in [Instruments -> Streams \cup {None}]
  /\ raised \in 0..MaxEvent /\ open \in BOOLEAN /\ writing \in BOOLEAN
  /\ shown \in [Streams -> 0..MaxSample \cup {None}]
  /\ lost \in [Streams -> BOOLEAN]

TypeInv == StreamsSound /\ QueueSound /\ SessionSound

(* The session's book of its forwarders.                                    *)
HaveInstrument == \A f \in Streams : stream[f].state # "free" => stream[f].inst \in Instruments

WatchesAreStages ==
  \A i \in Instruments : watches[i] # None =>
    \/ stream[watches[i]].state = "free"
    \/ stream[watches[i]].state \in Stages /\ stream[watches[i]].inst = i

WatchesDiffer ==
  \A i, j \in Instruments : watches[i] # None /\ watches[i] = watches[j] => i = j

Snaps(f) == reply # None /\ reply.kind = "snap" /\ reply.stream = f

OpeningIsReplied ==
  \A f \in Streams : /\ stream[f].state = "opening" <=> Snaps(f)
                     /\ Snaps(f) => stream[f].inst = reply.inst /\ watches[reply.inst] = None

ClosedIsEmpty == ~open => reply = None /\ \A i \in Instruments : watches[i] = None

Registered ==
  HaveInstrument /\ NoOrphans /\ WatchesAreStages /\ WatchesDiffer /\ OpeningIsReplied /\ ClosedIsEmpty

SessionInv == TypeInv /\ Registered

LEMMA TypesAreRight == TypeInv => TypeOK
  BY DEF TypeInv, TypeOK, StreamsSound, QueueSound, SessionSound, Sound

LEMMA NobodyIsSound == Sound(Nobody) /\ Nobody.state = "free"
  BY SessionAssumption DEF Sound, Nobody, Task, StreamState, States

LEMMA AbortedIsSound ==
  ASSUME NEW s, Sound(s)
  PROVE  /\ Sound(Aborted(s))
         /\ Aborted(s).state = IF s.state \in {"running", "doomed"} THEN "doomed" ELSE "free"
         /\ Aborted(s).state = "doomed" =>
              Aborted(s).inst = s.inst /\ Aborted(s).feed = s.feed /\ Aborted(s).hold = s.hold
  BY NobodyIsSound DEF Aborted, Sound, StreamState, States

LEMMA SetIsSound ==
  ASSUME StreamsSound, NEW f \in Streams, NEW s, Sound(s), stream' = [stream EXCEPT ![f] = s]
  PROVE  StreamsSound'
  BY DEF StreamsSound

LEMMA DroppedIsSound ==
  ASSUME TypeInv, NEW i \in Instruments
  PROVE  /\ Dropped(i) = [f \in Streams |-> Dropped(i)[f]]
         /\ \A f \in Streams : /\ Dropped(i)[f] = IF watches[i] = f THEN Aborted(stream[f])
                                                  ELSE stream[f]
                               /\ Sound(Dropped(i)[f])
  BY AbortedIsSound, SessionAssumption DEF Dropped, TypeInv, StreamsSound, SessionSound

LEMMA InitTypes == Init => TypeInv
  BY NobodyIsSound, SessionAssumption
  DEF Init, TypeInv, StreamsSound, QueueSound, SessionSound

LEMMA StreamTypes == TypeInv /\ [Next]_vars => StreamsSound'
  <1> SUFFICES ASSUME TypeInv, [Next]_vars PROVE StreamsSound'
    OBVIOUS
  <1>1. ASSUME NEW i \in Instruments, Record(i) PROVE StreamsSound'
    <2> DEFINE full(f) == Len(stream[f].feed) = LiveCap
               kept(f) == IF full(f) THEN Tail(stream[f].feed) ELSE stream[f].feed
               next(f) == Task(stream[f].state, i, Append(kept(f), newest'[i]), stream[f].hold)
    <2>1. newest'[i] \in 1..MaxSample
      BY <1>1, SessionAssumption DEF Record, TypeInv, SessionSound
    <2>2. ASSUME NEW f \in Streams PROVE Sound(next(f))
      <3>1. stream[f] \in StreamState /\ stream[f].feed \in Seq(1..MaxSample) /\ Len(stream[f].feed) <= LiveCap
        BY DEF TypeInv, StreamsSound, Sound, StreamState
      <3>2. kept(f) \in Seq(1..MaxSample) /\ Len(kept(f)) < LiveCap
        <4>1. LiveCap \in Nat /\ LiveCap > 0
          BY SessionAssumption
        <4>2. CASE full(f)
          <5>1. stream[f].feed # <<>>
            BY <3>1, <4>1, <4>2
          <5>2. kept(f) = Tail(stream[f].feed)
            BY <4>2
          <5> HIDE DEF kept
          <5>3. /\ Tail(stream[f].feed) \in Seq(1..MaxSample)
                /\ Len(stream[f].feed) \in Nat /\ Len(Tail(stream[f].feed)) = Len(stream[f].feed) - 1
            BY <3>1, <5>1, TailOf
          <5> QED BY <3>1, <4>1, <5>2, <5>3
        <4>3. CASE ~full(f)
          BY <3>1, <4>1, <4>3
        <4> QED BY <4>2, <4>3
      <3>3. ASSUME NEW q \in Seq(1..MaxSample), Len(q) <= LiveCap
            PROVE  Sound(Task(stream[f].state, i, q, stream[f].hold))
        BY <3>1, <3>3 DEF Sound, StreamState, Task
      <3>4. Append(kept(f), newest'[i]) \in Seq(1..MaxSample) /\ Len(Append(kept(f), newest'[i])) <= LiveCap
        BY <2>1, <3>2, SessionAssumption
      <3> QED BY <3>3, <3>4
    <2> HIDE DEF next
    <2>3. \A f \in Streams : stream'[f] = stream[f] \/ stream'[f] = next(f)
      BY <1>1 DEF Record, next
    <2> QED BY <1>1, <2>2, <2>3 DEF Record, TypeInv, StreamsSound
  <1>2. ASSUME NEW i \in Instruments, Refuse(i) PROVE StreamsSound'
    BY <1>2, DroppedIsSound DEF StreamsSound, Refuse
  <1>3. ASSUME NEW i \in Instruments, Watch(i) PROVE StreamsSound'
    <2>1. Sound(Task("opening", i, <<>>, None))
      BY SessionAssumption DEF Sound, Task, StreamState, States
    <2> QED BY <1>3, <2>1, DroppedIsSound DEF StreamsSound, Watch
  <1>4. ASSUME NEW i \in Instruments, Unwatch(i) PROVE StreamsSound'
    BY <1>4, AbortedIsSound DEF StreamsSound, Unwatch, TypeInv
  <1>5. CASE Emit
    <2>1. CASE reply.kind = "snap"
      <3>1. reply.stream \in Streams
        BY <1>5, <2>1, MessageFields DEF Emit, TypeInv, QueueSound, Shows
      <3>2. Sound([stream[reply.stream] EXCEPT !.state = "parked"])
        BY <3>1 DEF TypeInv, StreamsSound, Sound, StreamState, States
      <3> QED BY <1>5, <2>1, <3>1, <3>2 DEF Emit, TypeInv, StreamsSound
    <2> QED BY <1>5, <2>1 DEF Emit, TypeInv, StreamsSound
  <1>6. CASE End
    BY <1>6, AbortedIsSound DEF StreamsSound, End, TypeInv
  <1>7. ASSUME NEW f \in Streams, Recv(f) PROVE StreamsSound'
    <2> DEFINE s == Task(IF stream[f].state = "parked" THEN "running" ELSE stream[f].state,
                         stream[f].inst, Tail(stream[f].feed), Head(stream[f].feed))
    <2>1. Sound(s)
      <3>1. stream[f] \in StreamState /\ stream[f].feed \in Seq(1..MaxSample) /\ Len(stream[f].feed) <= LiveCap
        BY DEF TypeInv, StreamsSound, Sound, StreamState
      <3>2. stream[f].feed # <<>>
        BY <1>7 DEF Recv
      <3>3. /\ Head(stream[f].feed) \in 1..MaxSample
            /\ Tail(stream[f].feed) \in Seq(1..MaxSample) /\ Len(Tail(stream[f].feed)) <= LiveCap
        <4>1. LiveCap \in Nat
          BY SessionAssumption
        <4>2. /\ Head(stream[f].feed) \in 1..MaxSample /\ Tail(stream[f].feed) \in Seq(1..MaxSample)
              /\ Len(stream[f].feed) \in Nat /\ Len(Tail(stream[f].feed)) = Len(stream[f].feed) - 1
          BY <3>1, <3>2, TailOf
        <4> QED BY <3>1, <4>1, <4>2
      <3> QED BY <3>1, <3>3 DEF Sound, StreamState, States, Task
    <2> QED BY <1>7, <2>1, SetIsSound DEF Recv, Set, TypeInv
  <1>8. ASSUME NEW f \in Streams, Skip(f) PROVE StreamsSound'
    <2>1. Sound([stream[f] EXCEPT !.hold = None])
      BY DEF TypeInv, StreamsSound, Sound, StreamState
    <2> QED BY <1>8, <2>1, SetIsSound DEF Skip, Set, TypeInv
  <1>9. ASSUME NEW f \in Streams, Send(f) PROVE StreamsSound'
    <2> DEFINE s == Task(IF stream[f].state = "blocked" THEN "running" ELSE stream[f].state,
                         stream[f].inst, stream[f].feed, None)
    <2>1. Sound(s)
      BY <1>9 DEF Send, TypeInv, StreamsSound, Sound, StreamState, States, Task
    <2> QED BY <1>9, <2>1, SetIsSound, NobodyIsSound DEF Send, Set, TypeInv
  <1>10. ASSUME NEW f \in Streams, Park(f) PROVE StreamsSound'
    <2> DEFINE s == [stream[f] EXCEPT !.state = IF stream[f].hold = None THEN "parked" ELSE "blocked"]
    <2>1. Sound(s)
      BY <1>10 DEF Park, Polled, TypeInv, StreamsSound, Sound, StreamState, States
    <2> QED BY <1>10, <2>1, SetIsSound, NobodyIsSound DEF Park, Set, TypeInv
  <1>11. CASE UNCHANGED stream
    BY <1>11 DEF StreamsSound, TypeInv
  <1> QED BY <1>1, <1>2, <1>3, <1>4, <1>5, <1>6, <1>7, <1>8, <1>9, <1>10, <1>11
          DEF Next, Forward, Answer, Alert, Deliver, WriterFails, vars, sysVars

LEMMA QueueTypes == SessionInv /\ [Next]_vars => QueueSound'
  <1> SUFFICES ASSUME SessionInv, [Next]_vars PROVE QueueSound'
    OBVIOUS
  <1> USE DEF SessionInv, TypeInv, QueueSound
  <1>1. ASSUME NEW m \in Message, Room, outq' = Append(outq, m)
        PROVE  outq' \in Seq(Message) /\ Len(outq') <= QueueCap
    BY <1>1, SessionAssumption DEF Room
  <1>2. ASSUME NEW i \in Instruments, Watch(i) PROVE QueueSound'
    <2>1. newest[i] \in 1..MaxSample
      BY <1>2 DEF Watch, SessionSound
    <2> QED BY <1>2, <2>1, MessagesExist DEF Watch
  <1>3. CASE Emit
    BY <1>1, <1>3 DEF Emit
  <1>4. CASE Alert
    <2>1. Event(raised + 1) \in Message
      BY <1>4, MessagesExist, SessionAssumption DEF Alert, SessionSound
    <2> QED BY <1>1, <1>4, <2>1 DEF Alert
  <1>5. ASSUME NEW f \in Streams, Send(f) PROVE QueueSound'
    <2>1. TickOf(f) \in Message
      BY <1>5, MessagesExist DEF Send, TickOf, Registered, HaveInstrument, StreamsSound, Sound, StreamState
    <2> QED BY <1>1, <1>5, <2>1 DEF Send
  <1>6. CASE Deliver
    <2>1. outq # <<>> /\ outq' = Tail(outq) /\ reply' = reply
      BY <1>6 DEF Deliver
    <2> QED BY <2>1, SessionAssumption
  <1>7. CASE outq' = <<>> /\ UNCHANGED reply
    BY <1>7, SessionAssumption
  <1>8. CASE reply' = Answered /\ UNCHANGED outq
    BY <1>8, MessagesExist DEF Answered
  <1>9. CASE UNCHANGED <<reply, outq>>
    BY <1>9
  <1> QED BY <1>2, <1>3, <1>4, <1>5, <1>6, <1>7, <1>8, <1>9
          DEF Next, Forward, Record, Refuse, Unwatch, Answer, End, WriterFails, Recv, Skip, Park,
              vars, sysVars

LEMMA SessionTypes == TypeInv /\ [Next]_vars => SessionSound'
  <1> SUFFICES ASSUME TypeInv, [Next]_vars PROVE SessionSound'
    OBVIOUS
  <1> USE DEF TypeInv, SessionSound
  <1>1. ASSUME NEW i \in Instruments, Record(i) PROVE SessionSound'
    BY <1>1, SessionAssumption DEF Record
  <1>2. ASSUME NEW i \in Instruments, Watch(i) PROVE SessionSound'
    BY <1>2 DEF Watch
  <1>3. ASSUME NEW i \in Instruments, Refuse(i) \/ Unwatch(i) PROVE SessionSound'
    BY <1>3 DEF Refuse, Unwatch
  <1>4. CASE Emit
    BY <1>4, MessageFields DEF Emit, QueueSound, Shows
  <1>5. CASE Alert
    BY <1>5, SessionAssumption DEF Alert
  <1>6. CASE End
    BY <1>6 DEF End
  <1>7. CASE Deliver
    <2>1. Head(outq) \in Message
      BY <1>7 DEF Deliver, QueueSound
    <2> QED BY <1>7, <2>1, MessageFields DEF Deliver, Shows
  <1>8. ASSUME NEW f \in Streams, Skip(f) PROVE SessionSound'
    BY <1>8 DEF Skip
  <1>9. CASE WriterFails
    BY <1>9 DEF WriterFails
  <1>10. CASE UNCHANGED <<newest, watches, raised, open, writing, shown, lost>>
    BY <1>10
  <1> QED BY <1>1, <1>2, <1>3, <1>4, <1>5, <1>6, <1>7, <1>8, <1>9, <1>10
          DEF Next, Forward, Answer, Recv, Send, Park, vars, sysVars

LEMMA NextTypes == SessionInv /\ [Next]_vars => TypeInv'
  BY StreamTypes, QueueTypes, SessionTypes DEF TypeInv, SessionInv

-----------------------------------------------------------------------------
(* Registration *)

LEMMA InitRegistered == Init => Registered
  BY SessionAssumption, NobodyIsSound
  DEF Init, Registered, HaveInstrument, NoOrphans, WatchesAreStages, WatchesDiffer, OpeningIsReplied,
      ClosedIsEmpty, Snaps

(* One step of a forwarder: it stays among the stages, or doomed, or ends.  *)
Moves(f) ==
  /\ stream[f].state # "opening"
  /\ \/ stream'[f].state = "free"
     \/ /\ stream[f].state \in Stages /\ stream'[f].state \in Stages
        /\ stream'[f].inst = stream[f].inst
     \/ /\ stream[f].state = "doomed" /\ stream'[f].state = "doomed"
        /\ stream'[f].inst = stream[f].inst

Stays(f) == stream'[f].state = stream[f].state /\ stream'[f].inst = stream[f].inst

LEMMA SessionFacts ==
  ASSUME SessionInv
  PROVE  /\ stream = [f \in Streams |-> stream[f]]
         /\ watches \in [Instruments -> Streams \cup {None}] /\ None \notin Streams
         /\ None \notin Message /\ Answered \in Message /\ Answered.kind # "snap"
         /\ Nobody.state = "free"
         /\ HaveInstrument /\ NoOrphans /\ WatchesAreStages /\ WatchesDiffer /\ OpeningIsReplied
         /\ ClosedIsEmpty
  BY NobodyIsSound, MessagesExist, SessionAssumption
     DEF SessionInv, Registered, TypeInv, StreamsSound, SessionSound, Answered

LEMMA ForwardersMove ==
  ASSUME SessionInv, watches' = watches, reply' = reply, open' = open,
         \A f \in Streams : Stays(f) \/ Moves(f)
  PROVE  Registered'
  <1> USE DEF Stays, Moves, Stages
  <1>1. HaveInstrument'
    BY SessionFacts DEF HaveInstrument
  <1>2. NoOrphans'
    BY SessionFacts DEF NoOrphans
  <1>3. WatchesAreStages'
    <2> SUFFICES ASSUME NEW i \in Instruments, watches[i] # None
                 PROVE  \/ stream'[watches[i]].state = "free"
                        \/ stream'[watches[i]].state \in Stages /\ stream'[watches[i]].inst = i
      BY DEF WatchesAreStages
    <2>1. watches[i] \in Streams
      BY SessionFacts
    <2>2. \/ stream[watches[i]].state = "free"
          \/ stream[watches[i]].state \in Stages /\ stream[watches[i]].inst = i
      BY SessionFacts DEF WatchesAreStages
    <2>3. Stays(watches[i]) \/ Moves(watches[i])
      BY <2>1
    <2> QED BY <2>2, <2>3
  <1>4. WatchesDiffer' /\ ClosedIsEmpty'
    BY SessionFacts DEF WatchesDiffer, ClosedIsEmpty
  <1>5. OpeningIsReplied'
    <2>1. ASSUME NEW f \in Streams PROVE stream'[f].state = "opening" <=> stream[f].state = "opening"
      OBVIOUS
    <2>2. ASSUME NEW f \in Streams, stream'[f].state = "opening" PROVE stream'[f].inst = stream[f].inst
      BY <2>2
    <2> QED BY <2>1, <2>2, SessionFacts DEF OpeningIsReplied, Snaps
  <1> QED BY <1>1, <1>2, <1>3, <1>4, <1>5 DEF Registered

LEMMA SessionRegistered ==
  ASSUME SessionInv, NEW i \in Instruments, Refuse(i) \/ Watch(i) \/ Unwatch(i)
  PROVE  Registered'
  <1>0. /\ stream = [f \in Streams |-> stream[f]]
        /\ watches \in [Instruments -> Streams \cup {None}] /\ None \notin Streams
        /\ None \notin Message /\ Answered \in Message /\ Answered.kind # "snap"
    BY SessionFacts
  <1>a. /\ HaveInstrument /\ NoOrphans /\ WatchesAreStages /\ WatchesDiffer /\ OpeningIsReplied
        /\ ClosedIsEmpty
    BY SessionFacts
  <1> USE DEF HaveInstrument, NoOrphans, WatchesAreStages, WatchesDiffer, OpeningIsReplied,
              ClosedIsEmpty, Snaps, Stages
  <1> USE SessionFacts
  \* Aborting the stream of one instrument, when no stream is opening.
  <1> DEFINE Aborts(f) == /\ stream'[f].state \in {"doomed", "free"} \/ stream'[f] = stream[f]
                          /\ watches[i] # f => stream'[f] = stream[f]
                          /\ watches[i] = f => stream'[f].state \in {"doomed", "free"}
                          /\ stream'[f].state # "free" => stream'[f].inst \in Instruments
  <1>1. ASSUME NEW f \in Streams, reply = None, stream'[f] = Dropped(i)[f] PROVE Aborts(f)
    <2>1. stream'[f] = IF watches[i] = f THEN Aborted(stream[f]) ELSE stream[f]
      BY <1>1, DroppedIsSound DEF SessionInv
    <2>2. Sound(stream[f])
      BY DEF SessionInv, TypeInv, StreamsSound
    <2> QED BY <2>1, <2>2, AbortedIsSound
  <1> HIDE DEF HaveInstrument, NoOrphans, WatchesAreStages, WatchesDiffer, OpeningIsReplied, ClosedIsEmpty
  <1>3. ASSUME Listening, stream' = Dropped(i),
               watches' = [watches EXCEPT ![i] = None], reply' \in {None, Answered}, open' = open
        PROVE  Registered'
    <2>1. reply = None /\ open /\ open' /\ \A f \in Streams : Aborts(f)
      BY <1>1, <1>3 DEF Listening
    <2>2. HaveInstrument' /\ ClosedIsEmpty'
      BY <2>1 DEF HaveInstrument, ClosedIsEmpty
    <2>3. NoOrphans'
      BY <1>3, <2>1 DEF NoOrphans, HaveInstrument
    <2>4. WatchesAreStages'
      BY <1>3, <2>1 DEF WatchesAreStages, WatchesDiffer
    <2>5. WatchesDiffer'
      BY <1>3 DEF WatchesDiffer
    <2>6. OpeningIsReplied'
      BY <1>3, <2>1 DEF OpeningIsReplied
    <2> QED BY <2>2, <2>3, <2>4, <2>5, <2>6 DEF Registered
  <1>4. ASSUME Watch(i) PROVE Registered'
    <2>1. PICK f \in Streams :
            /\ Dropped(i)[f].state = "free"
            /\ \A j \in Instruments \ {i} : watches[j] # f
            /\ stream' = [Dropped(i) EXCEPT ![f] = Task("opening", i, <<>>, None)]
            /\ reply' = [kind |-> "snap", stream |-> f, inst |-> i, n |-> newest[i]]
      BY <1>4 DEF Watch
    <2>2. /\ reply = None /\ open /\ open'
          /\ watches' = [watches EXCEPT ![i] = None]
      BY <1>4 DEF Watch, Listening
    <2>3. stream'[f].state = "opening" /\ stream'[f].inst = i
      BY <2>1, DroppedIsSound DEF Task, SessionInv
    <2>4. \A g \in Streams \ {f} : Aborts(g)
      BY <1>1, <2>1, <2>2, DroppedIsSound DEF SessionInv
    <2>5. /\ reply'.kind = "snap" /\ reply'.stream = f /\ reply'.inst = i
          /\ reply' # None
      <3>1. newest[i] \in 1..MaxSample
        BY <1>4, SessionAssumption DEF Watch, SessionInv, TypeInv, SessionSound
      <3>2. reply' \in Message
        BY <2>1, <3>1, MessagesExist
      <3> QED BY <2>1, <3>2
    <2> HIDE DEF Aborts
    <2>6. HaveInstrument' /\ ClosedIsEmpty'
      BY <2>2, <2>3, <2>4 DEF HaveInstrument, ClosedIsEmpty, Aborts
    <2>7. NoOrphans'
      BY <2>2, <2>3, <2>4 DEF NoOrphans, HaveInstrument, Aborts
    <2>8. WatchesAreStages'
      <3> SUFFICES ASSUME NEW j \in Instruments, watches'[j] # None
                   PROVE  \/ stream'[watches'[j]].state = "free"
                          \/ stream'[watches'[j]].state \in Stages /\ stream'[watches'[j]].inst = j
        BY DEF WatchesAreStages
      <3>1. j # i /\ watches'[j] = watches[j]
        BY <2>2
      <3>2. watches[j] \in Streams \ {f} /\ watches[j] # watches[i]
        BY <2>1, <3>1 DEF WatchesDiffer
      <3>3. stream'[watches[j]] = stream[watches[j]]
        BY <2>4, <3>2 DEF Aborts
      <3> QED BY <3>1, <3>3 DEF WatchesAreStages
    <2>9. WatchesDiffer'
      BY <2>2 DEF WatchesDiffer
    <2>10. OpeningIsReplied'
      <3>1. \A g \in Streams : stream'[g].state = "opening" <=> g = f
        BY <2>2, <2>3, <2>4 DEF OpeningIsReplied, Aborts
      <3> QED BY <2>2, <2>3, <2>5, <3>1 DEF OpeningIsReplied
    <2> QED BY <2>6, <2>7, <2>8, <2>9, <2>10 DEF Registered
  <1>5. ASSUME Refuse(i) \/ Unwatch(i) PROVE Registered'
    BY <1>3, <1>5 DEF Refuse, Unwatch, Dropped, Listening
  <1> QED BY <1>4, <1>5

LEMMA EmitRegistered ==
  ASSUME SessionInv, Emit
  PROVE  Registered'
  <1> USE SessionFacts DEF HaveInstrument, NoOrphans, WatchesAreStages, WatchesDiffer,
                           OpeningIsReplied, ClosedIsEmpty, Snaps, Stages
  <1>1. CASE reply.kind = "snap"
    <2>1. reply.stream \in Streams /\ reply.inst \in Instruments
      BY <1>1, MessageFields DEF Emit, SessionInv, TypeInv, QueueSound, Shows
    <2>2. /\ open /\ open' = open /\ reply' = None /\ reply # None
          /\ stream' = [stream EXCEPT ![reply.stream].state = "parked"]
          /\ watches' = [watches EXCEPT ![reply.inst] = reply.stream]
      BY <1>1 DEF Emit
    <2>3. /\ stream'[reply.stream].state = "parked"
          /\ stream'[reply.stream].inst = stream[reply.stream].inst
          /\ \A g \in Streams \ {reply.stream} : stream'[g] = stream[g]
      BY <2>1, <2>2 DEF SessionInv, TypeInv, StreamsSound, Sound, StreamState
    <2>4. /\ stream[reply.stream].state = "opening" /\ stream[reply.stream].inst = reply.inst
          /\ watches[reply.inst] = None
      BY <1>1, <2>1, <2>2
    <2>5. \A j \in Instruments : watches[j] # reply.stream
      BY <2>1, <2>4
    <2>6. HaveInstrument' /\ ClosedIsEmpty'
      BY <2>1, <2>2, <2>3, <2>4
    <2>7. NoOrphans'
      BY <2>1, <2>2, <2>3, <2>4
    <2>8. WatchesAreStages' /\ WatchesDiffer'
      BY <2>1, <2>2, <2>3, <2>4, <2>5
    <2>9. OpeningIsReplied'
      BY <1>1, <2>1, <2>2, <2>3
    <2> QED BY <2>6, <2>7, <2>8, <2>9 DEF Registered
  <1>2. CASE reply.kind # "snap"
    <2>1. UNCHANGED <<stream, watches, open>> /\ open /\ reply' = None
      BY <1>2 DEF Emit
    <2> QED BY <1>2, <2>1 DEF Registered
  <1> QED BY <1>1, <1>2

LEMMA EndRegistered ==
  ASSUME SessionInv, End
  PROVE  Registered'
  <1>1. \A f \in Streams : /\ stream'[f].state \in {"free", "doomed"}
                           /\ stream'[f].state = "doomed" => stream'[f].inst = stream[f].inst
                                                             /\ stream[f].state # "free"
    BY AbortedIsSound DEF End, SessionInv, TypeInv, StreamsSound
  <1>2. reply = None /\ reply' = None /\ ~open' /\ watches' = [i \in Instruments |-> None]
    BY DEF End, Listening
  <1> QED BY <1>1, <1>2, SessionFacts
          DEF Registered, HaveInstrument, NoOrphans, WatchesAreStages, WatchesDiffer,
              OpeningIsReplied, ClosedIsEmpty, Snaps, Stages

LEMMA ForwardRegistered ==
  ASSUME SessionInv, NEW f \in Streams, Forward(f)
  PROVE  Registered'
  <1>1. /\ UNCHANGED <<watches, reply, open>> /\ Moves(f)
        /\ \A g \in Streams \ {f} : stream'[g] = stream[g]
    <2> USE SessionFacts DEF Set, Moves, Stages
    <2>1. CASE Recv(f)
      BY <2>1 DEF Recv, Task
    <2>2. CASE Skip(f)
      BY <2>2 DEF Skip, Polled, SessionInv, TypeInv, StreamsSound, Sound, StreamState
    <2>3. CASE Send(f)
      BY <2>3 DEF Send, Task
    <2>4. CASE Park(f)
      BY <2>4 DEF Park, Polled, SessionInv, TypeInv, StreamsSound, Sound, StreamState
    <2> QED BY <2>1, <2>2, <2>3, <2>4 DEF Forward
  <1> QED BY <1>1, ForwardersMove DEF Stays

LEMMA NextRegistered == SessionInv /\ [Next]_vars => Registered'
  <1> SUFFICES ASSUME SessionInv, [Next]_vars PROVE Registered'
    OBVIOUS
  <1>1. ASSUME NEW i \in Instruments, Record(i) PROVE Registered'
    <2>1. \A f \in Streams : Stays(f)
      BY <1>1 DEF Record, Task, Stays
    <2> QED BY <1>1, <2>1, ForwardersMove DEF Record
  <1>2. CASE Answer
    BY <1>2, SessionFacts DEF Answer, Listening, Registered, HaveInstrument, NoOrphans,
       WatchesAreStages, WatchesDiffer, OpeningIsReplied, ClosedIsEmpty, Snaps
  <1>3. CASE UNCHANGED <<stream, watches, reply, open>>
    BY <1>3, ForwardersMove DEF Stays
  <1> QED BY <1>1, <1>2, <1>3, SessionRegistered, EmitRegistered, EndRegistered, ForwardRegistered
          DEF Next, Alert, Deliver, WriterFails, vars, sysVars

LEMMA InvariantKept == SessionInv /\ [Next]_vars => SessionInv'
  BY NextTypes, NextRegistered DEF SessionInv

(* The types of the session, its tasks and its queue, together with the       *)
(* registration of every forwarder that still runs, hold in every reachable   *)
(* state; both need each other (ws.rs:256-276, 355).                          *)
THEOREM Invariant == Spec => []SessionInv
  <1>1. Init => SessionInv
    BY InitTypes, InitRegistered DEF SessionInv
  <1> QED BY <1>1, InvariantKept, PTL DEF Spec

(* Every variable of the session keeps its type: the outbound queue and the *)
(* channel of a forwarder stay within their capacity (ws.rs:61, 188).       *)
THEOREM TypeCorrect == Spec => []TypeOK
  BY Invariant, TypesAreRight, PTL DEF SessionInv

(* A forwarder that is not on its way out belongs to an open session, which *)
(* has it registered under its instrument (ws.rs:256-259, 355).             *)
THEOREM NoneOrphaned == Spec => []NoOrphans
  BY Invariant, PTL DEF SessionInv, Registered

-----------------------------------------------------------------------------
(* The watch limit *)

Watched == {j \in Instruments : watches[j] # None}

(* While a snapshot is on its way to the channel, its watch is not counted  *)
(* yet: there must be room for it.                                          *)
WithinCap ==
  /\ IsFiniteSet(Watched) /\ Cardinality(Watched) <= MaxWatches
  /\ reply # None /\ reply.kind = "snap" => Cardinality(Watched) < MaxWatches

LEMMA FewerWatched ==
  ASSUME WithinCap, Watched' \subseteq Watched
  PROVE  /\ IsFiniteSet(Watched') /\ Cardinality(Watched') \in Nat
         /\ Cardinality(Watched') <= Cardinality(Watched) /\ Cardinality(Watched) \in Nat
  BY FS_Subset, FS_CardinalityType DEF WithinCap

LEMMA CapKept == SessionInv /\ WithinCap /\ [Next]_vars => WithinCap'
  <1> SUFFICES ASSUME SessionInv, WithinCap, [Next]_vars PROVE WithinCap'
    OBVIOUS
  <1>0. MaxWatches \in Nat /\ Cardinality(Watched) \in Nat
    BY SessionAssumption, FS_CardinalityType DEF WithinCap
  <1>1. ASSUME Watched' \subseteq Watched, reply' = reply \/ reply' \in {None, Answered}
        PROVE  WithinCap'
    BY <1>0, <1>1, FewerWatched, SessionFacts DEF WithinCap
  <1>2. ASSUME NEW i \in Instruments, Watch(i) PROVE WithinCap'
    <2>1. /\ Watched' = Others(i) /\ Watched' \subseteq Watched
          /\ Cardinality(Others(i)) < MaxWatches
      BY <1>2, SessionFacts DEF Watch, Watched, Others, WithinLimit
    <2> QED BY <1>0, <2>1, FewerWatched DEF WithinCap
  <1>3. CASE Emit
    <2>1. CASE reply.kind = "snap"
      <3>1. reply.inst \in Instruments /\ reply.stream \in Streams /\ reply # None
        BY <1>3, <2>1, MessageFields DEF Emit, SessionInv, TypeInv, QueueSound, Shows
      <3>2. Watched' = Watched \cup {reply.inst} /\ reply' = None
        BY <1>3, <2>1, <3>1, SessionFacts DEF Emit, Watched
      <3>3. Cardinality(Watched) < MaxWatches
        BY <2>1, <3>1 DEF WithinCap
      <3> QED BY <1>0, <3>2, <3>3, FS_AddElement DEF WithinCap
    <2>2. CASE reply.kind # "snap"
      BY <1>1, <1>3, <2>2 DEF Emit, Watched
    <2> QED BY <2>1, <2>2
  <1>4. ASSUME NEW i \in Instruments, Refuse(i) \/ Unwatch(i) PROVE WithinCap'
    <2>1. Watched' \subseteq Watched
      BY <1>4, SessionFacts DEF Refuse, Unwatch, Watched
    <2> QED BY <1>1, <1>4, <2>1 DEF Refuse, Unwatch
  <1>5. CASE End
    <2>1. Watched' = {} /\ reply' = reply
      BY <1>5 DEF End, Watched
    <2> QED BY <1>1, <2>1
  <1>6. CASE UNCHANGED watches /\ reply' \in {reply, Answered}
    <2>1. Watched' = Watched
      BY <1>6 DEF Watched
    <2> QED BY <1>1, <1>6, <2>1
  <1> QED BY <1>2, <1>3, <1>4, <1>5, <1>6
          DEF Next, Forward, Record, Answer, Alert, Deliver, WriterFails, Recv, Skip, Send, Park,
              vars, sysVars

(* A session never keeps more forwarders than the configured limit, the one *)
(* that waits for its snapshot to be queued included, even when an          *)
(* instrument is watched again (ws.rs:256-276).                             *)
THEOREM CapHolds == Spec => []WatchCap
  <1> DEFINE Kept == {f \in Streams : stream[f].state \in {"opening", "parked", "running", "blocked"}}
             Homes == IF reply # None /\ reply.kind = "snap" THEN Watched \cup {reply.inst} ELSE Watched
  <1>1. Init => WithinCap
    <2> SUFFICES ASSUME Init PROVE WithinCap
      OBVIOUS
    <2>1. Watched = {} /\ reply = None
      BY DEF Init, Watched
    <2> QED BY <2>1, FS_EmptySet, SessionAssumption DEF WithinCap
  <1>2. SessionInv /\ WithinCap => WatchCap
    <2> SUFFICES ASSUME SessionInv, WithinCap PROVE Cardinality(Kept) <= MaxWatches
      BY DEF WatchCap
    <2>0. IsFiniteSet(Homes) /\ Cardinality(Homes) <= MaxWatches
      <3>1. CASE reply # None /\ reply.kind = "snap"
        <4>1. Homes = Watched \cup {reply.inst} /\ IsFiniteSet(Watched) /\ Cardinality(Watched) < MaxWatches
          BY <3>1 DEF WithinCap
        <4>2. /\ IsFiniteSet(Homes) /\ Cardinality(Watched) \in Nat /\ MaxWatches \in Nat
              /\ Cardinality(Homes) \in {Cardinality(Watched), Cardinality(Watched) + 1}
          BY <4>1, FS_AddElement, FS_CardinalityType, SessionAssumption
        <4> QED BY <4>1, <4>2
      <3>2. CASE ~(reply # None /\ reply.kind = "snap")
        BY <3>2 DEF WithinCap
      <3> QED BY <3>1, <3>2
    <2> DEFINE home == [f \in Kept |-> stream[f].inst]
    \* A watch that is being opened is that of the reply, and not registered yet.
    <2>1. ASSUME NEW f \in Kept, stream[f].state = "opening"
          PROVE  Homes = Watched \cup {reply.inst} /\ home[f] = reply.inst /\ reply.stream = f
                 /\ reply.inst \notin Watched
      BY <2>1, SessionFacts DEF OpeningIsReplied, Snaps, Watched
    <2>2. ASSUME NEW f \in Kept, stream[f].state # "opening"
          PROVE  home[f] \in Watched /\ Watched \subseteq Homes /\ watches[home[f]] = f
      BY <2>2, SessionFacts DEF NoOrphans, HaveInstrument, Watched
    <2> HIDE DEF Homes
    <2>3. home \in Injection(Kept, Homes)
      <3>1. home \in [Kept -> Homes]
        BY <2>1, <2>2
      <3>2. \A f, g \in Kept : home[f] = home[g] => f = g
        BY <2>1, <2>2
      <3> HIDE DEF home
      <3> QED BY <3>1, <3>2 DEF Injection, IsInjective
    <2>4. Cardinality(Kept) <= Cardinality(Homes) /\ IsFiniteSet(Kept)
      BY <2>0, <2>3, FS_Injection DEF ExistsInjection
    <2>5. /\ Cardinality(Kept) \in Nat /\ Cardinality(Homes) \in Nat
          /\ Cardinality(Homes) <= MaxWatches /\ MaxWatches \in Nat
      BY <2>0, <2>4, FS_CardinalityType, SessionAssumption
    <2> HIDE DEF Kept
    <2> QED BY <2>4, <2>5
  <1> QED BY <1>1, <1>2, Invariant, CapKept, PTL DEF Spec

-----------------------------------------------------------------------------
(* Contiguity.  What exists of stream f, as sets of sample numbers from the *)
(* client back to the tape: the last one shown, those on the channel, the   *)
(* one the session task is sending, the one in hand, the unread ones.       *)

ShownOf(f)  == {shown[f]} \ {None}
PlacesOf(f) == {k \in 1..Len(outq) : IsOf(outq[k], f)}
QueuedOf(f) == {outq[k].n : k \in PlacesOf(f)}
ReplyOf(f)  == IF Snaps(f) THEN {reply.n} ELSE {}
HoldOf(f)   == {stream[f].hold} \ {None}
NumbersIn(q) == {q[p] : p \in 1..Len(q)}
FeedOf(f)   == NumbersIn(stream[f].feed)

AllOf(f) == ShownOf(f) \cup QueuedOf(f) \cup ReplyOf(f) \cup HoldOf(f) \cup FeedOf(f)

Below(A, B) == \A a \in A, b \in B : a < b

(* Each part is older than the parts nearer to the tape; a snapshot that is *)
(* being sent is the first number of its stream.                            *)
Layered(S, Q, R, H, F) ==
  /\ Below(S, Q)
  /\ Below(S, H) /\ Below(Q, H) /\ Below(R, H)
  /\ Below(S, F) /\ Below(Q, F) /\ Below(R, F) /\ Below(H, F)
  /\ R # {} => S = {} /\ Q = {}

LayersOf(f) == Layered(ShownOf(f), QueuedOf(f), ReplyOf(f), HoldOf(f), FeedOf(f))

QueueRises(f) == \A k, l \in PlacesOf(f) : k < l => outq[k].n < outq[l].n
Rising(q) == \A k, l \in 1..Len(q) : k < l => q[k] < q[l]

Started(f) == ShownOf(f) \cup QueuedOf(f) \cup ReplyOf(f) # {}

Filled(N, top) == \A m \in N : m..top \subseteq N

Chain(f) ==
  /\ LayersOf(f) /\ QueueRises(f) /\ Rising(stream[f].feed) /\ Started(f)
  /\ AllOf(f) \subseteq 1..newest[stream[f].inst]
  /\ ~lost[f] => Filled(AllOf(f), newest[stream[f].inst])

Chained == \A f \in Streams : writing /\ stream[f].state # "free" => Chain(f)

LEMMA InitChained == Init => Chained
  BY NobodyIsSound DEF Init, Chained

LEMMA QueueAppend ==
  ASSUME outq \in Seq(Message), NEW m \in Message, outq' = Append(outq, m), NEW f \in Streams
  PROVE  /\ IsOf(m, f) => /\ QueuedOf(f)' = QueuedOf(f) \cup {m.n}
                          /\ QueueRises(f) /\ Below(QueuedOf(f), {m.n}) => QueueRises(f)'
         /\ ~IsOf(m, f) => /\ QueuedOf(f)' = QueuedOf(f)
                           /\ QueueRises(f) => QueueRises(f)'
  <1>1. /\ Len(outq) \in Nat /\ Len(outq') = Len(outq) + 1 /\ outq'[Len(outq) + 1] = m
        /\ \A k \in 1..Len(outq) : outq'[k] = outq[k]
    BY AppendOf
  <1>2. PlacesOf(f)' = PlacesOf(f) \cup (IF IsOf(m, f) THEN {Len(outq) + 1} ELSE {})
    BY <1>1 DEF PlacesOf, IsOf
  <1>3. PlacesOf(f) \subseteq 1..Len(outq)
    BY DEF PlacesOf
  <1>4. \A k \in PlacesOf(f) : outq'[k] = outq[k] /\ k < Len(outq) + 1 /\ ~(Len(outq) + 1 < k)
    BY <1>1, <1>3
  <1>5. ~IsOf(m, f) => QueuedOf(f)' = QueuedOf(f) /\ (QueueRises(f) => QueueRises(f)')
    BY <1>2, <1>4 DEF QueuedOf, QueueRises
  <1>6. IsOf(m, f) => QueuedOf(f)' = QueuedOf(f) \cup {m.n}
    <2> SUFFICES ASSUME IsOf(m, f) PROVE QueuedOf(f)' = QueuedOf(f) \cup {m.n}
      OBVIOUS
    <2>1. PlacesOf(f)' = PlacesOf(f) \cup {Len(outq) + 1}
      BY <1>2
    <2>2. QueuedOf(f)' = {outq'[k].n : k \in PlacesOf(f) \cup {Len(outq) + 1}}
      BY <2>1 DEF QueuedOf
    <2>3. {outq'[k].n : k \in PlacesOf(f)} = QueuedOf(f)
      BY <1>4 DEF QueuedOf
    <2> QED BY <1>1, <2>2, <2>3
  <1>7. ASSUME IsOf(m, f), QueueRises(f), Below(QueuedOf(f), {m.n}) PROVE QueueRises(f)'
    <2>1. PlacesOf(f)' = PlacesOf(f) \cup {Len(outq) + 1}
      BY <1>2, <1>7
    <2>2. \A k \in PlacesOf(f) : outq[k].n < m.n
      BY <1>7 DEF Below, QueuedOf
    <2>3. ASSUME NEW k \in PlacesOf(f)', NEW l \in PlacesOf(f)', k < l PROVE outq'[k].n < outq'[l].n
      <3>1. k \in PlacesOf(f)
        BY <1>1, <1>3, <1>4, <2>1, <2>3
      <3>2. CASE l \in PlacesOf(f)
        BY <1>4, <1>7, <2>3, <3>1, <3>2 DEF QueueRises
      <3>3. CASE l = Len(outq) + 1
        BY <1>1, <1>4, <2>2, <3>1, <3>3
      <3> QED BY <2>1, <3>2, <3>3
    <2> QED BY <2>3 DEF QueueRises
  <1> QED BY <1>5, <1>6, <1>7

LEMMA QueueTail ==
  ASSUME outq \in Seq(Message), outq # <<>>, outq' = Tail(outq), NEW f \in Streams, QueueRises(f)
  PROVE  /\ QueueRises(f)'
         /\ IsOf(Head(outq), f) => /\ QueuedOf(f) = QueuedOf(f)' \cup {Head(outq).n}
                                   /\ Below({Head(outq).n}, QueuedOf(f)')
         /\ ~IsOf(Head(outq), f) => QueuedOf(f)' = QueuedOf(f)
  <1>1. /\ Len(outq) \in Nat \ {0} /\ Len(outq') = Len(outq) - 1 /\ Head(outq) = outq[1]
        /\ \A k \in 1..Len(outq) - 1 : outq'[k] = outq[k + 1]
    BY TailOf
  <1>2. \A k \in PlacesOf(f)' : k \in Nat /\ k + 1 \in PlacesOf(f) /\ 1 < k + 1 /\ outq'[k] = outq[k + 1]
    BY <1>1 DEF PlacesOf, IsOf
  <1>3. \A k \in PlacesOf(f) : k = 1 \/ (k - 1 \in PlacesOf(f)' /\ outq'[k - 1] = outq[k])
    BY <1>1 DEF PlacesOf, IsOf
  <1>4. 1 \in PlacesOf(f) <=> IsOf(Head(outq), f)
    BY <1>1 DEF PlacesOf, IsOf
  <1>5. QueueRises(f)'
    <2> SUFFICES ASSUME NEW k \in PlacesOf(f)', NEW l \in PlacesOf(f)', k < l
                 PROVE  outq'[k].n < outq'[l].n
      BY DEF QueueRises
    <2>1. k + 1 < l + 1 /\ k + 1 \in PlacesOf(f) /\ l + 1 \in PlacesOf(f)
      BY <1>2
    <2>2. outq[k + 1].n < outq[l + 1].n
      BY <2>1 DEF QueueRises
    <2> QED BY <1>2, <2>2
  <1>6. QueuedOf(f)' \subseteq QueuedOf(f)
    BY <1>2 DEF QueuedOf
  <1>7. \A x \in QueuedOf(f) : x \in QueuedOf(f)' \/ (1 \in PlacesOf(f) /\ x = Head(outq).n)
    <2> SUFFICES ASSUME NEW k \in PlacesOf(f)
                 PROVE  outq[k].n \in QueuedOf(f)' \/ (1 \in PlacesOf(f) /\ outq[k].n = Head(outq).n)
      BY DEF QueuedOf
    <2>1. CASE k = 1
      BY <1>1, <2>1
    <2>2. CASE k - 1 \in PlacesOf(f)' /\ outq'[k - 1] = outq[k]
      BY <2>2 DEF QueuedOf
    <2> QED BY <1>3, <2>1, <2>2
  <1>8. IsOf(Head(outq), f) => Head(outq).n \in QueuedOf(f) /\ Below({Head(outq).n}, QueuedOf(f)')
    BY ZenonT(30), <1>1, <1>2, <1>4 DEF QueuedOf, QueueRises, Below
  <1> QED BY <1>4, <1>5, <1>6, <1>7, <1>8

LEMMA FeedAppend ==
  ASSUME NEW q \in Seq(1..MaxSample), NEW n \in 1..MaxSample
  PROVE  /\ NumbersIn(Append(q, n)) = NumbersIn(q) \cup {n}
         /\ Rising(q) /\ Below(NumbersIn(q), {n}) => Rising(Append(q, n))
  <1>1. /\ Append(q, n) \in Seq(1..MaxSample) /\ Len(q) \in Nat /\ Len(Append(q, n)) = Len(q) + 1
        /\ Append(q, n)[Len(q) + 1] = n /\ \A k \in 1..Len(q) : Append(q, n)[k] = q[k]
    BY AppendOf
  <1> DEFINE r == Append(q, n)
  <1> HIDE DEF r
  <1>2. NumbersIn(r) = NumbersIn(q) \cup {n}
    BY <1>1 DEF r, NumbersIn
  <1>3. Rising(q) /\ Below(NumbersIn(q), {n}) => Rising(r)
    BY <1>1 DEF r, Rising, Below, NumbersIn
  <1> QED BY <1>2, <1>3 DEF r

LEMMA FeedTail ==
  ASSUME NEW q \in Seq(1..MaxSample), q # <<>>, Rising(q)
  PROVE  /\ Rising(Tail(q)) /\ Head(q) \in 1..MaxSample
         /\ NumbersIn(q) = NumbersIn(Tail(q)) \cup {Head(q)}
         /\ Below({Head(q)}, NumbersIn(Tail(q)))
  <1>1. /\ Len(q) \in Nat \ {0} /\ Len(Tail(q)) = Len(q) - 1 /\ Head(q) = q[1] /\ Head(q) \in 1..MaxSample
        /\ \A k \in 1..Len(q) - 1 : Tail(q)[k] = q[k + 1]
    BY TailOf
  <1> DEFINE r == Tail(q)
  <1> HIDE DEF r
  <1>2. Rising(r)
    BY <1>1 DEF r, Rising
  <1>3. ASSUME NEW p \in 1..Len(q) PROVE q[p] \in NumbersIn(r) \cup {q[1]}
    <2>1. CASE p = 1
      BY <2>1 DEF NumbersIn
    <2>2. CASE p # 1
      <3>1. p - 1 \in 1..Len(r) /\ r[p - 1] = q[p]
        BY <1>1, <2>2 DEF r
      <3> QED BY <3>1 DEF NumbersIn
    <2> QED BY <2>1, <2>2
  <1>4. \A k \in 1..Len(r) : k + 1 \in 1..Len(q) /\ r[k] = q[k + 1] /\ q[1] < q[k + 1]
    BY <1>1 DEF r, Rising
  <1>5. NumbersIn(r) \subseteq NumbersIn(q)
    BY <1>4 DEF NumbersIn
  <1>6. 1 \in 1..Len(q)
    BY <1>1
  <1>7. Below({q[1]}, NumbersIn(r))
    BY <1>4 DEF Below, NumbersIn
  <1> QED BY ZenonT(30), <1>1, <1>2, <1>3, <1>5, <1>6, <1>7 DEF r, NumbersIn

(* What exists of f is unchanged. *)
SameChain(f) ==
  /\ shown'[f] = shown[f] /\ lost'[f] = lost[f]
  /\ ReplyOf(f)' = ReplyOf(f)
  /\ stream'[f].inst = stream[f].inst
  /\ stream'[f].hold = stream[f].hold /\ stream'[f].feed = stream[f].feed

LEMMA ChainSame ==
  ASSUME SessionInv, NEW f \in Streams, Chain(f), SameChain(f), newest' = newest,
         outq' = outq \/ (/\ outq # <<>> /\ outq' = Tail(outq) /\ ~IsOf(Head(outq), f))
                      \/ \E m \in Message : outq' = Append(outq, m) /\ ~IsOf(m, f)
  PROVE  Chain(f)'
  <1>1. outq \in Seq(Message)
    BY DEF SessionInv, TypeInv, QueueSound
  <1>2. QueuedOf(f)' = QueuedOf(f) /\ QueueRises(f)'
    <2>1. CASE outq' = outq
      BY <2>1 DEF QueuedOf, QueueRises, PlacesOf, Chain
    <2>2. CASE outq # <<>> /\ outq' = Tail(outq) /\ ~IsOf(Head(outq), f)
      BY <1>1, <2>2, QueueTail DEF Chain
    <2>3. CASE \E m \in Message : outq' = Append(outq, m) /\ ~IsOf(m, f)
      BY <1>1, <2>3, QueueAppend DEF Chain
    <2> QED BY <2>1, <2>2, <2>3
  <1>3. /\ ShownOf(f)' = ShownOf(f) /\ ReplyOf(f)' = ReplyOf(f) /\ HoldOf(f)' = HoldOf(f)
        /\ FeedOf(f)' = FeedOf(f)
    BY DEF SameChain, ShownOf, HoldOf, FeedOf
  <1>4. AllOf(f)' = AllOf(f) /\ LayersOf(f)' /\ Started(f)'
    BY <1>2, <1>3 DEF AllOf, LayersOf, Started, Chain
  <1> QED BY <1>2, <1>4 DEF Chain, SameChain

LEMMA ChainFacts ==
  ASSUME SessionInv, NEW f \in Streams, Chain(f), stream[f].state # "free"
  PROVE  /\ stream[f].inst \in Instruments /\ newest[stream[f].inst] \in 0..MaxSample
         /\ stream[f].feed \in Seq(1..MaxSample) /\ stream[f].hold \in 1..MaxSample \cup {None}
         /\ AllOf(f) \subseteq Nat /\ None \notin Nat
         /\ ReplyOf(f) # {} <=> stream[f].state = "opening"
         /\ reply = None => ReplyOf(f) = {}
         /\ MaxSample \in Nat
  <1>1. /\ MaxSample \in Nat /\ None \notin Nat /\ stream[f].inst \in Instruments
        /\ newest[stream[f].inst] \in 0..MaxSample
    BY SessionFacts, SessionAssumption DEF HaveInstrument, SessionInv, TypeInv, SessionSound
  <1>2. /\ stream[f].feed \in Seq(1..MaxSample) /\ stream[f].hold \in 1..MaxSample \cup {None}
    BY DEF SessionInv, TypeInv, StreamsSound, Sound, StreamState
  <1>3. AllOf(f) \subseteq Nat
    BY <1>1 DEF Chain
  <1>4. /\ ReplyOf(f) # {} <=> Snaps(f)
        /\ Snaps(f) <=> stream[f].state = "opening"
        /\ reply = None => ~Snaps(f)
    BY SessionFacts DEF OpeningIsReplied, ReplyOf, Snaps
  <1> QED BY <1>1, <1>2, <1>3, <1>4

LEMMA RecordChains ==
  ASSUME SessionInv, NEW i \in Instruments, Record(i), NEW f \in Streams, Chain(f),
         stream[f].state \in Subscribed
  PROVE  Chain(f)'
  <1> DEFINE full == Len(stream[f].feed) = LiveCap
             kept == IF full THEN Tail(stream[f].feed) ELSE stream[f].feed
             top  == newest[stream[f].inst]
  <1>1. /\ UNCHANGED <<watches, reply, outq, raised, open, writing, shown>>
        /\ newest' = [newest EXCEPT ![i] = @ + 1] /\ newest[i] < MaxSample
        /\ stream'[f] = IF stream[f].inst = i
                        THEN Task(stream[f].state, i, Append(kept, newest'[i]), stream[f].hold)
                        ELSE stream[f]
        /\ lost'[f] = (lost[f] \/ (stream[f].inst = i /\ full))
    BY DEF Record
  <1>2. /\ QueuedOf(f)' = QueuedOf(f) /\ QueueRises(f)' /\ ShownOf(f)' = ShownOf(f)
        /\ ReplyOf(f)' = ReplyOf(f)
    BY <1>1 DEF QueuedOf, QueueRises, PlacesOf, Chain, ShownOf, ReplyOf, Snaps
  <1>3. /\ stream[f].inst \in Instruments /\ top \in 0..MaxSample
        /\ stream[f].feed \in Seq(1..MaxSample)
        /\ AllOf(f) \subseteq 1..top /\ MaxSample \in Nat
    BY ChainFacts DEF Subscribed, States, Chain
  <1>4. CASE stream[f].inst # i
    <2>1. newest'[stream[f].inst] = newest[stream[f].inst] /\ stream'[f] = stream[f]
      BY <1>1, <1>3, <1>4 DEF SessionInv, TypeInv, SessionSound
    <2>2. lost'[f] = lost[f]
      BY <1>1, <1>4 DEF SessionInv, TypeInv, SessionSound
    <2> QED BY <1>2, <2>1, <2>2
            DEF Chain, AllOf, LayersOf, Started, HoldOf, FeedOf
  <1>5. CASE stream[f].inst = i
    <2>1. newest'[i] = top + 1 /\ newest'[i] \in 1..MaxSample /\ top \in Nat
      BY <1>1, <1>3, <1>5 DEF SessionInv, TypeInv, SessionSound
    <2>2. /\ kept \in Seq(1..MaxSample) /\ Rising(kept) /\ NumbersIn(kept) \subseteq FeedOf(f)
          /\ ~full => NumbersIn(kept) = FeedOf(f)
      <3>1. CASE full
        <4>1. stream[f].feed # <<>>
          BY <1>3, <3>1, SessionAssumption
        <4>2. kept = Tail(stream[f].feed)
          BY <3>1
        <4>3. Tail(stream[f].feed) \in Seq(1..MaxSample)
          BY <1>3, <4>1, TailOf
        <4> HIDE DEF kept
        <4> QED BY <1>3, <3>1, <4>1, <4>2, <4>3, FeedTail DEF Chain, FeedOf
      <3>2. CASE ~full
        BY <1>3, <3>2 DEF Chain, FeedOf
      <3> QED BY <3>1, <3>2
    <2> HIDE DEF kept, full
    <2>3. Below(AllOf(f), {top + 1})
      BY <1>3, <2>1 DEF Below
    <2>4. FeedOf(f)' = NumbersIn(kept) \cup {top + 1} /\ Rising(stream'[f].feed)
      <3>1. stream'[f].feed = Append(kept, top + 1)
        BY <1>1, <1>5, <2>1 DEF Task
      <3>2. Below(NumbersIn(kept), {top + 1})
        BY <2>2, <2>3 DEF Below, AllOf
      <3> QED BY <2>1, <2>2, <3>1, <3>2, FeedAppend DEF FeedOf
    <2>5. HoldOf(f)' = HoldOf(f) /\ stream'[f].inst = i
      BY <1>1, <1>5 DEF HoldOf, Task
    <2>6. LayersOf(f)'
      BY <1>2, <2>2, <2>3, <2>4, <2>5 DEF LayersOf, Layered, Chain, Below, AllOf
    <2>7. AllOf(f)' \subseteq AllOf(f) \cup {top + 1}
      BY <1>2, <2>2, <2>4, <2>5 DEF AllOf
    <2>8. ~full => AllOf(f)' = AllOf(f) \cup {top + 1}
      BY <1>2, <2>2, <2>4, <2>5 DEF AllOf
    <2>9. ASSUME ~lost'[f] PROVE Filled(AllOf(f)', newest'[i])
      <3>1. ~lost[f] /\ ~full
        BY <1>1, <1>5, <2>9 DEF SessionInv, TypeInv, SessionSound
      <3>2. Filled(AllOf(f), top)
        BY <3>1 DEF Chain
      <3> HIDE DEF top
      <3> QED BY <1>3, <2>1, <2>8, <3>1, <3>2 DEF Filled
    <2>10. Started(f)'
      BY <1>2 DEF Started, Chain
    <2>11. AllOf(f)' \subseteq 1..newest'[i]
      BY <1>3, <2>1, <2>7
    <2> QED BY <1>2, <2>4, <2>5, <2>6, <2>9, <2>10, <2>11 DEF Chain
  <1> QED BY <1>4, <1>5

(* What exists of f is the same set of numbers, one of which has moved on    *)
(* towards the client.                                                      *)
LEMMA ChainAdvances ==
  ASSUME SessionInv, NEW f \in Streams, Chain(f), newest' = newest, lost'[f] = lost[f],
         stream'[f].inst = stream[f].inst, AllOf(f)' = AllOf(f), LayersOf(f)', QueueRises(f)',
         Rising(stream'[f].feed), Started(f)'
  PROVE  Chain(f)'
  BY DEF Chain

LEMMA ForwardChains ==
  ASSUME SessionInv, NEW f \in Streams, Forward(f), Chain(f), writing, stream[f].state # "free",
         stream'[f].state # "free"
  PROVE  Chain(f)'
  <1>0. /\ outq \in Seq(Message) /\ stream[f] \in StreamState
        /\ stream = [g \in Streams |-> stream[g]] /\ lost \in [Streams -> BOOLEAN]
    BY DEF SessionInv, TypeInv, QueueSound, StreamsSound, Sound, SessionSound
  <1>1. CASE Recv(f)
    <2> DEFINE st == IF stream[f].state = "parked" THEN "running" ELSE stream[f].state
    <2>1. /\ stream[f].hold = None /\ stream[f].feed # <<>> /\ stream[f].state # "opening"
          /\ stream'[f] = Task(st, stream[f].inst, Tail(stream[f].feed), Head(stream[f].feed))
          /\ UNCHANGED <<newest, watches, reply, outq, raised, open, writing, shown, lost>>
      BY <1>0, <1>1 DEF Recv, Set
    <2>2. /\ stream'[f].hold = Head(stream[f].feed) /\ stream'[f].feed = Tail(stream[f].feed)
          /\ stream'[f].inst = stream[f].inst
      BY <2>1 DEF Task
    <2>3. /\ QueuedOf(f)' = QueuedOf(f) /\ QueueRises(f)' /\ ShownOf(f)' = ShownOf(f)
          /\ ReplyOf(f)' = ReplyOf(f) /\ HoldOf(f) = {}
      BY <2>1 DEF QueuedOf, QueueRises, PlacesOf, Chain, ShownOf, ReplyOf, Snaps, HoldOf
    <2>4. /\ Rising(stream'[f].feed) /\ stream'[f].hold \in 1..MaxSample
          /\ FeedOf(f) = FeedOf(f)' \cup {stream'[f].hold} /\ Below({stream'[f].hold}, FeedOf(f)')
      BY <2>1, <2>2, FeedTail, ChainFacts DEF Chain, FeedOf
    <2>5. HoldOf(f)' = {stream'[f].hold}
      BY <2>4, ChainFacts DEF HoldOf
    <2>6. AllOf(f)' = AllOf(f)
      BY <2>3, <2>4, <2>5 DEF AllOf
    <2>7. LayersOf(f)' /\ Started(f)'
      BY <2>3, <2>4, <2>5 DEF LayersOf, Layered, Below, Chain, Started
    <2> QED BY <2>1, <2>2, <2>3, <2>4, <2>6, <2>7, ChainAdvances
  <1>2. CASE Skip(f)
    <2>1. /\ stream'[f].inst = stream[f].inst /\ stream'[f].feed = stream[f].feed
          /\ stream'[f].hold = None /\ lost'[f]
          /\ UNCHANGED <<newest, watches, reply, outq, raised, open, writing, shown>>
      BY <1>0, <1>2 DEF Skip, Set, StreamState
    <2>2. /\ QueuedOf(f)' = QueuedOf(f) /\ QueueRises(f)' /\ ShownOf(f)' = ShownOf(f)
          /\ ReplyOf(f)' = ReplyOf(f) /\ HoldOf(f)' = {} /\ FeedOf(f)' = FeedOf(f)
      BY <2>1 DEF QueuedOf, QueueRises, PlacesOf, Chain, ShownOf, ReplyOf, Snaps, HoldOf, FeedOf
    <2>3. AllOf(f)' \subseteq AllOf(f) /\ LayersOf(f)' /\ Started(f)'
      BY <2>2 DEF AllOf, LayersOf, Layered, Below, Chain, Started
    <2> QED BY <2>1, <2>2, <2>3 DEF Chain
  <1>3. CASE Send(f)
    <2> DEFINE st == IF stream[f].state = "blocked" THEN "running" ELSE stream[f].state
    <2>1. /\ stream[f].hold # None /\ stream[f].state # "opening"
          /\ outq' = Append(outq, TickOf(f))
          /\ stream'[f] = Task(st, stream[f].inst, stream[f].feed, None)
          /\ UNCHANGED <<newest, watches, reply, raised, open, writing, shown, lost>>
      BY <1>0, <1>3 DEF Send, Set
    <2>2. /\ stream'[f].hold = None /\ stream'[f].feed = stream[f].feed
          /\ stream'[f].inst = stream[f].inst
      BY <2>1 DEF Task
    <2>3. /\ TickOf(f) \in Message /\ IsOf(TickOf(f), f) /\ TickOf(f).n = stream[f].hold
      BY <2>1, ChainFacts, MessagesExist DEF TickOf, IsOf
    <2>4. HoldOf(f) = {stream[f].hold} /\ HoldOf(f)' = {} /\ ReplyOf(f) = {}
      BY <2>1, <2>2, ChainFacts DEF HoldOf
    <2>5. /\ ShownOf(f)' = ShownOf(f) /\ ReplyOf(f)' = ReplyOf(f) /\ FeedOf(f)' = FeedOf(f)
      BY <2>1, <2>2 DEF ShownOf, ReplyOf, Snaps, FeedOf
    <2>6. QueuedOf(f)' = QueuedOf(f) \cup {stream[f].hold} /\ QueueRises(f)'
      <3>1. Below(QueuedOf(f), {stream[f].hold})
        BY <2>4 DEF Chain, LayersOf, Layered
      <3> QED BY <1>0, <2>1, <2>3, <3>1, QueueAppend DEF Chain
    <2>7. AllOf(f)' = AllOf(f)
      BY <2>4, <2>5, <2>6 DEF AllOf
    <2>8. LayersOf(f)' /\ Started(f)'
      BY <2>4, <2>5, <2>6 DEF LayersOf, Layered, Below, Chain, Started
    <2>9. Rising(stream'[f].feed)
      BY <2>2 DEF Chain
    <2> QED BY <2>1, <2>2, <2>6, <2>7, <2>8, <2>9, ChainAdvances
  <1>4. CASE Park(f)
    <2>1. /\ UNCHANGED <<newest, watches, reply, outq, raised, open, writing, shown, lost>>
          /\ stream'[f].inst = stream[f].inst /\ stream'[f].feed = stream[f].feed
          /\ stream'[f].hold = stream[f].hold
      <3>1. CASE stream[f].state = "doomed"
        <4>1. stream'[f] = Nobody
          BY <1>0, <1>4, <3>1 DEF Park, Set
        <4> QED BY <4>1, NobodyIsSound
      <3>2. CASE stream[f].state # "doomed"
        BY <1>0, <1>4, <3>2 DEF Park, Set, StreamState
      <3> QED BY <3>1, <3>2
    <2>2. SameChain(f)
      BY <2>1 DEF SameChain, ReplyOf, Snaps
    <2> QED BY <2>1, <2>2, ChainSame
  <1> QED BY <1>1, <1>2, <1>3, <1>4 DEF Forward

LEMMA OtherForwardChains ==
  ASSUME SessionInv, NEW g \in Streams, Forward(g), NEW f \in Streams \ {g}, Chain(f), writing
  PROVE  Chain(f)'
  <1>0. /\ stream = [h \in Streams |-> stream[h]] /\ lost \in [Streams -> BOOLEAN]
        /\ stream[g].hold \in 1..MaxSample \cup {None}
    BY DEF SessionInv, TypeInv, QueueSound, StreamsSound, Sound, SessionSound, StreamState
  <1>1. stream'[f] = stream[f] /\ lost'[f] = lost[f] /\ UNCHANGED <<newest, reply, shown>>
    BY <1>0 DEF Forward, Recv, Skip, Send, Park, Set
  <1>2. SameChain(f)
    BY <1>1 DEF SameChain, ReplyOf, Snaps
  <1>3. outq' = outq \/ \E m \in Message : outq' = Append(outq, m) /\ ~IsOf(m, f)
    <2>1. CASE Send(g)
      <3>1. outq' = outq \/ (outq' = Append(outq, TickOf(g)) /\ stream[g].hold # None
                             /\ stream[g].state # "free")
        BY <2>1 DEF Send
      <3>2. stream[g].state # "free" /\ stream[g].hold # None => TickOf(g) \in Message
        BY <1>0, SessionFacts, MessagesExist DEF TickOf, HaveInstrument
      <3>3. ~IsOf(TickOf(g), f)
        BY DEF TickOf, IsOf
      <3> QED BY <3>1, <3>2, <3>3
    <2>2. CASE ~Send(g)
      BY <2>2 DEF Forward, Recv, Skip, Park
    <2> QED BY <2>1, <2>2
  <1> QED BY <1>1, <1>2, <1>3, ChainSame

LEMMA DeliverChains ==
  ASSUME SessionInv, Deliver, NEW f \in Streams, Chain(f), stream[f].state # "free"
  PROVE  Chain(f)'
  <1> DEFINE m == Head(outq)
  <1>1. /\ outq \in Seq(Message) /\ outq # <<>> /\ outq' = Tail(outq) /\ m \in Message
        /\ shown' = IF m.kind \in {"snap", "tick"} THEN [shown EXCEPT ![m.stream] = m.n] ELSE shown
        /\ UNCHANGED <<newest, stream, watches, reply, raised, open, writing, lost>>
        /\ shown \in [Streams -> 0..MaxSample \cup {None}]
    BY TailOf DEF Deliver, SessionInv, TypeInv, QueueSound, SessionSound
  <1>2. CASE ~IsOf(m, f)
    <2>1. shown'[f] = shown[f]
      BY <1>1, <1>2 DEF IsOf
    <2>2. SameChain(f)
      BY <1>1, <2>1 DEF SameChain, ReplyOf, Snaps
    <2> QED BY <1>1, <1>2, <2>2, ChainSame
  <1>3. CASE IsOf(m, f)
    <2>1. m.n \in 1..MaxSample /\ m.stream = f
      BY <1>1, <1>3, MessageFields DEF IsOf, Shows
    <2>2. ShownOf(f)' = {m.n}
      <3>1. shown'[f] = m.n
        BY <1>1, <1>3, <2>1 DEF IsOf
      <3> QED BY <2>1, <3>1, ChainFacts DEF ShownOf
    <2>3. /\ QueueRises(f)' /\ QueuedOf(f) = QueuedOf(f)' \cup {m.n} /\ Below({m.n}, QueuedOf(f)')
      BY <1>1, <1>3, QueueTail DEF Chain
    <2>4. /\ HoldOf(f)' = HoldOf(f) /\ FeedOf(f)' = FeedOf(f) /\ ReplyOf(f)' = ReplyOf(f)
          /\ Rising(stream'[f].feed) /\ stream'[f].inst = stream[f].inst
      BY <1>1 DEF HoldOf, FeedOf, ReplyOf, Snaps, Chain
    <2>5. ReplyOf(f) = {}
      BY <2>3 DEF Chain, LayersOf, Layered
    <2> HIDE DEF m
    <2>6. LayersOf(f)' /\ Started(f)'
      BY <2>2, <2>3, <2>4, <2>5 DEF LayersOf, Layered, Below, Chain, Started
    <2>7. AllOf(f) = AllOf(f)' \cup ShownOf(f)
      BY <2>2, <2>3, <2>4 DEF AllOf
    <2>8. Below(ShownOf(f), AllOf(f)')
      BY <2>2, <2>3, <2>4, <2>5 DEF AllOf, Below, Chain, LayersOf, Layered
    <2>9. ASSUME ~lost'[f] PROVE Filled(AllOf(f)', newest'[stream'[f].inst])
      <3>1. Filled(AllOf(f), newest[stream[f].inst])
        BY <1>1, <2>9 DEF Chain
      <3>2. SUFFICES ASSUME NEW a \in AllOf(f)', NEW b \in a..newest[stream[f].inst]
                     PROVE  b \in AllOf(f)'
        BY <1>1 DEF Filled
      <3>3. b \in AllOf(f) /\ a \in Nat
        BY <2>7, <3>1, <3>2, ChainFacts DEF Filled
      <3>4. b \notin ShownOf(f)
        BY <2>8, <3>3, ChainFacts DEF Below
      <3> QED BY <2>7, <3>3, <3>4
    <2> QED BY <1>1, <2>3, <2>4, <2>6, <2>7, <2>9 DEF Chain
  <1> QED BY <1>2, <1>3

(* A stream that was aborted while a task of another thread polled it keeps *)
(* all that exists of it.                                                   *)
LEMMA DropChains ==
  ASSUME SessionInv, NEW i \in Instruments, Listening, NEW f \in Streams, Chain(f),
         stream'[f] = Dropped(i)[f], stream'[f].state # "free",
         UNCHANGED <<newest, outq>>, shown'[f] = shown[f], lost'[f] = lost[f],
         ReplyOf(f)' = {}
  PROVE  Chain(f)'
  <1>1. Sound(stream[f])
    BY DEF SessionInv, TypeInv, StreamsSound
  <1>2. /\ stream'[f].inst = stream[f].inst /\ stream'[f].hold = stream[f].hold
        /\ stream'[f].feed = stream[f].feed
    BY <1>1, DroppedIsSound, AbortedIsSound DEF SessionInv
  <1>3. ReplyOf(f) = {}
    BY DEF Listening, ReplyOf, Snaps
  <1> QED BY <1>2, <1>3, ChainSame DEF SameChain

LEMMA WatchChains ==
  ASSUME SessionInv, NEW i \in Instruments, Watch(i), NEW f \in Streams,
         stream[f].state # "free" => Chain(f), stream'[f].state # "free"
  PROVE  Chain(f)'
  <1>1. PICK g \in Streams :
          /\ \A m \in ToSet(outq) : ~IsOf(m, g)
          /\ stream' = [Dropped(i) EXCEPT ![g] = Task("opening", i, <<>>, None)]
          /\ reply' = [kind |-> "snap", stream |-> g, inst |-> i, n |-> newest[i]]
          /\ shown' = [shown EXCEPT ![g] = None]
          /\ lost' = [lost EXCEPT ![g] = FALSE]
    BY DEF Watch
  <1>2. /\ Listening /\ UNCHANGED <<newest, outq, open, writing>>
        /\ newest[i] \in 1..MaxSample /\ newest[i] \in Nat /\ None \notin Nat
        /\ outq \in Seq(Message)
        /\ shown \in [Streams -> 0..MaxSample \cup {None}] /\ lost \in [Streams -> BOOLEAN]
    BY SessionAssumption DEF Watch, SessionInv, TypeInv, SessionSound, QueueSound
  <1>3. CASE f # g
    <2>1. /\ stream'[f] = Dropped(i)[f] /\ shown'[f] = shown[f] /\ lost'[f] = lost[f]
      BY <1>1, <1>2, <1>3, DroppedIsSound DEF SessionInv
    <2>2. ReplyOf(f)' = {}
      BY <1>1, <1>3 DEF ReplyOf, Snaps
    <2>3. stream[f].state # "free"
      <3>1. Sound(stream[f])
        BY DEF SessionInv, TypeInv, StreamsSound
      <3> QED BY <2>1, <3>1, DroppedIsSound, AbortedIsSound DEF SessionInv
    <2> QED BY <1>2, <2>1, <2>2, <2>3, DropChains
  <1>4. CASE f = g
    <2>1. stream'[f] = Task("opening", i, <<>>, None)
      BY <1>1, <1>4, DroppedIsSound DEF SessionInv
    <2>2. /\ stream'[f].inst = i /\ stream'[f].feed = <<>> /\ stream'[f].hold = None
      BY <2>1 DEF Task
    <2>3. shown'[f] = None /\ newest'[i] = newest[i]
      BY <1>1, <1>2, <1>4
    <2>4. PlacesOf(f)' = {}
      <3>1. \A k \in 1..Len(outq) : outq[k] \in ToSet(outq)
        BY <1>2 DEF ToSet
      <3> QED BY <1>1, <1>2, <1>4, <3>1 DEF PlacesOf
    <2>5. ReplyOf(f)' = {newest[i]}
      <3>1. reply' \in Message
        BY <1>1, <1>2, MessagesExist
      <3> QED BY <1>1, <1>4, <3>1, SessionFacts DEF ReplyOf, Snaps
    <2>6. /\ ShownOf(f)' = {} /\ QueuedOf(f)' = {} /\ HoldOf(f)' = {} /\ FeedOf(f)' = {}
          /\ QueueRises(f)' /\ Rising(stream'[f].feed)
      BY <2>2, <2>3, <2>4
         DEF ShownOf, QueuedOf, HoldOf, FeedOf, NumbersIn, QueueRises, Rising
    <2>7. AllOf(f)' = {newest[i]} /\ LayersOf(f)' /\ Started(f)'
      BY <2>5, <2>6 DEF AllOf, LayersOf, Layered, Below, Started
    <2>8. Filled({newest[i]}, newest[i])
      BY <1>2 DEF Filled
    <2> QED BY <1>2, <2>2, <2>3, <2>6, <2>7, <2>8 DEF Chain
  <1> QED BY <1>3, <1>4

LEMMA EmitChains ==
  ASSUME SessionInv, Emit, writing, NEW f \in Streams, Chain(f), stream[f].state # "free"
  PROVE  Chain(f)'
  <1>1. /\ outq \in Seq(Message) /\ reply \in Message /\ outq' = Append(outq, reply)
        /\ reply' = None /\ UNCHANGED <<newest, raised, open, writing, shown, lost>>
        /\ reply # None
        /\ stream = [g \in Streams |-> stream[g]] /\ stream[f] \in StreamState
    BY DEF Emit, SessionInv, TypeInv, QueueSound, StreamsSound, Sound
  <1>2. /\ stream'[f].inst = stream[f].inst /\ stream'[f].hold = stream[f].hold
        /\ stream'[f].feed = stream[f].feed
    <2>1. CASE reply.kind = "snap"
      <3>1. stream' = [stream EXCEPT ![reply.stream].state = "parked"]
        BY <2>1 DEF Emit
      <3> QED BY <1>1, <3>1 DEF StreamState
    <2>2. CASE reply.kind # "snap"
      BY <2>2 DEF Emit
    <2> QED BY <2>1, <2>2
  <1>3. ReplyOf(f)' = {}
    BY <1>1 DEF ReplyOf, Snaps
  <1>4. reply.kind # "tick"
    BY <1>1 DEF SessionInv, TypeInv, QueueSound
  <1>5. CASE ~Snaps(f)
    <2>1. ReplyOf(f) = {} /\ ~IsOf(reply, f)
      BY <1>1, <1>4, <1>5 DEF ReplyOf, Snaps, IsOf
    <2> QED BY <1>1, <1>2, <1>3, <2>1, ChainSame DEF SameChain
  <1>6. CASE Snaps(f)
    <2>1. ReplyOf(f) = {reply.n} /\ IsOf(reply, f)
      BY <1>6 DEF ReplyOf, Snaps, IsOf
    <2>2. ShownOf(f) = {} /\ QueuedOf(f) = {}
      BY <2>1 DEF Chain, LayersOf, Layered
    <2>3. QueuedOf(f)' = ReplyOf(f) /\ QueueRises(f)'
      BY <1>1, <2>1, <2>2, QueueAppend DEF Chain, Below
    <2>4. ShownOf(f)' = ShownOf(f) /\ HoldOf(f)' = HoldOf(f) /\ FeedOf(f)' = FeedOf(f)
      BY <1>1, <1>2 DEF ShownOf, HoldOf, FeedOf
    <2>5. AllOf(f)' = AllOf(f) /\ LayersOf(f)' /\ Started(f)'
      BY <1>3, <2>1, <2>2, <2>3, <2>4 DEF AllOf, LayersOf, Layered, Below, Started, Chain
    <2>6. Rising(stream'[f].feed)
      BY <1>2 DEF Chain
    <2> QED BY <1>1, <1>2, <2>3, <2>5, <2>6, ChainAdvances
  <1> QED BY <1>5, <1>6

LEMMA ChainedKept == SessionInv /\ Chained /\ [Next]_vars => Chained'
  <1> SUFFICES ASSUME SessionInv, Chained, [Next]_vars, NEW f \in Streams,
                      writing', stream'[f].state # "free"
               PROVE  Chain(f)'
    BY DEF Chained
  <1>0. writing /\ (stream[f].state # "free" => Chain(f))
    BY DEF Chained, Next, Forward, Record, Refuse, Watch, Unwatch, Answer, Emit, Alert, End, Deliver,
           WriterFails, Recv, Skip, Send, Park, vars, sysVars
  <1>f. /\ stream = [g \in Streams |-> stream[g]] /\ outq \in Seq(Message) /\ Sound(stream[f])
    BY DEF SessionInv, TypeInv, QueueSound, StreamsSound
  <1>1. ASSUME NEW i \in Instruments, Record(i) PROVE Chain(f)'
    <2>1. stream[f].state # "free" /\ stream[f].state \in Subscribed
      <3>1. stream'[f].state = stream[f].state
        BY <1>1 DEF Record, Task
      <3> QED BY <1>f, <3>1 DEF Sound, StreamState, Subscribed
    <2> QED BY <1>0, <1>1, <2>1, RecordChains
  <1>2. ASSUME NEW i \in Instruments, Refuse(i) \/ Unwatch(i) PROVE Chain(f)'
    <2>1. /\ Listening /\ stream'[f] = Dropped(i)[f] /\ reply' \in {None, Answered}
          /\ UNCHANGED <<newest, outq, shown, lost>>
      BY <1>2 DEF Refuse, Unwatch, Dropped, Listening
    <2>2. stream[f].state # "free"
      BY <1>f, <2>1, DroppedIsSound, AbortedIsSound DEF SessionInv
    <2>3. ReplyOf(f)' = {}
      BY <2>1, SessionFacts DEF ReplyOf, Snaps
    <2> QED BY <1>0, <2>1, <2>2, <2>3, DropChains
  <1>3. ASSUME NEW i \in Instruments, Watch(i) PROVE Chain(f)'
    BY <1>0, <1>3, WatchChains
  <1>4. CASE Emit
    <2>1. stream[f].state # "free"
      <3>1. CASE Snaps(f)
        BY <3>1, SessionFacts DEF OpeningIsReplied
      <3>2. CASE ~Snaps(f)
        <4>1. stream'[f] = stream[f]
          BY <1>4, <1>f, <3>2 DEF Emit, Snaps
        <4> QED BY <4>1
      <3> QED BY <3>1, <3>2
    <2> QED BY <1>0, <1>4, <2>1, EmitChains
  <1>5. CASE Answer \/ Alert
    <2>1. UNCHANGED <<newest, stream, shown, lost>>
      BY <1>5 DEF Answer, Alert
    <2>2. ReplyOf(f)' = {} /\ ReplyOf(f) = {}
      BY <1>5, SessionFacts DEF Answer, Alert, Listening, ReplyOf, Snaps
    <2>3. outq' = outq \/ \E m \in Message : outq' = Append(outq, m) /\ ~IsOf(m, f)
      <3>1. CASE Alert
        <4>1. Event(raised + 1) \in Message
          BY <3>1, MessagesExist, SessionAssumption DEF Alert, SessionInv, TypeInv, SessionSound
        <4>2. ~IsOf(Event(raised + 1), f)
          BY DEF IsOf, Event
        <4> QED BY <3>1, <4>1, <4>2 DEF Alert
      <3>2. CASE Answer
        BY <3>2 DEF Answer
      <3> QED BY <1>5, <3>1, <3>2
    <2> QED BY <1>0, <2>1, <2>2, <2>3, ChainSame DEF SameChain
  <1>6. CASE Deliver
    BY <1>0, <1>6, DeliverChains DEF Deliver
  <1>7. ASSUME NEW g \in Streams, Forward(g) PROVE Chain(f)'
    <2>1. CASE f = g
      <3>1. stream[f].state # "free"
        BY <1>7, <2>1 DEF Forward, Recv, Skip, Send, Park, Polled
      <3> QED BY <1>0, <1>7, <2>1, <3>1, ForwardChains
    <2>2. CASE f # g
      <3>1. stream'[f] = stream[f]
        BY <1>7, <1>f, <2>2 DEF Forward, Recv, Skip, Send, Park, Set
      <3> QED BY <1>0, <1>7, <2>2, <3>1, OtherForwardChains
    <2> QED BY <2>1, <2>2
  <1>8. CASE UNCHANGED vars
    <2>1. SameChain(f) /\ newest' = newest /\ outq' = outq
      BY <1>8 DEF vars, sysVars, SameChain, ReplyOf, Snaps
    <2> QED BY <1>0, <1>8, <2>1, ChainSame DEF vars, sysVars
  <1>9. ~End /\ ~WriterFails
    BY DEF End, WriterFails
  <1> QED BY <1>1, <1>2, <1>3, <1>4, <1>5, <1>6, <1>7, <1>8, <1>9 DEF Next

(* Where the parts of a stream stand in its Pipe.                           *)
LEMMA PipePlaces ==
  ASSUME SessionInv, NEW f \in Streams, Chain(f), stream[f].state # "free"
  PROVE  LET t == Pipe(f)
             L == Len(outq)
         IN  /\ L \in Nat /\ Len(stream[f].feed) \in Nat
             /\ DOMAIN t = 1..L + 3 + Len(stream[f].feed)
             /\ t[1] = shown[f]
             /\ \A k \in 1..L : t[k + 1] = IF k \in PlacesOf(f) THEN outq[k].n ELSE None
             /\ t[L + 2] = IF Snaps(f) THEN reply.n ELSE None
             /\ t[L + 3] = stream[f].hold
             /\ \A p \in 1..Len(stream[f].feed) : t[L + 3 + p] = stream[f].feed[p]
  <1> DEFINE of(m) == IF m # None /\ IsOf(m, f) THEN m.n ELSE None
             L  == Len(outq)
             T  == 0..MaxSample \cup {None}
             q  == [k \in DOMAIN outq |-> of(outq[k])]
             r  == <<of(reply), stream[f].hold>>
             d  == stream[f].feed
  <1>1. /\ outq \in Seq(Message) /\ L \in Nat /\ MaxSample \in Nat /\ None \notin Message
        /\ shown[f] \in T /\ stream[f].hold \in T
        /\ d \in Seq(1..MaxSample) /\ d \in Seq(T) /\ Len(d) \in Nat
    BY SessionAssumption, ChainFacts DEF SessionInv, TypeInv, QueueSound, SessionSound
  <1>2. \A m \in Message \cup {None} : of(m) \in T
    BY <1>1, MessageFields DEF IsOf, Shows
  <1>3. q \in Seq(T) /\ Len(q) = L /\ \A k \in 1..L : q[k] = of(outq[k])
    <2>1. DOMAIN outq = 1..L /\ \A k \in 1..L : outq[k] \in Message
      BY <1>1
    <2>2. q \in [1..L -> T]
      BY <1>2, <2>1
    <2> QED BY <1>1, <2>1, <2>2
  <1>4. \A k \in 1..L : q[k] = IF k \in PlacesOf(f) THEN outq[k].n ELSE None
    BY <1>1, <1>3 DEF PlacesOf
  <1>5. of(reply) = IF Snaps(f) THEN reply.n ELSE None
    BY DEF Snaps, IsOf, SessionInv, TypeInv, QueueSound
  <1>6. r \in Seq(T) /\ Len(r) = 2 /\ r[1] = of(reply) /\ r[2] = stream[f].hold
    BY <1>1, <1>2 DEF SessionInv, TypeInv, QueueSound
  <1> DEFINE a == <<shown[f]>>
             t == ((a \o q) \o r) \o d
  <1>7. a \in Seq(T) /\ Len(a) = 1 /\ a[1] = shown[f]
    BY <1>1
  <1>8. Pipe(f) = t
    BY DEF Pipe
  <1> HIDE DEF a, q, r, d, of, T
  <1>9. /\ DOMAIN t = 1..Len(a) + Len(q) + Len(r) + Len(d)
        /\ \A k \in 1..Len(a) : t[k] = a[k]
        /\ \A k \in 1..Len(q) : t[Len(a) + k] = q[k]
        /\ \A k \in 1..Len(r) : t[Len(a) + Len(q) + k] = r[k]
        /\ \A k \in 1..Len(d) : t[Len(a) + Len(q) + Len(r) + k] = d[k]
    <2>1. a \in Seq(T) /\ q \in Seq(T) /\ r \in Seq(T) /\ d \in Seq(T)
      BY <1>1, <1>3, <1>6, <1>7
    <2>2. DOMAIN t = 1..Len(a) + Len(q) + Len(r) + Len(d)
      BY <2>1
    <2>3. \A k \in 1..Len(a) : t[k] = a[k]
      BY <2>1
    <2>4. \A k \in 1..Len(q) : t[Len(a) + k] = q[k]
      BY <2>1
    <2>5. \A k \in 1..Len(r) : t[Len(a) + Len(q) + k] = r[k]
      BY <2>1
    <2>6. \A k \in 1..Len(d) : t[Len(a) + Len(q) + Len(r) + k] = d[k]
      BY <2>1
    <2> HIDE DEF t
    <2> QED BY <2>2, <2>3, <2>4, <2>5, <2>6
  <1> HIDE DEF t, L
  <1>10. /\ DOMAIN t = 1..L + 3 + Len(d)
         /\ t[1] = shown[f]
         /\ \A p \in 1..Len(d) : t[L + 3 + p] = d[p]
    BY <1>1, <1>3, <1>6, <1>7, <1>9
  <1>11. \A k \in 1..L : t[k + 1] = q[k]
    BY <1>1, <1>3, <1>7, <1>9
  <1>12. t[L + 2] = of(reply) /\ t[L + 3] = stream[f].hold
    <2>1. 1 \in 1..Len(r) /\ 2 \in 1..Len(r)
      BY <1>6
    <2>2. t[1 + L + 1] = r[1] /\ t[1 + L + 2] = r[2]
      BY <1>3, <1>7, <1>9, <2>1
    <2> QED BY <1>1, <1>6, <2>2
  <1> QED BY <1>1, <1>4, <1>5, <1>8, <1>10, <1>11, <1>12 DEF d, L

LEMMA ChainIsContiguous ==
  ASSUME SessionInv, NEW f \in Streams, Chain(f), stream[f].state # "free"
  PROVE  LET t   == Pipe(f)
             end == newest[stream[f].inst]
         IN  /\ Numbers(f) # {} /\ Numbers(f) \subseteq 1..end
             /\ \A j, k \in DOMAIN t : (j < k /\ t[j] # None /\ t[k] # None) => t[j] < t[k]
             /\ ~lost[f] => \A n \in Numbers(f) : n..end \subseteq Numbers(f)
  <1> DEFINE t == Pipe(f)
             L == Len(outq)
             d == stream[f].feed
  <1>1. /\ L \in Nat /\ Len(d) \in Nat /\ DOMAIN t = 1..L + 3 + Len(d)
        /\ t[1] = shown[f]
        /\ \A k \in 1..L : t[k + 1] = IF k \in PlacesOf(f) THEN outq[k].n ELSE None
        /\ t[L + 2] = IF Snaps(f) THEN reply.n ELSE None
        /\ t[L + 3] = stream[f].hold
        /\ \A p \in 1..Len(d) : t[L + 3 + p] = d[p]
    BY PipePlaces
  <1> HIDE DEF t, L, d
  <1>2. AllOf(f) \subseteq Nat /\ None \notin Nat
    BY ChainFacts
  \* The parts of the pipe, and what stands in each.
  <1> DEFINE Q(j) == j \in 2..L + 1 /\ j - 1 \in PlacesOf(f) /\ t[j] = outq[j - 1].n
             D(j) == j \in L + 4..L + 3 + Len(d) /\ j - L - 3 \in 1..Len(d) /\ t[j] = d[j - L - 3]
  <1>3. ASSUME NEW j \in DOMAIN t, t[j] # None
        PROVE  \/ j = 1 /\ t[j] \in ShownOf(f)
               \/ Q(j) /\ t[j] \in QueuedOf(f)
               \/ j = L + 2 /\ t[j] \in ReplyOf(f)
               \/ j = L + 3 /\ t[j] \in HoldOf(f)
               \/ D(j) /\ t[j] \in FeedOf(f)
    <2>1. CASE j = 1
      BY <1>1, <1>3, <2>1 DEF ShownOf
    <2>2. CASE j \in 2..L + 1
      <3>1. j - 1 \in 1..L /\ (j - 1) + 1 = j
        BY <1>1, <2>2
      <3>2. t[j] = IF j - 1 \in PlacesOf(f) THEN outq[j - 1].n ELSE None
        BY <1>1, <3>1
      <3> QED BY <1>3, <2>2, <3>2 DEF QueuedOf
    <2>3. CASE j = L + 2
      BY <1>1, <1>3, <2>3 DEF ReplyOf
    <2>4. CASE j = L + 3
      BY <1>1, <1>3, <2>4 DEF HoldOf
    <2>5. CASE j \in L + 4..L + 3 + Len(d)
      <3>1. j - L - 3 \in 1..Len(d) /\ L + 3 + (j - L - 3) = j
        <4>1. L \in Nat /\ Len(d) \in Nat /\ j \in Nat
          BY <1>1
        <4> HIDE DEF Q, D
        <4> QED BY <2>5, <4>1
      <3>2. t[j] = d[j - L - 3]
        BY <1>1, <3>1
      <3> QED BY <2>5, <3>1, <3>2 DEF FeedOf, NumbersIn, d
    <2> HIDE DEF t, L, d, Q, D
    <2> QED BY <1>1, <2>1, <2>2, <2>3, <2>4, <2>5
  <1>4. Numbers(f) = AllOf(f)
    <2>1. Numbers(f) = {t[j] : j \in DOMAIN t} \ {None}
      BY DEF Numbers, Range, t
    <2>2. \A j \in DOMAIN t : t[j] # None => t[j] \in AllOf(f)
      BY <1>3 DEF AllOf
    <2>3. ASSUME NEW n \in AllOf(f) PROVE n # None /\ \E j \in DOMAIN t : t[j] = n
      <3>0. n # None
        BY <1>2
      <3>1. CASE n \in ShownOf(f)
        <4>1. n = t[1] /\ 1 \in DOMAIN t
          BY <1>1, <3>1 DEF ShownOf
        <4> QED BY <3>0, <4>1
      <3>2. CASE n \in QueuedOf(f)
        <4>1. PICK k \in PlacesOf(f) : n = outq[k].n
          BY <3>2 DEF QueuedOf
        <4>2. k \in 1..L
          BY DEF PlacesOf, L
        <4>3. k + 1 \in DOMAIN t /\ t[k + 1] = n
          BY <1>1, <4>1, <4>2
        <4> QED BY <3>0, <4>3
      <3>3. CASE n \in ReplyOf(f)
        <4>1. n = t[L + 2] /\ L + 2 \in DOMAIN t
          BY <1>1, <3>3 DEF ReplyOf
        <4> QED BY <3>0, <4>1
      <3>4. CASE n \in HoldOf(f)
        <4>1. n = t[L + 3] /\ L + 3 \in DOMAIN t
          BY <1>1, <3>4 DEF HoldOf
        <4> QED BY <3>0, <4>1
      <3>5. CASE n \in FeedOf(f)
        <4>1. PICK p \in 1..Len(d) : n = d[p]
          BY <3>5 DEF FeedOf, NumbersIn, d
        <4>2. n = t[L + 3 + p] /\ L + 3 + p \in DOMAIN t
          BY <1>1, <4>1
        <4> QED BY <3>0, <4>2
      <3> QED BY <3>1, <3>2, <3>3, <3>4, <3>5 DEF AllOf
    <2> QED BY <2>1, <2>2, <2>3
  <1>5. ASSUME NEW j \in DOMAIN t, NEW k \in DOMAIN t, j < k, t[j] # None, t[k] # None
        PROVE  t[j] < t[k]
    <2>0. LayersOf(f)
      BY DEF Chain
    <2>1. CASE Q(j) /\ Q(k)
      <3>1. outq[j - 1].n < outq[k - 1].n
        BY <1>1, <1>5, <2>1 DEF Chain, QueueRises
      <3> QED BY <2>1, <3>1
    <2>2. CASE D(j) /\ D(k)
      <3>1. d[j - L - 3] < d[k - L - 3]
        <4>1. /\ L \in Nat /\ j \in Nat /\ k \in Nat
              /\ j - L - 3 \in 1..Len(d) /\ k - L - 3 \in 1..Len(d)
          BY SMTT(30), <1>1, <2>2
        <4>2. Rising(d)
          BY DEF Chain, d
        <4> HIDE DEF Q, D
        <4>3. j - L - 3 < k - L - 3
          BY <1>5, <4>1
        <4> QED BY <4>1, <4>2, <4>3 DEF Rising
      <3> QED BY <2>2, <3>1
    <2>3. CASE ~(Q(j) /\ Q(k)) /\ ~(D(j) /\ D(k))
      <3>0. /\ \/ j = 1 /\ t[j] \in ShownOf(f)
               \/ j \in 2..L + 1 /\ Q(j) /\ t[j] \in QueuedOf(f)
               \/ j = L + 2 /\ t[j] \in ReplyOf(f)
               \/ j = L + 3 /\ t[j] \in HoldOf(f)
               \/ j >= L + 4 /\ D(j) /\ t[j] \in FeedOf(f)
            /\ \/ k = 1 /\ t[k] \in ShownOf(f)
               \/ k \in 2..L + 1 /\ Q(k) /\ t[k] \in QueuedOf(f)
               \/ k = L + 2 /\ t[k] \in ReplyOf(f)
               \/ k = L + 3 /\ t[k] \in HoldOf(f)
               \/ k >= L + 4 /\ D(k) /\ t[k] \in FeedOf(f)
        BY <1>1, <1>3, <1>5
      <3> HIDE DEF t, L, d, Q, D
      <3>1. j \in Nat /\ k \in Nat /\ L \in Nat
        BY <1>1
      <3>2. CASE t[j] \in ShownOf(f) /\ j = 1
        BY <1>5, <2>0, <3>0, <3>1, <3>2 DEF LayersOf, Layered, Below
      <3>3. CASE t[j] \in QueuedOf(f) /\ Q(j) /\ j \in 2..L + 1
        BY <1>5, <2>0, <2>3, <3>0, <3>1, <3>3 DEF LayersOf, Layered, Below
      <3>4. CASE t[j] \in ReplyOf(f) /\ j = L + 2
        BY <1>5, <2>0, <3>0, <3>1, <3>4 DEF LayersOf, Layered, Below
      <3>5. CASE t[j] \in HoldOf(f) /\ j = L + 3
        BY <1>5, <2>0, <3>0, <3>1, <3>5 DEF LayersOf, Layered, Below
      <3>6. CASE D(j) /\ j >= L + 4
        BY <1>5, <2>3, <3>0, <3>1, <3>6
      <3> QED BY <3>0, <3>2, <3>3, <3>4, <3>5, <3>6
    <2> QED BY <2>1, <2>2, <2>3
  <1>6. AllOf(f) # {} /\ AllOf(f) \subseteq 1..newest[stream[f].inst]
    BY DEF Chain, Started, AllOf
  <1>7. ~lost[f] => \A n \in AllOf(f) : n..newest[stream[f].inst] \subseteq AllOf(f)
    BY DEF Chain, Filled
  <1> QED BY <1>4, <1>5, <1>6, <1>7 DEF t

(* What the client has been shown of a watch, what is on its way and what   *)
(* the forwarder has not read yet join without a repeat, and without a gap  *)
(* as long as the forwarder has neither lagged nor dropped a point          *)
(* (spread_tape 130-150, ws.rs:311-355).                                    *)
THEOREM Contiguous == Spec => []StreamsAreContiguous
  <1>1. SessionInv /\ Chained => StreamsAreContiguous
    <2> SUFFICES ASSUME SessionInv, Chained, NEW f \in Streams, writing, stream[f].state \in Subscribed
                 PROVE  LET t   == Pipe(f)
                            end == newest[stream[f].inst]
                        IN  /\ Numbers(f) # {} /\ Numbers(f) \subseteq 1..end
                            /\ \A j, k \in DOMAIN t :
                                 (j < k /\ t[j] # None /\ t[k] # None) => t[j] < t[k]
                            /\ ~lost[f] => \A n \in Numbers(f) : n..end \subseteq Numbers(f)
      BY DEF StreamsAreContiguous
    <2>1. stream[f].state # "free" /\ Chain(f)
      BY DEF Chained, Subscribed
    <2> QED BY <2>1, ChainIsContiguous
  <1> QED BY <1>1, InitChained, ChainedKept, Invariant, PTL DEF Spec
=============================================================================
