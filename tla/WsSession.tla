------------------------------ MODULE WsSession ------------------------------
(***************************************************************************)
(* The stream loop of one WS session (crates/api/src/ws.rs): alert events  *)
(* and chart watches of several instruments share one bounded queue to the *)
(* writer task.  A watch is a backfill snapshot taken from the spread tape *)
(* together with a live subscription (crates/spread_tape/src/lib.rs), then *)
(* a forwarder task that sends each later sample as a tick.                *)
(*                                                                         *)
(* Samples of an instrument are numbered in the order they are recorded.   *)
(* JoinHandle::abort drops a task that waits at an await; one that is      *)
(* being polled on another thread goes on to its next await.               *)
(***************************************************************************)
EXTENDS Naturals, Sequences, FiniteSets, SequencesExt

CONSTANTS
  Instruments,
  Streams,      \* forwarder tasks; bounds how many exist at a time
  QueueCap,     \* capacity of the outbound channel
  LiveCap,      \* broadcast_capacity of a tape
  MaxWatches,   \* chart.max_watches
  MaxSample,    \* bound of the model: samples recorded per instrument
  MaxEvent,     \* bound of the model: alert events of the session
  None

Message == [kind : {"answer"}]
           \cup [kind : {"event"}, n : 1..MaxEvent]
           \cup [kind : {"snap", "tick"}, stream : Streams, inst : Instruments, n : 1..MaxSample]

ASSUME SessionAssumption ==
  /\ {QueueCap, LiveCap, MaxWatches, MaxSample} \subseteq Nat \ {0}
  /\ MaxEvent \in Nat
  /\ None \notin Nat \cup Streams \cup Message

VARIABLES
  newest,    \* newest[i]: number of samples the tape of i has recorded
  stream,    \* stream[f]: state, instrument, unread live samples, sample in hand
  watches,   \* HashMap<Instrument, JoinHandle> of the session
  reply,     \* message the session task is sending with emit().await, or None
  outq,      \* outbound channel, oldest first
  raised,    \* alert events the session's engine has produced
  open,      \* the stream loop is running
  writing,   \* the writer task is running: its socket has not failed
  shown,     \* history: number of the last sample of a stream the client got
  lost       \* history: stream f lagged, or dropped a point it could not show

sysVars == <<newest, stream, watches, reply, outq, raised, open, writing>>
vars == <<sysVars, shown, lost>>

States == {"free", "opening", "parked", "running", "blocked", "doomed"}
Subscribed == States \ {"free"}
Task(state, inst, feed, hold) == [state |-> state, inst |-> inst, feed |-> feed, hold |-> hold]
Nobody == Task("free", None, <<>>, None)

Answered   == [kind |-> "answer"]
Event(n)   == [kind |-> "event", n |-> n]
TickOf(f)  == [kind |-> "tick", stream |-> f, inst |-> stream[f].inst, n |-> stream[f].hold]

IsOf(m, f) == m.kind \in {"snap", "tick"} /\ m.stream = f

StreamState == [state : States, inst : Instruments \cup {None},
                feed : Seq(1..MaxSample), hold : 1..MaxSample \cup {None}]

TypeOK ==
  /\ newest \in [Instruments -> 0..MaxSample]
  /\ stream \in [Streams -> StreamState]
  /\ \A f \in Streams : Len(stream[f].feed) <= LiveCap
  /\ watches \in [Instruments -> Streams \cup {None}]
  /\ reply \in Message \cup {None}
  /\ outq \in Seq(Message) /\ Len(outq) <= QueueCap
  /\ raised \in 0..MaxEvent
  /\ open \in BOOLEAN /\ writing \in BOOLEAN
  /\ shown \in [Streams -> 0..MaxSample \cup {None}]
  /\ lost \in [Streams -> BOOLEAN]

Init == /\ newest = [i \in Instruments |-> 0]
        /\ stream = [f \in Streams |-> Nobody]
        /\ watches = [i \in Instruments |-> None]
        /\ reply = None /\ outq = <<>> /\ raised = 0 /\ open = TRUE /\ writing = TRUE
        /\ shown = [f \in Streams |-> None]
        /\ lost = [f \in Streams |-> FALSE]

Room == Len(outq) < QueueCap

\* What abort() makes of a forwarder.
Aborted(s) == IF s.state \in {"running", "doomed"} THEN [s EXCEPT !.state = "doomed"] ELSE Nobody

-----------------------------------------------------------------------------
(* SpreadTape::record, called by the sampler *)

\* Mutant: the live subscription begins only when the forwarder is spawned.
RecordUnheard(i) ==
  /\ newest[i] < MaxSample
  /\ newest' = [newest EXCEPT ![i] = @ + 1]
  /\ LET hears(f) == stream[f].inst = i /\ stream[f].state \in Subscribed \ {"opening"}
         full(f)  == Len(stream[f].feed) = LiveCap
         kept(f)  == IF full(f) THEN Tail(stream[f].feed) ELSE stream[f].feed
     IN  /\ stream' = [f \in Streams |->
              IF hears(f) THEN Task(stream[f].state, i, Append(kept(f), newest'[i]), stream[f].hold)
                          ELSE stream[f]]
         /\ lost' = [f \in Streams |-> lost[f] \/ (hears(f) /\ full(f))]
  /\ UNCHANGED <<watches, reply, outq, raised, open, writing, shown>>

\* The sample is appended and broadcast; a receiver that is LiveCap behind loses
\* its oldest sample.
Record(i) ==
  /\ newest[i] < MaxSample
  /\ newest' = [newest EXCEPT ![i] = @ + 1]
  /\ LET hears(f) == stream[f].inst = i /\ stream[f].state \in Subscribed
         full(f)  == Len(stream[f].feed) = LiveCap
         kept(f)  == IF full(f) THEN Tail(stream[f].feed) ELSE stream[f].feed
     IN  /\ stream' = [f \in Streams |->
              IF hears(f) THEN Task(stream[f].state, i, Append(kept(f), newest'[i]), stream[f].hold)
                          ELSE stream[f]]
         /\ lost' = [f \in Streams |-> lost[f] \/ (hears(f) /\ full(f))]
  /\ UNCHANGED <<watches, reply, outq, raised, open, writing, shown>>

-----------------------------------------------------------------------------
(* The session task *)

Listening == open /\ reply = None

\* Mutant: re-watching leaves the old stream running.
DroppedNot(i) == stream

\* The old stream of the instrument is aborted.
Dropped(i) ==
  IF watches[i] = None THEN stream ELSE [stream EXCEPT ![watches[i]] = Aborted(@)]

\* Watches that count against the limit.
Others(i) == {j \in Instruments \ {i} : watches[j] # None}

\* Mutant: one watch more than the limit.
WithinLimitOneMore(i) == Cardinality(Others(i)) <= MaxWatches

WithinLimit(i) == Cardinality(Others(i)) < MaxWatches

\* handle_watch up to its emit: the watch limit, an empty tape or the lack of a
\* pair ends it with an error ...
Refuse(i) ==
  /\ Listening
  /\ stream' = Dropped(i)
  /\ watches' = [watches EXCEPT ![i] = None]
  /\ reply' = Answered
  /\ UNCHANGED <<newest, outq, raised, open, writing, shown, lost>>

\* ... otherwise backfill and live subscription are taken under one entry lock.
Watch(i) ==
  /\ Listening /\ WithinLimit(i) /\ newest[i] > 0
  /\ watches' = [watches EXCEPT ![i] = None]
  /\ \E f \in Streams :
       /\ Dropped(i)[f].state = "free"
       /\ \A j \in Instruments \ {i} : watches[j] # f
       /\ \A m \in ToSet(outq) : ~IsOf(m, f)
       /\ stream' = [Dropped(i) EXCEPT ![f] = Task("opening", i, <<>>, None)]
       /\ reply' = [kind |-> "snap", stream |-> f, inst |-> i, n |-> newest[i]]
       /\ shown' = [shown EXCEPT ![f] = None]
       /\ lost' = [lost EXCEPT ![f] = FALSE]
  /\ UNCHANGED <<newest, outq, raised, open, writing>>

\* emit().await finds room, or fails for want of a writer, which handle_watch
\* ignores; after the snapshot the forwarder is spawned.
Emit ==
  /\ open /\ reply # None
  /\ IF writing THEN Room /\ outq' = Append(outq, reply) ELSE UNCHANGED outq
  /\ IF reply.kind = "snap"
     THEN /\ stream' = [stream EXCEPT ![reply.stream].state = "parked"]
          /\ watches' = [watches EXCEPT ![reply.inst] = reply.stream]
     ELSE UNCHANGED <<stream, watches>>
  /\ reply' = None
  /\ UNCHANGED <<newest, raised, open, writing, shown, lost>>

Unwatch(i) ==
  /\ Listening /\ watches[i] # None
  /\ stream' = [stream EXCEPT ![watches[i]] = Aborted(@)]
  /\ watches' = [watches EXCEPT ![i] = None]
  /\ UNCHANGED <<newest, reply, outq, raised, open, writing, shown, lost>>

\* Ping, a resubscribe and an unreadable message are answered.
Answer ==
  /\ Listening
  /\ reply' = Answered
  /\ UNCHANGED <<newest, stream, watches, outq, raised, open, writing, shown, lost>>

\* Mutant: the event is queued although the channel is full.
AlertUnbounded ==
  /\ Listening /\ writing /\ raised < MaxEvent
  /\ raised' = raised + 1
  /\ outq' = Append(outq, Event(raised + 1))
  /\ UNCHANGED <<newest, stream, watches, reply, open, writing, shown, lost>>

\* The engine returned an event: try_emit drops it when the channel is full.  When
\* the writer is gone the loop breaks instead: that is End.
Alert ==
  /\ Listening /\ writing /\ raised < MaxEvent
  /\ raised' = raised + 1
  /\ outq' = IF Room THEN Append(outq, Event(raised + 1)) ELSE outq
  /\ UNCHANGED <<newest, stream, watches, reply, open, writing, shown, lost>>

\* Mutant: the forwarders are not aborted.
EndLeaky ==
  /\ Listening /\ open' = FALSE
  /\ watches' = [i \in Instruments |-> None]
  /\ outq' = <<>> /\ writing' = FALSE
  /\ UNCHANGED <<newest, stream, reply, raised, shown, lost>>

\* The loop ends: the client closed, the socket failed, a reply or an event found
\* the writer gone, or authorization was refused.  All tasks are aborted.
End ==
  /\ Listening /\ open' = FALSE
  /\ stream' = [f \in Streams |-> Aborted(stream[f])]
  /\ watches' = [i \in Instruments |-> None]
  /\ outq' = <<>> /\ writing' = FALSE
  /\ UNCHANGED <<newest, reply, raised, shown, lost>>

-----------------------------------------------------------------------------
(* A forwarder task *)

Set(f, s) == stream' = [stream EXCEPT ![f] = s]
Polled(f) == stream[f].state \in {"running", "doomed"}

\* live.recv() returns a sample.
Recv(f) ==
  /\ stream[f].state \in {"parked", "running", "doomed"}
  /\ stream[f].hold = None /\ stream[f].feed # <<>>
  /\ Set(f, Task(IF stream[f].state = "parked" THEN "running" ELSE stream[f].state,
                 stream[f].inst, Tail(stream[f].feed), Head(stream[f].feed)))
  /\ UNCHANGED <<newest, watches, reply, outq, raised, open, writing, shown, lost>>

\* The pair is absent from the sample, or the point exceeds the anomaly cap.
Skip(f) ==
  /\ Polled(f) /\ stream[f].hold # None
  /\ Set(f, [stream[f] EXCEPT !.hold = None])
  /\ lost' = [lost EXCEPT ![f] = TRUE]
  /\ UNCHANGED <<newest, watches, reply, outq, raised, open, writing, shown>>

\* tx.send completes; once the writer is gone it fails and the task ends.
Send(f) ==
  /\ stream[f].state \in {"running", "doomed", "blocked"} /\ stream[f].hold # None
  /\ IF writing
     THEN /\ Room
          /\ outq' = Append(outq, TickOf(f))
          /\ Set(f, Task(IF stream[f].state = "blocked" THEN "running" ELSE stream[f].state,
                         stream[f].inst, stream[f].feed, None))
     ELSE Set(f, Nobody) /\ UNCHANGED outq
  /\ UNCHANGED <<newest, watches, reply, raised, open, writing, shown, lost>>

\* The task reaches an await that is not ready: it waits, or dies if aborted.
Park(f) ==
  /\ Polled(f)
  /\ \/ stream[f].hold = None /\ stream[f].feed = <<>>
     \/ stream[f].hold # None /\ writing /\ ~Room
  /\ Set(f, IF stream[f].state = "doomed" THEN Nobody
            ELSE [stream[f] EXCEPT !.state = IF stream[f].hold = None THEN "parked" ELSE "blocked"])
  /\ UNCHANGED <<newest, watches, reply, outq, raised, open, writing, shown, lost>>

-----------------------------------------------------------------------------
\* The writer task sends the oldest message and the client takes it in.
Deliver ==
  /\ outq # <<>>
  /\ LET m == Head(outq)
     IN  shown' = IF m.kind \in {"snap", "tick"} THEN [shown EXCEPT ![m.stream] = m.n] ELSE shown
  /\ outq' = Tail(outq)
  /\ UNCHANGED <<newest, stream, watches, reply, raised, open, writing, lost>>

\* The socket refuses a message: the writer task ends and drops the channel, while
\* the stream loop learns of it only when it next reads or emits.
WriterFails ==
  /\ writing /\ outq # <<>>
  /\ writing' = FALSE /\ outq' = <<>>
  /\ UNCHANGED <<newest, stream, watches, reply, raised, open, shown, lost>>

Forward(f) == Recv(f) \/ Skip(f) \/ Send(f) \/ Park(f)

Next == \/ \E i \in Instruments : Record(i) \/ Refuse(i) \/ Watch(i) \/ Unwatch(i)
        \/ Answer \/ Emit \/ Alert \/ End \/ Deliver \/ WriterFails
        \/ \E f \in Streams : Forward(f)

Spec == Init /\ [][Next]_vars

\* The runtime polls every task that can make progress.
FairSpec == Spec /\ WF_vars(Emit) /\ WF_vars(Deliver) /\ \A f \in Streams : WF_vars(Forward(f))

-----------------------------------------------------------------------------
(* Properties *)

\* Everything of stream f between the client and the tape, oldest first: the last
\* sample shown, the messages on their way, the sample in hand, the unread ones;
\* None where there is nothing of f.
Pipe(f) ==
  LET of(m) == IF m # None /\ IsOf(m, f) THEN m.n ELSE None
  IN  <<shown[f]>> \o [k \in DOMAIN outq |-> of(outq[k])]
      \o <<of(reply), stream[f].hold>> \o stream[f].feed

Numbers(f) == Range(Pipe(f)) \ {None}

\* Backfill and live ticks of a watch join without a gap and without a repeat,
\* whatever is recorded between taking the backfill, sending it and spawning the
\* forwarder; only lag or a filtered point leaves a gap (spread_tape 130-150,
\* ws.rs:311-355).
StreamsAreContiguous ==
  \A f \in Streams :
    (writing /\ stream[f].state \in Subscribed) =>
      LET t   == Pipe(f)
          end == newest[stream[f].inst]
      IN  /\ Numbers(f) # {} /\ Numbers(f) \subseteq 1..end
          /\ \A j, k \in DOMAIN t : (j < k /\ t[j] # None /\ t[k] # None) => t[j] < t[k]
          /\ ~lost[f] => \A n \in Numbers(f) : n..end \subseteq Numbers(f)

\* Every forwarder that is not on its way out is registered under its instrument
\* and can still be stopped; re-watching orphans none (ws.rs:256-259, 355).
NoOrphans ==
  \A f \in Streams :
    stream[f].state \in {"parked", "running", "blocked"} =>
      open /\ watches[stream[f].inst] = f

\* The cap bounds the forwarders a session keeps, the one whose snapshot is still
\* on its way to the queue included, and re-watches too (ws.rs:256-276).
WatchCap ==
  Cardinality({f \in Streams : stream[f].state \in {"opening", "parked", "running", "blocked"}})
    <= MaxWatches

\* After the session has ended no forwarder of it survives (ws.rs:237-241).
NoLeak == ~open ~> \A f \in Streams : stream[f] = Nobody
=============================================================================
