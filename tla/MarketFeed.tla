----------------------------- MODULE MarketFeed -----------------------------
(***************************************************************************)
(* The path of one venue's books from its socket to a quote: the connector *)
(* (Connector) sends updates into the bounded channel of the ingest        *)
(* manager (crates/ingest/src/manager.rs), the drain loop of the server    *)
(* (bin/server/src/main.rs) applies them to the market state               *)
(* (MarketState), and a snapshot reads them there.                         *)
(***************************************************************************)
EXTENDS Connector, MarketState

CONSTANTS
  Venue,       \* the venue of the connector
  QueueCap     \* updates between parse and apply: channel_buffer and the one in hand

ASSUME FeedAssumption ==
  Venue \in Exchanges /\ Instruments \subseteq Listed /\ QueueCap \in Nat \ {0}

VARIABLE queue    \* updates not yet applied, oldest first, with the age of recv_ts

vars == <<connVars, marketVars, queue>>

FeedTypeOK == ConnTypeOK /\ MarketTypeOK /\ Len(queue) <= QueueCap

FeedInit == ConnInit /\ MarketInit /\ queue = <<>>

\* Mutant: a full channel drops the update.
ReadDropping ==
  /\ link = "up" /\ wire # <<>>
  /\ wire' = Tail(wire)
  /\ local' = Parsed(Head(wire))
  /\ queue' = IF Len(queue) < QueueCap THEN queue \o Updates(Head(wire)) ELSE queue
  /\ UNCHANGED <<venueVars, driverVars, marketVars>>

\* Mutant: the channel is unbounded.
ReadUnbounded ==
  /\ link = "up" /\ wire # <<>>
  /\ wire' = Tail(wire)
  /\ local' = Parsed(Head(wire))
  /\ queue' = queue \o Updates(Head(wire))
  /\ UNCHANGED <<venueVars, driverVars, marketVars>>

\* The session reads a message and sends what it parses to; it waits while the
\* channel is full.
Read ==
  /\ link = "up" /\ wire # <<>>
  /\ ~closed /\ Len(queue) < QueueCap
  /\ wire' = Tail(wire)
  /\ local' = Parsed(Head(wire))
  /\ queue' = queue \o Updates(Head(wire))
  /\ UNCHANGED <<venueVars, driverVars, marketVars>>

\* The drain loop applies the oldest update.
Drain ==
  /\ ~closed /\ queue # <<>>
  /\ Apply(Venue, Head(queue))
  /\ queue' = Tail(queue)
  /\ UNCHANGED connVars

\* The drain loop ends on shutdown and drops the receiver.
Shutdown ==
  /\ ~closed /\ closed' = TRUE
  /\ queue' = <<>>
  /\ UNCHANGED <<venueVars, wire, local, link, upAge, backoff, delay, marketVars>>

Elapse ==
  /\ MarketAges
  /\ queue' = [k \in 1..Len(queue) |-> [queue[k] EXCEPT !.age = Older(@)]]
  /\ upAge' = IF link \notin {"idle", "stopped"} /\ upAge < StableAfter THEN upAge + 1 ELSE upAge
  /\ UNCHANGED <<venueVars, wire, local, link, backoff, delay, closed>>

ConnNext == \/ \E i \in Instruments : VenueMoves(i) \/ VenueResends(i) \/ VenueLists(i)
            \/ VenueTalks
            \/ Dial \/ Connect \/ ConnectFails
            \/ Write \/ Written \/ SessionCloses
            \/ \E ok \in BOOLEAN : SessionEnds(ok)
            \/ Stop

Beside == UNCHANGED <<marketVars, queue>>

FeedNext == \/ ConnNext /\ Beside
            \/ Read \/ Drain \/ Shutdown \/ Elapse

FeedSpec == FeedInit /\ [][FeedNext]_vars

\* Tasks are scheduled, time passes and the venue honours a subscription.  A write
\* that is over lets the session read, since the ping timer fires only now and then.
\* Nothing is assumed of how long a handshake or a write takes.
FairFeedSpec == /\ FeedSpec
                /\ WF_vars(Dial /\ Beside) /\ WF_vars(Stop /\ Beside)
                /\ WF_vars(SessionCloses /\ Beside)
                /\ SF_vars(Read) /\ WF_vars(Drain) /\ WF_vars(Elapse)
                /\ \A i \in Instruments : WF_vars(VenueLists(i) /\ Beside)

-----------------------------------------------------------------------------
(* Properties *)

\* Backpressure loses nothing: once the channel is empty the market state holds
\* the connector's latest two-sided book (common.rs:253-257, main.rs:248-255).
NothingDropped ==
  \A i \in Instruments :
    (~closed /\ queue = <<>> /\ TwoSided(local[i])) =>
      books[Venue][i] # None /\ books[Venue][i].book = local[i]

\* A venue that is not read any more, because it is not connected or because a
\* write to it hangs, drops out of every snapshot, whatever was still queued
\* (market_state lib.rs:149-161).
SilentVenueDropsOut ==
  \A i \in Instruments : <>[](link # "up") => <>[]~Usable(Venue, i)

\* "frozen/delisted symbols on a live connection must eventually go stale"
\* (market_state lib.rs:37-38): a book that is never replaced drops out, however
\* much else the venue sends.
FrozenDropsOut ==
  \A i \in Instruments :
    <>[][~(Drain /\ Head(queue).kind = "book" /\ Head(queue).inst = i)]_vars
      => <>[]~Usable(Venue, i)

\* When the venue's book settles and some session lasts, with its writes returning,
\* the market state ends up with exactly that book, through whatever reconnects,
\* snapshots and backlog there were (common.rs:207-281).
Converges ==
  \A i \in Instruments :
    (/\ []~closed
     /\ <>[][UNCHANGED venue]_vars
     /\ <>[]InSession /\ []<>(link = "up")
     /\ <>[]TwoSided(venue[i]))
      => <>[](books[Venue][i] # None /\ books[Venue][i].book = venue[i])

\* Dropping the receiver ends the connector, be it asleep, in a session, blocked on
\* the channel or in the middle of an attempt that then fails or succeeds; it does
\* not try again.  Only one single handshake or write that never returns, for which
\* the code has no time-out, keeps it (manager.rs:51-53, common.rs:157-158, 175-203,
\* 232-258).
ShutdownStops ==
  closed ~> \/ link = "stopped"
            \/ \E wait \in {"dialing", "writing", "closing"} : [](link = wait)

\* "A book on a live connection is current until the venue says otherwise"
\* (market_state lib.rs:149): with nothing on its way, a usable quote of a
\* subscribed instrument is the venue's book.
CurrentUntilTold ==
  \A i \in Instruments :
    (/\ link = "up" /\ listed[i] /\ wire = <<>> /\ queue = <<>>
     /\ ~closed /\ Usable(Venue, i))
      => books[Venue][i].book = venue[i]
=============================================================================
