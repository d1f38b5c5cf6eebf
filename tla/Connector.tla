------------------------------ MODULE Connector ------------------------------
(***************************************************************************)
(* One venue's connector (crates/connectors/src/common.rs, with the parse  *)
(* of a delta venue such as bybit.rs): connect, subscribe, read, reconnect *)
(* with backoff.  The venue at the other end is external: it has a book    *)
(* per instrument, sends a snapshot once an instrument is subscribed and   *)
(* deltas from then on, and may send a new snapshot at any time.           *)
(*                                                                         *)
(* resolve_ws_url, the TCP and TLS handshake and the subscription frames   *)
(* take as long as they take, and then fail or succeed in one step.  They  *)
(* and the writes of a session do not look out for a closed channel.       *)
(***************************************************************************)
EXTENDS Books, Sequences

CONSTANTS
  Instruments,
  WireCap,        \* bound of the model: messages on the socket
  InitialBackoff, MaxBackoff, Jitter,
  StableAfter     \* STABLE_AFTER: session age worth a reset

ASSUME BackoffAssumption ==
  /\ {InitialBackoff, MaxBackoff, Jitter, StableAfter} \subseteq Nat
  /\ InitialBackoff <= MaxBackoff
  /\ WireCap \in Nat \ {0}

VARIABLES
  venue,     \* the venue's book of each instrument
  listed,    \* the venue serves this session's subscription of the instrument
  link,      \* where run_ws_exchange is, see Links
  wire,      \* messages on the socket, oldest first
  local,     \* DeltaBook of each instrument
  upAge,     \* age of the attempt, up to StableAfter
  backoff,   \* Backoff::current
  delay,     \* the delay last chosen
  closed     \* tx.is_closed(): the receiver of the update channel is gone

venueVars == <<venue, listed>>
driverVars == <<link, upAge, backoff, delay, closed>>
connVars == <<venueVars, driverVars, wire, local>>

\* "idle": between two attempts, at the top of the loop or asleep; "dialing": up to
\* the last subscription frame; "up": at the select of the session; "writing": at
\* the write of a ping or a pong; "closing": at the write of the close frame.
Links == {"idle", "dialing", "up", "writing", "closing", "stopped"}
InSession == link \in {"up", "writing", "closing"}

Snapshot(i, b) == [kind |-> "snapshot", inst |-> i, book |-> b]
Delta(i, old, new) ==
  [kind |-> "delta", inst |-> i, set |-> Minus(new, old), gone |-> Minus(old, new)]
Other == [kind |-> "other"]

ConnTypeOK ==
  /\ venue \in [Instruments -> Book] /\ local \in [Instruments -> Book]
  /\ listed \in [Instruments -> BOOLEAN]
  /\ link \in Links
  /\ upAge \in 0..StableAfter
  /\ backoff \in InitialBackoff..MaxBackoff
  /\ delay \in 0..MaxBackoff + Jitter
  /\ closed \in BOOLEAN

ConnInit == /\ venue \in [Instruments -> Book]
            /\ listed = [i \in Instruments |-> FALSE]
            /\ link = "idle" /\ wire = <<>>
            /\ local = [i \in Instruments |-> EmptyBook]
            /\ upAge = 0 /\ backoff = InitialBackoff /\ delay = 0
            /\ closed = FALSE

-----------------------------------------------------------------------------
(* The venue *)

WireRoom == Len(wire) < WireCap

\* The book changes, and a subscriber is sent the delta.
VenueMoves(i) ==
  /\ \E b \in Book \ {venue[i]} :
       /\ venue' = [venue EXCEPT ![i] = b]
       /\ IF listed[i] THEN WireRoom /\ wire' = Append(wire, Delta(i, venue[i], b))
                       ELSE UNCHANGED wire
  /\ UNCHANGED <<listed, driverVars, local>>

\* The venue starts its stream over: a new snapshot instead of deltas.
VenueResends(i) ==
  /\ listed[i] /\ WireRoom
  /\ \E b \in Book : /\ venue' = [venue EXCEPT ![i] = b]
                     /\ wire' = Append(wire, Snapshot(i, b))
  /\ UNCHANGED <<listed, driverVars, local>>

\* The subscription takes effect.
VenueLists(i) ==
  /\ InSession /\ ~listed[i]
  /\ listed' = [listed EXCEPT ![i] = TRUE]
  /\ wire' = Append(wire, Snapshot(i, venue[i]))
  /\ UNCHANGED <<venue, driverVars, local>>

\* A ticker, a funding rate, or an instrument not looked at here.
VenueTalks ==
  /\ InSession /\ WireRoom
  /\ wire' = Append(wire, Other)
  /\ UNCHANGED <<venueVars, driverVars, local>>

-----------------------------------------------------------------------------
(* run_ws_exchange and connect_once *)

\* An attempt begins: the channel is looked at for the last time before it.
Dial ==
  /\ link = "idle" /\ ~closed
  /\ link' = "dialing" /\ upAge' = 0
  /\ UNCHANGED <<venueVars, wire, local, backoff, delay, closed>>

\* Connected: the books are reset and everything is subscribed anew.  The session
\* counts from when the URL was resolved.
Connect ==
  /\ link = "dialing" /\ link' = "up"
  /\ upAge' \in 0..upAge
  /\ wire' = <<>>
  /\ local' = [i \in Instruments |-> EmptyBook]
  /\ UNCHANGED <<venueVars, backoff, delay, closed>>

\* next_delay, from the given current value.
BackOffFrom(current) ==
  /\ delay' \in current..current + Jitter
  /\ backoff' = IF 2 * current < MaxBackoff THEN 2 * current ELSE MaxBackoff

\* connect_once has returned: unless the channel is closed the loop goes to sleep.
AttemptOver(current) ==
  IF closed THEN link' = "stopped" /\ UNCHANGED <<backoff, delay>>
            ELSE link' = "idle" /\ BackOffFrom(current)

\* The attempt fails, before the books are reset or at a subscription frame.
ConnectFails ==
  /\ link = "dialing" /\ AttemptOver(backoff)
  /\ wire' = <<>> /\ upAge' = 0
  /\ local' \in {local, [i \in Instruments |-> EmptyBook]}
  /\ UNCHANGED <<venueVars, closed>>

\* A ping or a pong is written; nothing else happens in the session meanwhile.
Write ==
  /\ link = "up" /\ ~closed
  /\ link' = "writing"
  /\ UNCHANGED <<venueVars, wire, local, upAge, backoff, delay, closed>>

Written ==
  /\ link = "writing" /\ link' = "up"
  /\ UNCHANGED <<venueVars, wire, local, upAge, backoff, delay, closed>>

\* Mutant: the select of the session has no arm for the closed channel.
ClosedUnseen == FALSE

\* The select finds the channel closed, before anything else that is ready.
SessionCloses ==
  /\ link = "up" /\ closed
  /\ link' = "closing"
  /\ UNCHANGED <<venueVars, wire, local, upAge, backoff, delay, closed>>

\* The session ends: with Ok when the venue closes it, a ping cannot be written,
\* the close frame has been or an update finds the receiver gone, with Err when
\* reading fails.  Only Ok carries the length of the session.
SessionEnds(ok) ==
  /\ link = "up" \/ (ok /\ link \in {"writing", "closing"})
  /\ AttemptOver(IF ok /\ upAge = StableAfter THEN InitialBackoff ELSE backoff)
  /\ listed' = [i \in Instruments |-> FALSE]
  /\ wire' = <<>> /\ upAge' = 0
  /\ UNCHANGED <<venue, local, closed>>

\* Between two attempts the top of the loop and the sleep look out for it.  With Ok
\* the supervisor ends too.
Stop ==
  /\ link = "idle" /\ closed
  /\ link' = "stopped"
  /\ UNCHANGED <<venueVars, wire, local, upAge, backoff, delay, closed>>

-----------------------------------------------------------------------------
(* parse *)

\* The book of m's instrument after m.
After(b, m) == IF m.kind = "snapshot" THEN ApplySnapshot(b, m.book)
                                      ELSE ApplyDelta(b, m.set, m.gone)

\* The book b of i once m has been parsed.
Heard(i, b, m) == IF m.kind # "other" /\ m.inst = i THEN After(b, m) ELSE b

Parsed(m) == [i \in Instruments |-> Heard(i, local[i], m)]

\* Mutant: only a snapshot is passed on.
SnapshotUpdates(m) ==
  IF m.kind = "other" THEN <<[kind |-> "other", age |-> 0]>>
  ELSE LET b == After(local[m.inst], m)
       IN  IF TwoSided(b) /\ m.kind = "snapshot"
           THEN <<[kind |-> "book", inst |-> m.inst, book |-> b, age |-> 0]>>
           ELSE <<>>

\* The updates m results in: none for a book that lacks a side.
Updates(m) ==
  IF m.kind = "other" THEN <<[kind |-> "other", age |-> 0]>>
  ELSE LET b == After(local[m.inst], m)
       IN  IF TwoSided(b)
           THEN <<[kind |-> "book", inst |-> m.inst, book |-> b, age |-> 0]>>
           ELSE <<>>

-----------------------------------------------------------------------------
\* What the connector's book of i becomes once the socket has been read.
Replayed(i) ==
  LET book[k \in 0..Len(wire)] ==
        IF k = 0 THEN local[i] ELSE Heard(i, book[k - 1], wire[k])
  IN book[Len(wire)]

\* The connector's book of a subscribed instrument is the venue's, but for the
\* messages still on the socket: a book from before a reconnect, or from before a
\* new snapshot, is never mixed into it (common.rs:137-139, book.rs:22-26).
MirrorsVenue ==
  \A i \in Instruments : listed[i] => Replayed(i) = venue[i]
=============================================================================
