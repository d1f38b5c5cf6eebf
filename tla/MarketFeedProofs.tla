---------------------------- MODULE MarketFeedProofs ----------------------------
(***************************************************************************)
(* Proofs about one venue's books on their way from the socket to a quote  *)
(* (MarketFeed).  Nothing is assumed of the bounds, of the number of       *)
(* instruments or of the prices beyond the modules' own assumptions.       *)
(***************************************************************************)
EXTENDS MarketFeed, TLAPS, WellFoundedInduction, FiniteSetTheorems

-----------------------------------------------------------------------------
(* The inductive invariant *)

BookMessage == [kind : {"snapshot"}, inst : Instruments, book : Book]
DeltaMessage == [kind : {"delta"}, inst : Instruments, set : Book, gone : Book]
Message == BookMessage \cup DeltaMessage \cup {Other}

BookUpdate == [kind : {"book"}, inst : Instruments, book : Book, age : Ages]
Update == BookUpdate \cup [kind : {"other"}, age : Ages]

Quote == [book : Book, age : Ages]

WireSound == wire \in Seq(Message)
QueueSound == queue \in Seq(Update) /\ Len(queue) <= QueueCap

TypeInv == ConnTypeOK /\ MarketTypeOK /\ WireSound /\ QueueSound

\* Only a session has subscriptions.
Linked == ~InSession => \A i \in Instruments : ~listed[i]

\* The books that the connector goes through from b on while it reads the
\* messages w.
Run(h, b, w, i) ==
  /\ h \in [0..Len(w) -> Book]
  /\ h[0] = b
  /\ \A k \in 1..Len(w) : h[k] = Heard(i, h[k - 1], w[k])

\* Reading the socket to its end leads to the venue's book.
Trail(i) == \E h : Run(h, local[i], wire, i) /\ (listed[i] => h[Len(wire)] = venue[i])
Trails == \A i \in Instruments : Trail(i)

IsBook(u, i) == u.kind = "book" /\ u.inst = i

\* The newest update of i in the queue q carries b.
Newest(q, i, b) ==
  \E k \in 1..Len(q) : /\ IsBook(q[k], i) /\ q[k].book = b
                       /\ \A j \in k + 1..Len(q) : ~IsBook(q[j], i)

Silent(q, i) == \A k \in 1..Len(q) : ~IsBook(q[k], i)

\* The connector's latest two-sided book is the newest update of the queue, or
\* nothing is queued and the market state holds it.
OnItsWay(i) ==
  ~closed /\ TwoSided(local[i]) =>
    \/ Newest(queue, i, local[i])
    \/ Silent(queue, i) /\ books[Venue][i] # None /\ books[Venue][i].book = local[i]
Underway == \A i \in Instruments : OnItsWay(i)

-----------------------------------------------------------------------------
(* Books and messages *)

LEMMA TailOf ==
  ASSUME NEW S, NEW q \in Seq(S), q # <<>>
  PROVE  /\ Len(q) \in Nat \ {0} /\ Head(q) \in S /\ Head(q) = q[1]
         /\ Tail(q) \in Seq(S) /\ Len(Tail(q)) = Len(q) - 1
         /\ \A k \in 1..Len(q) - 1 : Tail(q)[k] = q[k + 1]
  OBVIOUS

LEMMA AppendOf ==
  ASSUME NEW S, NEW q \in Seq(S), NEW e \in S
  PROVE  /\ Append(q, e) \in Seq(S) /\ Len(q) \in Nat /\ Len(Append(q, e)) = Len(q) + 1
         /\ Append(q, e)[Len(q) + 1] = e
         /\ \A k \in 1..Len(q) : Append(q, e)[k] = q[k]
  OBVIOUS

LEMMA BooksAgree ==
  ASSUME NEW a \in Book, NEW b \in Book, a.bids = b.bids, a.asks = b.asks
  PROVE  a = b
  BY DEF Book

\* A snapshot replaces whatever was there (DeltaBook::apply_snapshot).
LEMMA SnapshotReplaces ==
  ASSUME NEW b \in Book, NEW c \in Book
  PROVE  ApplySnapshot(b, c) = c
<1>1. ApplySnapshot(b, c) \in Book
  BY DEF ApplySnapshot, ApplyDelta, EmptyBook, Book
<1>2. ApplySnapshot(b, c).bids = c.bids /\ ApplySnapshot(b, c).asks = c.asks
  BY DEF ApplySnapshot, ApplyDelta, EmptyBook
<1>. QED BY <1>1, <1>2, BooksAgree

LEMMA DeltaIsBook ==
  ASSUME NEW b \in Book, NEW set \in Book, NEW gone \in Book
  PROVE  ApplyDelta(b, set, gone) \in Book
  BY DEF ApplyDelta, Book

\* The venue's delta leads from its old book to its new one.
LEMMA DeltaLeads ==
  ASSUME NEW b \in Book, NEW c \in Book
  PROVE  /\ Minus(c, b) \in Book /\ Minus(b, c) \in Book
         /\ ApplyDelta(b, Minus(c, b), Minus(b, c)) = c
<1>1. Minus(c, b) \in Book /\ Minus(b, c) \in Book
  BY DEF Minus, Book
<1> DEFINE d == ApplyDelta(b, Minus(c, b), Minus(b, c))
<1>2. d \in Book
  BY <1>1, DeltaIsBook
<1>3. d.bids = (b.bids \ (b.bids \ c.bids)) \cup (c.bids \ b.bids)
  BY DEF ApplyDelta, Minus
<1>4. d.asks = (b.asks \ (b.asks \ c.asks)) \cup (c.asks \ b.asks)
  BY DEF ApplyDelta, Minus
<1>. HIDE DEF d
<1>5. d.bids = c.bids /\ d.asks = c.asks
  BY <1>3, <1>4
<1>. QED BY <1>1, <1>2, <1>5, BooksAgree DEF d

LEMMA SnapshotMessage ==
  ASSUME NEW i \in Instruments, NEW c \in Book
  PROVE  /\ Snapshot(i, c) \in Message
         /\ \A b \in Book, j \in Instruments :
              Heard(j, b, Snapshot(i, c)) = IF j = i THEN c ELSE b
  BY SnapshotReplaces DEF Snapshot, Message, BookMessage, Heard, After

LEMMA DeltaSent ==
  ASSUME NEW i \in Instruments, NEW b \in Book, NEW c \in Book
  PROVE  /\ Delta(i, b, c) \in Message
         /\ Heard(i, b, Delta(i, b, c)) = c
         /\ \A d \in Book, j \in Instruments \ {i} : Heard(j, d, Delta(i, b, c)) = d
<1>1. Delta(i, b, c) \in Message
  BY DeltaLeads DEF Delta, Message, DeltaMessage
<1>2. Heard(i, b, Delta(i, b, c)) = c
  BY DeltaLeads DEF Delta, Heard, After
<1>3. \A d \in Book, j \in Instruments \ {i} : Heard(j, d, Delta(i, b, c)) = d
  BY DEF Delta, Heard
<1>. QED BY <1>1, <1>2, <1>3

LEMMA OtherMessage ==
  Other \in Message /\ \A b, j : Heard(j, b, Other) = b
  BY DEF Other, Message, Heard

LEMMA HeardIsBook ==
  ASSUME NEW b \in Book, NEW m \in Message, NEW i \in Instruments
  PROVE  Heard(i, b, m) \in Book
<1>1. CASE m \in BookMessage
  BY <1>1, SnapshotReplaces DEF BookMessage, Heard, After
<1>2. CASE m \in DeltaMessage
  BY <1>2, DeltaIsBook DEF DeltaMessage, Heard, After
<1>3. CASE m = Other
  BY <1>3, OtherMessage
<1>. QED BY <1>1, <1>2, <1>3 DEF Message

-----------------------------------------------------------------------------
(* Runs *)

LEMMA RunOfNothing ==
  ASSUME NEW b \in Book, NEW i
  PROVE  \E h : Run(h, b, <<>>, i) /\ h[Len(<<>>)] = b
<1> DEFINE h == [k \in 0..0 |-> b]
           w == <<>>
<1>1. h \in [0..0 -> Book] /\ h[0] = b
  OBVIOUS
<1>2. Len(w) = 0 /\ 1..0 = {}
  OBVIOUS
<1>. HIDE DEF h, w
<1>3. Run(h, b, w, i) /\ h[Len(w)] = b
  BY <1>1, <1>2 DEF Run
<1>. QED BY <1>3 DEF w

LEMMA RunGoesOn ==
  ASSUME NEW b \in Book, NEW w \in Seq(Message), NEW m \in Message, NEW i \in Instruments,
         NEW h, Run(h, b, w, i)
  PROVE  \E g : /\ Run(g, b, Append(w, m), i)
                /\ g[Len(Append(w, m))] = Heard(i, h[Len(w)], m)
<1> DEFINE n == Len(w)
           x == Append(w, m)
           g == [k \in 0..n + 1 |-> IF k = n + 1 THEN Heard(i, h[n], m) ELSE h[k]]
<1>1. n \in Nat /\ Len(x) = n + 1 /\ x[n + 1] = m /\ \A k \in 1..n : x[k] = w[k]
  BY AppendOf
<1>2. h \in [0..n -> Book] /\ h[0] = b /\ \A k \in 1..n : h[k] = Heard(i, h[k - 1], w[k])
  BY DEF Run
<1>. HIDE DEF n, x
<1>3. Heard(i, h[n], m) \in Book
  BY <1>1, <1>2, HeardIsBook
<1>4. g \in [0..n + 1 -> Book] /\ g[0] = b /\ g[n + 1] = Heard(i, h[n], m)
  BY <1>1, <1>2, <1>3
<1>5. \A k \in 1..n + 1 : g[k] = Heard(i, g[k - 1], x[k])
  BY <1>1, <1>2
<1>. HIDE DEF g
<1>6. Run(g, b, x, i)
  BY <1>1, <1>4, <1>5 DEF Run
<1>. QED BY <1>1, <1>4, <1>6 DEF n, x

LEMMA RunIsRead ==
  ASSUME NEW b \in Book, NEW w \in Seq(Message), w # <<>>, NEW i \in Instruments,
         NEW h, Run(h, b, w, i)
  PROVE  \E g : /\ Run(g, Heard(i, b, Head(w)), Tail(w), i)
                /\ g[Len(Tail(w))] = h[Len(w)]
<1> DEFINE n == Len(w)
           x == Tail(w)
           m == Head(w)
           g == [k \in 0..n - 1 |-> h[k + 1]]
<1>1. n \in Nat \ {0} /\ Len(x) = n - 1 /\ w[1] = m /\ \A k \in 1..n - 1 : x[k] = w[k + 1]
  BY TailOf
<1>2. h \in [0..n -> Book] /\ h[0] = b /\ \A k \in 1..n : h[k] = Heard(i, h[k - 1], w[k])
  BY DEF Run
<1>. HIDE DEF n, x, m
<1>3. h[1] = Heard(i, b, m)
  BY <1>1, <1>2
<1>4. g \in [0..n - 1 -> Book] /\ g[0] = h[1] /\ g[n - 1] = h[n]
  BY <1>1, <1>2
<1>5. \A k \in 1..n - 1 : g[k] = Heard(i, g[k - 1], x[k])
  <2>. TAKE k \in 1..n - 1
  <2>1. k + 1 \in 1..n /\ (k + 1) - 1 = k /\ k - 1 \in 0..n - 1 /\ (k - 1) + 1 = k
    BY <1>1
  <2>2. h[k + 1] = Heard(i, h[k], w[k + 1])
    BY <1>2, <2>1
  <2>. QED BY <2>1, <2>2, <1>1
<1>. HIDE DEF g
<1>6. Run(g, h[1], x, i)
  BY <1>1, <1>4, <1>5 DEF Run
<1>. QED BY <1>1, <1>3, <1>4, <1>6 DEF n, x, m

-----------------------------------------------------------------------------
(* Types *)

LEMMA AgesGrow ==
  /\ 0 \in Ages
  /\ \A a \in Ages : Older(a) \in Ages
  /\ \A a \in Ages \cup {None} : Older(a) \in Ages \cup {None}
  BY FreshnessAssumption DEF Ages, Older

LEMMA UpdateAges ==
  ASSUME NEW u \in Update
  PROVE  /\ [u EXCEPT !.age = Older(@)] \in Update
         /\ \A i : IsBook([u EXCEPT !.age = Older(@)], i) = IsBook(u, i)
         /\ u.kind = "book" => [u EXCEPT !.age = Older(@)].book = u.book
  BY AgesGrow DEF Update, BookUpdate, IsBook

LEMMA BackOffSound ==
  ASSUME NEW c \in InitialBackoff..MaxBackoff, BackOffFrom(c)
  PROVE  backoff' \in InitialBackoff..MaxBackoff /\ delay' \in 0..MaxBackoff + Jitter
  BY BackoffAssumption DEF BackOffFrom

LEMMA InitTypes == FeedInit => TypeInv
<1>. SUFFICES ASSUME FeedInit PROVE TypeInv
  OBVIOUS
<1>1. ConnTypeOK
  <2>1. EmptyBook \in Book
    BY DEF EmptyBook, Book
  <2>2. 0 \in 0..StableAfter /\ InitialBackoff \in InitialBackoff..MaxBackoff /\ 0 \in 0..MaxBackoff + Jitter
    BY BackoffAssumption
  <2>. QED BY <2>1, <2>2 DEF FeedInit, ConnInit, ConnTypeOK, Links
<1>2. MarketTypeOK
  BY DEF FeedInit, MarketInit, MarketTypeOK
<1>3. WireSound /\ QueueSound
  BY FeedAssumption DEF FeedInit, ConnInit, WireSound, QueueSound
<1>. QED BY <1>1, <1>2, <1>3 DEF TypeInv

\* What m is parsed to.
LEMMA UpdatesSound ==
  ASSUME TypeInv, NEW m \in Message
  PROVE  /\ Parsed(m) \in [Instruments -> Book]
         /\ \/ Updates(m) = <<>>
            \/ \E u \in Update : Updates(m) = <<u>>
<1>1. Parsed(m) \in [Instruments -> Book]
  BY HeardIsBook DEF Parsed, TypeInv, ConnTypeOK
<1>2. CASE m = Other
  <2> DEFINE u == [kind |-> "other", age |-> 0]
  <2>1. u \in Update
    BY AgesGrow DEF Update
  <2>2. Updates(m) = <<u>>
    BY <1>2 DEF Other, Updates
  <2>. HIDE DEF u
  <2>. QED BY <1>1, <2>1, <2>2
<1>3. CASE m \in BookMessage \cup DeltaMessage
  <2>1. m.kind # "other" /\ m.inst \in Instruments
    BY <1>3 DEF BookMessage, DeltaMessage
  <2> DEFINE b == After(local[m.inst], m)
  <2>2. b \in Book
    BY <2>1, HeardIsBook DEF Heard, TypeInv, ConnTypeOK
  <2>3. Updates(m) = IF TwoSided(b)
                     THEN <<[kind |-> "book", inst |-> m.inst, book |-> b, age |-> 0]>>
                     ELSE <<>>
    BY <2>1 DEF Updates
  <2>. HIDE DEF b
  <2>4. [kind |-> "book", inst |-> m.inst, book |-> b, age |-> 0] \in Update
    BY <2>1, <2>2, AgesGrow DEF Update, BookUpdate
  <2>. QED BY <1>1, <2>3, <2>4
<1>. QED BY <1>1, <1>2, <1>3 DEF Message

\* The driver goes from one wait to another.
Waits == Dial \/ Write \/ Written \/ SessionCloses \/ Stop

LEMMA WaitsMoves ==
  Waits => /\ UNCHANGED <<venueVars, wire, local, backoff, delay, closed>>
           /\ link' \in Links /\ upAge' \in {0, upAge}
           /\ InSession' = InSession
  BY DEF Waits, Dial, Write, Written, SessionCloses, Stop, Links, InSession

\* What an attempt that is over leaves behind.
LEMMA AttemptSound ==
  ASSUME ConnTypeOK, NEW c \in InitialBackoff..MaxBackoff, AttemptOver(c)
  PROVE  /\ link' \in {"idle", "stopped"} /\ link' \in Links
         /\ backoff' \in InitialBackoff..MaxBackoff /\ delay' \in 0..MaxBackoff + Jitter
  BY BackOffSound DEF ConnTypeOK, AttemptOver, Links

LEMMA WireTypes == TypeInv /\ [FeedNext]_vars => WireSound'
<1>. SUFFICES ASSUME TypeInv, [FeedNext]_vars PROVE wire' \in Seq(Message)
  BY DEF WireSound
<1>1. wire \in Seq(Message) /\ venue \in [Instruments -> Book]
  BY DEF TypeInv, WireSound, ConnTypeOK
<1>2. \A m \in Message : Append(wire, m) \in Seq(Message)
  BY <1>1
<1>3. ASSUME NEW i \in Instruments, VenueMoves(i) PROVE wire' \in Seq(Message)
  BY <1>1, <1>2, <1>3, DeltaSent DEF VenueMoves
<1>4. ASSUME NEW i \in Instruments, VenueResends(i) PROVE wire' \in Seq(Message)
  BY <1>2, <1>4, SnapshotMessage DEF VenueResends
<1>5. ASSUME NEW i \in Instruments, VenueLists(i) PROVE wire' \in Seq(Message)
  BY <1>1, <1>2, <1>5, SnapshotMessage DEF VenueLists
<1>6. CASE VenueTalks
  BY <1>2, <1>6, OtherMessage DEF VenueTalks
<1>7. CASE Connect \/ ConnectFails \/ \E ok \in BOOLEAN : SessionEnds(ok)
  <2>1. wire' = <<>>
    BY <1>7 DEF Connect, ConnectFails, SessionEnds
  <2>. QED BY <2>1
<1>8. CASE Read
  BY <1>1, <1>8, TailOf DEF Read
<1>9. CASE Waits \/ Drain \/ Shutdown \/ Elapse \/ UNCHANGED vars
  BY <1>1, <1>9, WaitsMoves DEF Drain, Shutdown, Elapse, vars, connVars
<1>. QED BY <1>3, <1>4, <1>5, <1>6, <1>7, <1>8, <1>9 DEF FeedNext, ConnNext, Waits

LEMMA ConnTypes == TypeInv /\ [FeedNext]_vars => ConnTypeOK'
<1>. SUFFICES ASSUME TypeInv, [FeedNext]_vars PROVE ConnTypeOK'
  OBVIOUS
<1>1. ConnTypeOK
  BY DEF TypeInv
<1>0. EmptyBook \in Book /\ 0 \in 0..StableAfter /\ upAge \in 0..StableAfter /\ StableAfter \in Nat
  BY <1>1, BackoffAssumption DEF EmptyBook, Book, ConnTypeOK
<1>2. ASSUME NEW i \in Instruments, VenueMoves(i) \/ VenueResends(i) \/ VenueLists(i)
      PROVE  ConnTypeOK'
  BY <1>1, <1>2 DEF ConnTypeOK, VenueMoves, VenueResends, VenueLists, driverVars
<1>3. CASE VenueTalks
  BY <1>1, <1>3 DEF ConnTypeOK, VenueTalks, venueVars, driverVars
<1>4. CASE Connect
  BY <1>0, <1>1, <1>4 DEF ConnTypeOK, Connect, venueVars, Links
<1>5. CASE ConnectFails
  BY <1>0, <1>1, <1>5, AttemptSound DEF ConnTypeOK, ConnectFails, venueVars
<1>6. ASSUME NEW ok \in BOOLEAN, SessionEnds(ok) PROVE ConnTypeOK'
  <2>1. InitialBackoff \in InitialBackoff..MaxBackoff
    BY BackoffAssumption
  <2>2. link' \in Links /\ backoff' \in InitialBackoff..MaxBackoff /\ delay' \in 0..MaxBackoff + Jitter
    BY <1>1, <1>6, <2>1, AttemptSound DEF ConnTypeOK, SessionEnds
  <2>. QED BY <1>0, <1>1, <1>6, <2>2 DEF ConnTypeOK, SessionEnds
<1>7. CASE Waits
  BY <1>0, <1>1, <1>7, WaitsMoves DEF ConnTypeOK, venueVars
<1>8. CASE Read
  <2>1. Parsed(Head(wire)) \in [Instruments -> Book]
    BY <1>8, TailOf, UpdatesSound DEF Read, TypeInv, WireSound
  <2>. QED BY <1>1, <1>8, <2>1 DEF ConnTypeOK, Read, venueVars, driverVars
<1>9. CASE Shutdown \/ Drain \/ UNCHANGED vars
  BY <1>1, <1>9 DEF ConnTypeOK, Shutdown, Drain, vars, connVars, venueVars, driverVars
<1>10. CASE Elapse
  BY <1>1, <1>10, BackoffAssumption DEF ConnTypeOK, Elapse, venueVars
<1>. QED BY <1>2, <1>3, <1>4, <1>5, <1>6, <1>7, <1>8, <1>9, <1>10 DEF FeedNext, ConnNext, Waits

\* Only time and the drain loop change the market state.
LEMMA MarketStays ==
  ASSUME [FeedNext]_vars, ~Drain, ~Elapse
  PROVE  UNCHANGED marketVars
  BY DEF FeedNext, Beside, Read, Shutdown, vars

LEMMA DrainApplies ==
  ASSUME TypeInv, Drain
  PROVE  /\ lastMsg' = [lastMsg EXCEPT ![Venue] = 0]
         /\ Head(queue) \in Update /\ Head(queue) = queue[1]
         /\ queue' \in Seq(Update) /\ Len(queue') = Len(queue) - 1 /\ Len(queue) \in Nat \ {0}
         /\ \A k \in 1..Len(queue) - 1 : queue'[k] = queue[k + 1]
         /\ books' \in [Exchanges -> [Listed -> Quote \cup {None}]]
         /\ \A i \in Listed :
              books'[Venue][i] = IF IsBook(queue[1], i)
                                 THEN [book |-> queue[1].book, age |-> queue[1].age]
                                 ELSE books[Venue][i]
<1>1. queue \in Seq(Update) /\ queue # <<>> /\ queue' = Tail(queue)
  BY DEF TypeInv, QueueSound, Drain
<1> DEFINE u == Head(queue)
<1>2. u \in Update /\ u = queue[1]
  BY <1>1, TailOf
<1>3. books \in [Exchanges -> [Listed -> Quote \cup {None}]] /\ Venue \in Exchanges
  BY FeedAssumption DEF TypeInv, MarketTypeOK, Quote
<1>4. books' = IF u.kind = "book"
               THEN [books EXCEPT ![Venue] =
                       [books[Venue] EXCEPT ![u.inst] = [book |-> u.book, age |-> u.age]]]
               ELSE books
  BY DEF Drain, Apply
<1>5. u.kind = "book" => /\ u.inst \in Listed
                         /\ [book |-> u.book, age |-> u.age] \in Quote
  BY <1>2, FeedAssumption DEF Update, BookUpdate, Quote
<1>. HIDE DEF u, Quote
<1>6. /\ books' \in [Exchanges -> [Listed -> Quote \cup {None}]]
      /\ \A i \in Listed : books'[Venue][i] = IF IsBook(u, i)
                                              THEN [book |-> u.book, age |-> u.age]
                                              ELSE books[Venue][i]
  BY <1>3, <1>4, <1>5 DEF IsBook
<1>7. lastMsg' = [lastMsg EXCEPT ![Venue] = 0]
  BY DEF Drain, Apply
<1>. QED BY <1>1, <1>2, <1>6, <1>7, TailOf DEF u

LEMMA MarketTypes == TypeInv /\ [FeedNext]_vars => MarketTypeOK'
<1>. SUFFICES ASSUME TypeInv, [FeedNext]_vars PROVE MarketTypeOK'
  OBVIOUS
<1>1. /\ books \in [Exchanges -> [Listed -> Quote \cup {None}]]
      /\ lastMsg \in [Exchanges -> Ages \cup {None}]
  BY DEF TypeInv, MarketTypeOK, Quote
<1>2. SUFFICES /\ books' \in [Exchanges -> [Listed -> Quote \cup {None}]]
               /\ lastMsg' \in [Exchanges -> Ages \cup {None}]
  BY DEF MarketTypeOK, Quote
<1>3. CASE Drain
  BY <1>1, <1>3, DrainApplies, AgesGrow, FeedAssumption
<1>4. CASE Elapse
  <2>1. \A q \in Quote : [q EXCEPT !.age = Older(@)] \in Quote
    BY AgesGrow DEF Quote
  <2>. HIDE DEF Quote
  <2>2. \A x \in Exchanges, i \in Listed :
          (IF books[x][i] = None THEN None ELSE [books[x][i] EXCEPT !.age = Older(@)])
             \in Quote \cup {None}
    BY <1>1, <2>1
  <2>3. books' \in [Exchanges -> [Listed -> Quote \cup {None}]]
    BY <1>4, <2>2 DEF Elapse, MarketAges
  <2>4. lastMsg' \in [Exchanges -> Ages \cup {None}]
    BY <1>1, <1>4, AgesGrow DEF Elapse, MarketAges
  <2>. QED BY <2>3, <2>4
<1>5. CASE ~Drain /\ ~Elapse
  BY <1>1, <1>5, MarketStays DEF marketVars
<1>. QED BY <1>3, <1>4, <1>5

\* What a step does to the queue.
LEMMA ReadAppends ==
  ASSUME TypeInv, Read
  PROVE  /\ wire # <<>> /\ Head(wire) \in Message /\ Len(queue) < QueueCap /\ ~closed
         /\ \/ queue' = queue /\ Updates(Head(wire)) = <<>>
            \/ \E u \in Update : queue' = Append(queue, u) /\ Updates(Head(wire)) = <<u>>
<1>1. wire \in Seq(Message) /\ wire # <<>> /\ queue \in Seq(Update) /\ Len(queue) < QueueCap /\ ~closed
  BY DEF TypeInv, WireSound, QueueSound, Read
<1>2. Head(wire) \in Message
  BY <1>1, TailOf
<1>3. queue' = queue \o Updates(Head(wire))
  BY DEF Read
<1>4. queue \o <<>> = queue /\ \A u \in Update : queue \o <<u>> = Append(queue, u)
  BY <1>1
<1>. QED BY <1>1, <1>2, <1>3, <1>4, UpdatesSound

LEMMA ElapseAges ==
  ASSUME TypeInv, Elapse
  PROVE  /\ queue' \in Seq(Update) /\ Len(queue') = Len(queue)
         /\ \A k \in 1..Len(queue) : queue'[k] = [queue[k] EXCEPT !.age = Older(@)]
<1> DEFINE n == Len(queue)
<1>1. queue \in Seq(Update) /\ n \in Nat /\ \A k \in 1..n : queue[k] \in Update
  BY DEF TypeInv, QueueSound
<1>2. queue' = [k \in 1..n |-> [queue[k] EXCEPT !.age = Older(@)]]
  BY DEF Elapse
<1>. HIDE DEF n
<1>3. queue' \in [1..n -> Update]
  BY <1>1, <1>2, UpdateAges
<1>4. queue' \in Seq(Update) /\ Len(queue') = n
  BY <1>1, <1>3
<1>. QED BY <1>2, <1>4 DEF n

LEMMA QueueTypes == TypeInv /\ [FeedNext]_vars => QueueSound'
<1>. SUFFICES ASSUME TypeInv, [FeedNext]_vars
              PROVE  queue' \in Seq(Update) /\ Len(queue') <= QueueCap
  BY DEF QueueSound
<1>1. queue \in Seq(Update) /\ Len(queue) <= QueueCap /\ QueueCap \in Nat /\ Len(queue) \in Nat
  BY FeedAssumption DEF TypeInv, QueueSound
<1>2. CASE Read
  BY <1>1, <1>2, ReadAppends, AppendOf
<1>3. CASE Drain
  BY <1>1, <1>3, DrainApplies
<1>4. CASE Shutdown
  BY <1>1, <1>4 DEF Shutdown
<1>5. CASE Elapse
  BY <1>1, <1>5, ElapseAges
<1>6. CASE UNCHANGED queue
  BY <1>1, <1>6
<1>. QED BY <1>2, <1>3, <1>4, <1>5, <1>6 DEF FeedNext, Beside, vars

LEMMA TypesKept == TypeInv /\ [FeedNext]_vars => TypeInv'
  BY WireTypes, ConnTypes, MarketTypes, QueueTypes DEF TypeInv

\* The connector's books, the market state and the channel stay within their
\* types, and the channel within its capacity: backpressure, not memory, absorbs
\* a slow consumer (manager.rs, common.rs:253-257).
THEOREM FeedTypeCorrect == FeedSpec => []FeedTypeOK
<1>1. TypeInv => FeedTypeOK
  BY DEF TypeInv, FeedTypeOK, QueueSound
<1>. QED BY InitTypes, TypesKept, <1>1, PTL DEF FeedSpec

-----------------------------------------------------------------------------
(* The books mirror the venue *)

LEMMA LinkedKept == TypeInv /\ Linked /\ [FeedNext]_vars => Linked'
<1>. SUFFICES ASSUME TypeInv, Linked, [FeedNext]_vars PROVE Linked'
  OBVIOUS
<1>1. ASSUME NEW i \in Instruments, VenueLists(i) PROVE Linked'
  BY <1>1 DEF VenueLists, Linked, InSession, driverVars
<1>2. ASSUME NEW i \in Instruments, VenueMoves(i) \/ VenueResends(i) PROVE Linked'
  BY <1>2 DEF VenueMoves, VenueResends, Linked, InSession, driverVars
<1>3. CASE Connect \/ ConnectFails
  BY <1>3 DEF Connect, ConnectFails, Linked, InSession, venueVars
<1>4. CASE \E ok \in BOOLEAN : SessionEnds(ok)
  BY <1>4 DEF SessionEnds, Linked
<1>5. CASE Waits
  BY <1>5, WaitsMoves DEF Linked, venueVars
<1>6. CASE VenueTalks \/ Read \/ Drain \/ Shutdown \/ Elapse \/ UNCHANGED vars
  BY <1>6 DEF VenueTalks, Read, Drain, Shutdown, Elapse, vars, connVars, venueVars,
              driverVars, Linked, InSession
<1>. QED BY <1>1, <1>2, <1>3, <1>4, <1>5, <1>6 DEF FeedNext, ConnNext, Waits

\* A message of the venue is appended to the trail.
LEMMA TrailGoesOn ==
  ASSUME TypeInv, NEW i \in Instruments, Trail(i), NEW m \in Message,
         wire' = Append(wire, m), local' = local,
         listed'[i] => \A b \in Book : (listed[i] => b = venue[i]) => Heard(i, b, m) = venue'[i]
  PROVE  Trail(i)'
<1>1. wire \in Seq(Message) /\ local[i] \in Book
  BY DEF TypeInv, WireSound, ConnTypeOK
<1>2. PICK h : Run(h, local[i], wire, i) /\ (listed[i] => h[Len(wire)] = venue[i])
  BY DEF Trail
<1>3. PICK g : /\ Run(g, local[i], Append(wire, m), i)
               /\ g[Len(Append(wire, m))] = Heard(i, h[Len(wire)], m)
  BY <1>1, <1>2, RunGoesOn
<1>4. h[Len(wire)] \in Book
  BY <1>1, <1>2 DEF Run
<1>5. listed'[i] => g[Len(wire')] = venue'[i]
  BY <1>2, <1>3, <1>4
<1>6. Run(g, local'[i], wire', i)
  BY <1>3
<1>. QED BY <1>5, <1>6 DEF Trail

\* A new session, or none, starts from nothing that was sent before.
LEMMA TrailStarts ==
  ASSUME NEW i \in Instruments, wire' = <<>>, local'[i] \in Book, ~listed'[i]
  PROVE  Trail(i)'
<1>1. PICK h : Run(h, local'[i], <<>>, i)
  BY RunOfNothing
<1>2. Run(h, local'[i], wire', i)
  BY <1>1
<1>. QED BY <1>2 DEF Trail

LEMMA TrailIsRead ==
  ASSUME TypeInv, NEW i \in Instruments, Trail(i), Read
  PROVE  Trail(i)'
<1>1. wire \in Seq(Message) /\ local[i] \in Book /\ wire # <<>>
  BY DEF TypeInv, WireSound, ConnTypeOK, Read
<1>2. PICK h : Run(h, local[i], wire, i) /\ (listed[i] => h[Len(wire)] = venue[i])
  BY DEF Trail
<1>3. PICK g : /\ Run(g, Heard(i, local[i], Head(wire)), Tail(wire), i)
               /\ g[Len(Tail(wire))] = h[Len(wire)]
  BY <1>1, <1>2, RunIsRead
<1>4. wire' = Tail(wire) /\ local'[i] = Heard(i, local[i], Head(wire)) /\ UNCHANGED <<venue, listed>>
  BY DEF Read, Parsed, venueVars
<1>5. Run(g, local'[i], wire', i) /\ (listed'[i] => g[Len(wire')] = venue'[i])
  BY <1>2, <1>3, <1>4
<1>. QED BY <1>5 DEF Trail

LEMMA TrailSame ==
  ASSUME NEW i \in Instruments, Trail(i), wire' = wire, local' = local, listed'[i] = listed[i],
         listed[i] => venue'[i] = venue[i]
  PROVE  Trail(i)'
<1>1. PICK h : Run(h, local[i], wire, i) /\ (listed[i] => h[Len(wire)] = venue[i])
  BY DEF Trail
<1>2. Run(h, local'[i], wire', i) /\ (listed'[i] => h[Len(wire')] = venue'[i])
  BY <1>1
<1>. QED BY <1>2 DEF Trail

LEMMA TrailsKept == TypeInv /\ Linked /\ Trails /\ [FeedNext]_vars => Trails'
<1>. SUFFICES ASSUME TypeInv, Linked, [FeedNext]_vars, NEW j \in Instruments, Trail(j)
              PROVE  Trail(j)'
  BY DEF Trails
<1>1. /\ venue \in [Instruments -> Book] /\ local \in [Instruments -> Book]
      /\ listed \in [Instruments -> BOOLEAN]
  BY DEF TypeInv, ConnTypeOK
<1>2. ASSUME NEW i \in Instruments, VenueMoves(i) PROVE Trail(j)'
  <2>1. PICK b \in Book \ {venue[i]} :
          /\ venue' = [venue EXCEPT ![i] = b]
          /\ IF listed[i] THEN wire' = Append(wire, Delta(i, venue[i], b)) ELSE wire' = wire
    BY <1>2 DEF VenueMoves
  <2>2. listed' = listed /\ local' = local
    BY <1>2 DEF VenueMoves
  <2>3. CASE ~listed[i]
    BY <1>1, <2>1, <2>2, <2>3, TrailSame
  <2>4. CASE listed[i]
    <3> DEFINE m == Delta(i, venue[i], b)
    <3>1. m \in Message /\ Heard(i, venue[i], m) = b /\ \A d \in Book : j # i => Heard(j, d, m) = d
      BY <1>1, DeltaSent
    <3>2. wire' = Append(wire, m) /\ venue'[j] = IF j = i THEN b ELSE venue[j]
      BY <1>1, <2>1, <2>4
    <3>. HIDE DEF m
    <3>3. listed'[j] => \A d \in Book : (listed[j] => d = venue[j]) => Heard(j, d, m) = venue'[j]
      BY <1>1, <2>2, <2>4, <3>1, <3>2
    <3>. QED BY <2>2, <3>1, <3>2, <3>3, TrailGoesOn
  <2>. QED BY <2>3, <2>4
<1>3. ASSUME NEW i \in Instruments, VenueResends(i) PROVE Trail(j)'
  <2>1. PICK b \in Book : /\ venue' = [venue EXCEPT ![i] = b]
                          /\ wire' = Append(wire, Snapshot(i, b))
    BY <1>3 DEF VenueResends
  <2>2. listed' = listed /\ local' = local
    BY <1>3 DEF VenueResends
  <2> DEFINE m == Snapshot(i, b)
  <2>3. m \in Message /\ \A d \in Book : Heard(j, d, m) = IF j = i THEN b ELSE d
    BY SnapshotMessage
  <2>4. wire' = Append(wire, m) /\ venue'[j] = IF j = i THEN b ELSE venue[j]
    BY <1>1, <2>1
  <2>. HIDE DEF m
  <2>5. listed'[j] => \A d \in Book : (listed[j] => d = venue[j]) => Heard(j, d, m) = venue'[j]
    BY <2>2, <2>3, <2>4
  <2>. QED BY <2>2, <2>3, <2>4, <2>5, TrailGoesOn
<1>4. ASSUME NEW i \in Instruments, VenueLists(i) PROVE Trail(j)'
  <2> DEFINE m == Snapshot(i, venue[i])
  <2>1. /\ wire' = Append(wire, m) /\ local' = local /\ venue' = venue /\ ~listed[i]
        /\ listed'[j] = IF j = i THEN TRUE ELSE listed[j]
    BY <1>1, <1>4 DEF VenueLists
  <2>2. m \in Message /\ \A d \in Book : Heard(j, d, m) = IF j = i THEN venue[i] ELSE d
    BY <1>1, SnapshotMessage
  <2>. HIDE DEF m
  <2>3. listed'[j] => \A d \in Book : (listed[j] => d = venue[j]) => Heard(j, d, m) = venue'[j]
    BY <2>1, <2>2
  <2>. QED BY <2>1, <2>2, <2>3, TrailGoesOn
<1>5. CASE VenueTalks
  <2>1. wire' = Append(wire, Other) /\ local' = local /\ UNCHANGED <<venue, listed>>
    BY <1>5 DEF VenueTalks, venueVars
  <2>2. listed'[j] => \A d \in Book : (listed[j] => d = venue[j]) => Heard(j, d, Other) = venue'[j]
    BY <2>1, OtherMessage
  <2>. QED BY <2>1, <2>2, OtherMessage, TrailGoesOn
<1>6. CASE Connect
  <2>1. wire' = <<>> /\ local'[j] = EmptyBook /\ listed' = listed /\ ~InSession
    BY <1>6 DEF Connect, venueVars, InSession
  <2>2. EmptyBook \in Book /\ ~listed[j]
    BY <2>1 DEF EmptyBook, Book, Linked
  <2>. QED BY <2>1, <2>2, TrailStarts
<1>7. CASE ConnectFails
  <2>1. wire' = <<>> /\ local'[j] \in {local[j], EmptyBook} /\ listed' = listed /\ ~InSession
    BY <1>7 DEF ConnectFails, venueVars, InSession
  <2>2. local'[j] \in Book /\ ~listed[j]
    BY <1>1, <2>1 DEF EmptyBook, Book, Linked
  <2>. QED BY <2>1, <2>2, TrailStarts
<1>8. CASE \E ok \in BOOLEAN : SessionEnds(ok)
  <2>1. wire' = <<>> /\ local' = local /\ ~listed'[j]
    BY <1>8 DEF SessionEnds
  <2>. QED BY <1>1, <2>1, TrailStarts
<1>9. CASE Read
  BY <1>9, TrailIsRead
<1>10. CASE Waits \/ Drain \/ Shutdown \/ Elapse \/ UNCHANGED vars
  <2>1. UNCHANGED <<wire, local, venue, listed>>
    BY <1>10, WaitsMoves DEF Drain, Shutdown, Elapse, vars, connVars, venueVars
  <2>. QED BY <2>1, TrailSame
<1>. QED BY <1>2, <1>3, <1>4, <1>5, <1>6, <1>7, <1>8, <1>9, <1>10 DEF FeedNext, ConnNext, Waits

LEMMA LeastNumber ==
  ASSUME NEW X \in SUBSET Nat, X # {}
  PROVE  \E n \in X : \A m \in X : n <= m
<1> DEFINE Below(n) == 0..n - 1
           Lower == {Below(n) : n \in X}
           Order == StrictSubsetOrdering(Nat)
<1>1. IsWellFoundedOn(Order, FiniteSubsetsOf(Nat))
  BY FS_StrictSubsetOrderingWellFounded
<1>2. \A n \in X : Below(n) \in FiniteSubsetsOf(Nat)
  BY FS_Interval DEF FiniteSubsetsOf
<1>. HIDE DEF Order
<1>3. Lower \subseteq FiniteSubsetsOf(Nat) /\ Lower # {}
  BY <1>2
<1>. HIDE DEF Lower
<1>4. PICK L \in Lower : \A M \in Lower : <<M, L>> \notin Order
  BY <1>1, <1>3, WFMin
<1>5. PICK n \in X : L = Below(n)
  BY <1>4 DEF Lower
<1>6. \A m \in X : n <= m
  <2>. SUFFICES ASSUME NEW m \in X, m < n PROVE FALSE
    OBVIOUS
  <2>1. m \in Below(n) /\ m \notin Below(m) /\ Below(m) \subseteq Below(n) /\ Below(m) \in Lower
    BY DEF Lower
  <2>2. <<Below(m), L>> \in Order
    BY <1>5, <2>1 DEF Order, StrictSubsetOrdering
  <2>. QED BY <1>4, <2>1, <2>2
<1>. QED BY <1>6

\* There is one way to read the socket: by induction over its messages.
LEMMA ReplayedIsRun ==
  ASSUME TypeInv, NEW i \in Instruments, NEW h, Run(h, local[i], wire, i)
  PROVE  Replayed(i) = h[Len(wire)]
<1> DEFINE n == Len(wire)
           Books(f) == [k \in 0..n |-> IF k = 0 THEN local[i] ELSE Heard(i, f[k - 1], wire[k])]
           book == CHOOSE f : f = Books(f)
<1>1. n \in Nat
  BY DEF TypeInv, WireSound
<1>2. h \in [0..n -> Book] /\ h[0] = local[i] /\ \A k \in 1..n : h[k] = Heard(i, h[k - 1], wire[k])
  BY DEF Run
<1>3. Replayed(i) = book[n]
  BY DEF Replayed
<1>. HIDE DEF n
<1>4. h = Books(h)
  BY <1>1, <1>2
<1>5. book = Books(book)
  BY <1>4
<1>. HIDE DEF book
<1>6. book[0] = local[i] /\ \A k \in 1..n : book[k] = Heard(i, book[k - 1], wire[k])
  BY <1>1, <1>5
<1> DEFINE Apart == {k \in 0..n : book[k] # h[k]}
<1>7. ASSUME Apart # {} PROVE FALSE
  <2>1. Apart \in SUBSET Nat
    BY <1>1
  <2>2. PICK k \in Apart : \A l \in Apart : k <= l
    <3>. HIDE DEF Apart
    <3>. QED BY <1>7, <2>1, LeastNumber
  <2>3. k \in 1..n /\ k - 1 \in 0..n /\ k - 1 \notin Apart
    BY <1>1, <1>2, <1>6, <2>2
  <2>4. book[k - 1] = h[k - 1]
    BY <2>3
  <2>. QED BY <1>2, <1>6, <2>2, <2>3, <2>4
<1>8. book[n] = h[n]
  BY <1>1, <1>7
<1>. QED BY <1>3, <1>8 DEF n

LEMMA InitMirrors == FeedInit => Linked /\ Trails
<1>. SUFFICES ASSUME FeedInit, NEW i \in Instruments PROVE Linked /\ Trail(i)
  BY DEF Trails, Linked, FeedInit, ConnInit
<1>1. wire = <<>> /\ local[i] = EmptyBook /\ ~listed[i] /\ EmptyBook \in Book
  BY DEF FeedInit, ConnInit, EmptyBook, Book
<1>2. PICK h : Run(h, local[i], <<>>, i)
  BY <1>1, RunOfNothing
<1>3. Run(h, local[i], wire, i)
  BY <1>1, <1>2
<1>. QED BY <1>1, <1>3 DEF Linked, Trail, FeedInit, ConnInit

\* A subscribed instrument's book is the venue's as soon as what is on the
\* socket has been read, through reconnects, new snapshots and subscriptions
\* that take effect late (common.rs:137-139, book.rs:22-26).
THEOREM Mirrors == FeedSpec => []MirrorsVenue
<1> DEFINE MirrorInv == TypeInv /\ Linked /\ Trails
<1>1. FeedInit => MirrorInv
  BY InitTypes, InitMirrors
<1>2. MirrorInv /\ [FeedNext]_vars => MirrorInv'
  BY TypesKept, LinkedKept, TrailsKept
<1>3. MirrorInv => MirrorsVenue
  BY ReplayedIsRun DEF MirrorsVenue, Trails, Trail
<1>. QED BY <1>1, <1>2, <1>3, PTL DEF FeedSpec

-----------------------------------------------------------------------------
(* Nothing is dropped *)

LEMMA UnderwayKept == TypeInv /\ Underway /\ [FeedNext]_vars => Underway'
<1>. SUFFICES ASSUME TypeInv, [FeedNext]_vars, NEW i \in Instruments, OnItsWay(i)
              PROVE  OnItsWay(i)'
  BY DEF Underway
<1>. SUFFICES ASSUME ~closed', TwoSided(local'[i])
              PROVE  \/ Newest(queue', i, local'[i])
                     \/ /\ Silent(queue', i) /\ books'[Venue][i] # None
                        /\ books'[Venue][i].book = local'[i]
  BY DEF OnItsWay
<1>0. queue \in Seq(Update) /\ Len(queue) \in Nat
  BY DEF TypeInv, QueueSound
<1>1. CASE Read
  <2> DEFINE m == Head(wire)
  <2>1. /\ local' = Parsed(m) /\ books' = books /\ ~closed /\ m \in Message
        /\ \/ queue' = queue /\ Updates(m) = <<>>
           \/ \E u \in Update : queue' = Append(queue, u) /\ Updates(m) = <<u>>
    BY <1>1, ReadAppends DEF Read, marketVars
  <2>. HIDE DEF m
  <2>2. local'[i] = Heard(i, local[i], m)
    BY <2>1 DEF Parsed
  <2>3. CASE m.kind # "other" /\ m.inst = i
    <3> DEFINE u == [kind |-> "book", inst |-> i, book |-> local'[i], age |-> 0]
    <3>1. Updates(m) = <<u>>
      BY <2>2, <2>3 DEF Heard, Updates
    <3>2. queue' = Append(queue, u) /\ u \in Update
      BY <2>1, <3>1
    <3>3. IsBook(u, i) /\ u.book = local'[i]
      BY DEF IsBook
    <3>. HIDE DEF u
    <3>4. Newest(queue', i, local'[i])
      BY <1>0, <3>2, <3>3, AppendOf DEF Newest
    <3>. QED BY <3>4
  <2>4. CASE ~(m.kind # "other" /\ m.inst = i)
    <3>1. local'[i] = local[i]
      BY <2>2, <2>4 DEF Heard
    <3>2. CASE queue' = queue
      BY <2>1, <3>1, <3>2 DEF OnItsWay
    <3>3. ASSUME NEW u \in Update, queue' = Append(queue, u), Updates(m) = <<u>>
          PROVE  \/ Newest(queue', i, local[i])
                 \/ Silent(queue', i) /\ books[Venue][i] # None /\ books[Venue][i].book = local[i]
      <4>1. ~IsBook(u, i)
        BY <2>4, <3>3 DEF Updates, IsBook
      <4>2. ASSUME Newest(queue, i, local[i]) PROVE Newest(queue', i, local[i])
        BY <1>0, <3>3, <4>1, <4>2, AppendOf DEF Newest
      <4>3. ASSUME Silent(queue, i) PROVE Silent(queue', i)
        BY <1>0, <3>3, <4>1, <4>3, AppendOf DEF Silent
      <4>. QED BY <2>1, <3>1, <4>2, <4>3 DEF OnItsWay
    <3>. QED BY <2>1, <3>1, <3>2, <3>3
  <2>. QED BY <2>3, <2>4
<1>2. CASE Drain
  <2>1. /\ Len(queue') = Len(queue) - 1 /\ Len(queue) \in Nat \ {0}
        /\ \A k \in 1..Len(queue) - 1 : queue'[k] = queue[k + 1]
        /\ books'[Venue][i] = IF IsBook(queue[1], i)
                              THEN [book |-> queue[1].book, age |-> queue[1].age]
                              ELSE books[Venue][i]
        /\ books' \in [Exchanges -> [Listed -> Quote \cup {None}]]
    BY <1>2, DrainApplies, FeedAssumption
  <2>2. local' = local /\ ~closed
    BY <1>2 DEF Drain, connVars, driverVars
  <2>3. CASE Silent(queue, i)
    <3>1. ~IsBook(queue[1], i) /\ Silent(queue', i)
      BY <2>1, <2>3 DEF Silent
    <3>2. ~Newest(queue, i, local[i])
      BY <2>3 DEF Silent, Newest
    <3>. QED BY <2>1, <2>2, <3>1, <3>2 DEF OnItsWay
  <2>4. CASE Newest(queue, i, local[i])
    <3>1. PICK k \in 1..Len(queue) : /\ IsBook(queue[k], i) /\ queue[k].book = local[i]
                                     /\ \A j \in k + 1..Len(queue) : ~IsBook(queue[j], i)
      BY <2>4 DEF Newest
    <3>2. CASE k = 1
      <4>1. Silent(queue', i)
        BY <2>1, <3>1, <3>2 DEF Silent
      <4>2. [book |-> queue[1].book, age |-> queue[1].age] \in Quote
        BY <1>0, <2>1, <3>1, <3>2 DEF Update, BookUpdate, Quote, IsBook
      <4>3. None \notin Quote
        BY FreshnessAssumption DEF Quote, Ages
      <4>. QED BY <2>1, <2>2, <3>1, <3>2, <4>1, <4>2, <4>3
    <3>3. CASE k # 1
      <4>1. k - 1 \in 1..Len(queue') /\ queue'[k - 1] = queue[k]
        BY <2>1, <3>3
      <4>2. \A j \in k..Len(queue') : ~IsBook(queue'[j], i)
        BY <2>1, <3>1, <3>3
      <4>3. Newest(queue', i, local[i])
        BY <3>1, <4>1, <4>2 DEF Newest
      <4>. QED BY <2>2, <4>3
    <3>. QED BY <3>2, <3>3
  <2>. QED BY <2>2, <2>3, <2>4 DEF OnItsWay
<1>3. CASE Elapse
  <2>1. local' = local /\ closed' = closed
    BY <1>3 DEF Elapse
  <2>2. Len(queue') = Len(queue) /\ \A k \in 1..Len(queue) :
          /\ \A j : IsBook(queue'[k], j) = IsBook(queue[k], j)
          /\ queue[k].kind = "book" => queue'[k].book = queue[k].book
    <3>1. /\ Len(queue') = Len(queue)
          /\ \A k \in 1..Len(queue) : queue'[k] = [queue[k] EXCEPT !.age = Older(@)]
      BY <1>3, ElapseAges
    <3>2. \A k \in 1..Len(queue) : queue[k] \in Update
      BY <1>0
    <3>3. ASSUME NEW k \in 1..Len(queue)
          PROVE  /\ \A j : IsBook(queue'[k], j) = IsBook(queue[k], j)
                 /\ queue[k].kind = "book" => queue'[k].book = queue[k].book
      BY <3>1, <3>2, UpdateAges
    <3>. QED BY <3>1, <3>3
  <2>3. ASSUME Newest(queue, i, local[i]) PROVE Newest(queue', i, local[i])
    <3>1. PICK k \in 1..Len(queue) : /\ IsBook(queue[k], i) /\ queue[k].book = local[i]
                                     /\ \A j \in k + 1..Len(queue) : ~IsBook(queue[j], i)
      BY <2>3 DEF Newest
    <3>2. IsBook(queue'[k], i) /\ queue'[k].book = local[i]
      BY <2>2, <3>1 DEF IsBook
    <3>3. \A j \in k + 1..Len(queue) : ~IsBook(queue'[j], i)
      BY <1>0, <2>2, <3>1
    <3>. QED BY <2>2, <3>2, <3>3 DEF Newest
  <2>4. ASSUME Silent(queue, i) PROVE Silent(queue', i)
    BY <2>2, <2>4 DEF Silent
  <2>5. ASSUME books[Venue][i] # None
        PROVE  books'[Venue][i] # None /\ books'[Venue][i].book = books[Venue][i].book
    <3>1. books'[Venue][i] = [books[Venue][i] EXCEPT !.age = Older(@)]
      BY <1>3, <2>5, FeedAssumption DEF Elapse, MarketAges
    <3>2. books[Venue][i] \in Quote
      BY <2>5, FeedAssumption DEF TypeInv, MarketTypeOK, Quote
    <3>3. \A q \in Quote : /\ [q EXCEPT !.age = Older(@)] \in Quote
                           /\ [q EXCEPT !.age = Older(@)].book = q.book
      BY AgesGrow DEF Quote
    <3>4. None \notin Quote
      BY FreshnessAssumption DEF Quote, Ages
    <3>. QED BY <3>1, <3>2, <3>3, <3>4
  <2>. QED BY <2>1, <2>3, <2>4, <2>5 DEF OnItsWay
<1>4. CASE Connect
  BY <1>4 DEF Connect, TwoSided, EmptyBook
<1>5. CASE Shutdown
  BY <1>5 DEF Shutdown
<1>6. CASE UNCHANGED <<local, marketVars, queue, closed>>
  BY <1>6 DEF marketVars, OnItsWay
<1>7. CASE /\ Beside
           /\ \/ \E j \in Instruments : VenueMoves(j) \/ VenueResends(j) \/ VenueLists(j)
              \/ VenueTalks \/ Waits \/ \E ok \in BOOLEAN : SessionEnds(ok)
  <2>1. UNCHANGED <<local, closed>>
    BY <1>7, WaitsMoves DEF VenueMoves, VenueResends, VenueLists, VenueTalks, SessionEnds, driverVars
  <2>. QED BY <1>6, <1>7, <2>1 DEF Beside
<1>8. CASE UNCHANGED vars
  BY <1>6, <1>8 DEF vars, connVars, driverVars
<1>9. CASE ConnectFails /\ Beside
  <2>1. local'[i] \in {local[i], EmptyBook} /\ closed' = closed
    BY <1>9 DEF ConnectFails
  <2>2. local'[i] = local[i] /\ ~TwoSided(EmptyBook)
    BY <2>1 DEF TwoSided, EmptyBook
  <2>. QED BY <1>9, <2>1, <2>2 DEF Beside, marketVars, OnItsWay
<1>. QED BY <1>1, <1>2, <1>3, <1>4, <1>5, <1>7, <1>8, <1>9 DEF FeedNext, ConnNext, Waits

\* Backpressure loses nothing: whatever the capacity of the channel, once it is
\* empty the market state holds the connector's latest two-sided book
\* (common.rs:253-257, main.rs:248-255).
THEOREM NoneDropped == FeedSpec => []NothingDropped
<1>1. FeedInit => Underway
  BY DEF FeedInit, ConnInit, Underway, OnItsWay, TwoSided, EmptyBook
<1>2. TypeInv /\ Underway => NothingDropped
  BY DEF Underway, OnItsWay, Newest, NothingDropped
<1>. QED BY InitTypes, TypesKept, UnderwayKept, <1>1, <1>2, PTL DEF FeedSpec
=============================================================================
