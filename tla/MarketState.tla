----------------------------- MODULE MarketState -----------------------------
(***************************************************************************)
(* The in-memory market state (crates/market_state/src/lib.rs): the latest *)
(* book per venue and instrument, when each venue was last heard of, and   *)
(* the freshness a snapshot attaches to a quote.  Funding and ticker data  *)
(* count only as signs of life.  Instants are ages; see ScreenerEngine.    *)
(***************************************************************************)
EXTENDS Books

CONSTANTS
  Exchanges, Listed,      \* venues and their instruments
  Staleness, QuietMax,    \* ingest.staleness_ms, ingest.quiet_book_max_ms
  AgeCap,                 \* bound of the model
  None

\* with_params takes the larger of the two limits for the quiet one.
ASSUME FreshnessAssumption ==
  /\ Staleness \in Nat /\ QuietMax \in Nat /\ QuietMax >= Staleness
  /\ AgeCap \in Nat /\ AgeCap > QuietMax
  /\ None \notin Nat /\ None \notin [book : Book, age : 0..AgeCap]

VARIABLES
  books,     \* DashMap<(ExchangeId, Instrument), TopBook>; age is that of recv_ts
  lastMsg    \* DashMap<ExchangeId, Instant>, as ages

marketVars == <<books, lastMsg>>

Ages == 0..AgeCap
Older(age) == IF age = None \/ age = AgeCap THEN age ELSE age + 1

MarketTypeOK ==
  /\ books \in [Exchanges -> [Listed -> [book : Book, age : Ages] \cup {None}]]
  /\ lastMsg \in [Exchanges -> Ages \cup {None}]

MarketInit == /\ books = [x \in Exchanges |-> [i \in Listed |-> None]]
              /\ lastMsg = [x \in Exchanges |-> None]

\* apply: any update shows that the venue is alive.
Apply(x, u) ==
  /\ lastMsg' = [lastMsg EXCEPT ![x] = 0]
  /\ books' = IF u.kind = "book"
              THEN [books EXCEPT ![x][u.inst] = [book |-> u.book, age |-> u.age]]
              ELSE books

MarketAges ==
  /\ books' = [x \in Exchanges |-> [i \in Listed |->
                 IF books[x][i] = None THEN None ELSE [books[x][i] EXCEPT !.age = Older(@)]]]
  /\ lastMsg' = [x \in Exchanges |-> Older(lastMsg[x])]

-----------------------------------------------------------------------------
(* snapshot *)

Alive(x) == lastMsg[x] # None /\ lastMsg[x] <= Staleness

\* Mutant: a book of a silent venue never goes stale.
StaleWhenQuiet(x, i) == Alive(x) /\ books[x][i].age > QuietMax

\* Mutant: a book of a live venue never goes stale.
StaleWhenSilent(x, i) == ~Alive(x) /\ books[x][i].age > Staleness

Stale(x, i) == books[x][i].age > (IF Alive(x) THEN QuietMax ELSE Staleness)

\* is_usable of the quote, for a book that exists.
Usable(x, i) == books[x][i] # None /\ ~Stale(x, i) /\ IsValid(books[x][i].book)
=============================================================================
