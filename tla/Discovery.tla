------------------------------- MODULE Discovery -------------------------------
(***************************************************************************)
(* Which coins are screened where: the catalog of listings                 *)
(* (crates/universe/src/lib.rs), the poller that keeps it                  *)
(* (poller.rs, fetchers.rs), and the subscriptions and contract sizes the  *)
(* server fixes at startup (bin/server/src/main.rs,                        *)
(* crates/connectors/src/common.rs).                                       *)
(*                                                                         *)
(* The startup refresh and the poller are never active together, so there  *)
(* is one writer.  The readers (the catalog requests) look at the maps at  *)
(* any moment, so a visit to an entry is a step.                           *)
(***************************************************************************)
EXTENDS Integers, Sequences, FiniteSets, SequencesExt

CONSTANTS
  Enabled,          \* ingest.exchanges as parsed, in their order
  InContracts,      \* the venues whose books count contracts
  Bases,            \* numbers, in alphabetical order
  Sizes,            \* contract multipliers a venue may publish
  Garbage,          \* a multiplier that is absent, unreadable or not positive
  Offers,           \* what the venues may list at startup: venue -> base -> multiplier
  SettingsValues,   \* the [ingest] section
  MaxChanges,       \* bound: listings and delistings
  None

Venues == Range(Enabled)

\* No anchor: unset, unknown or not enabled.
IngestCfg ==
  [auto_discover : BOOLEAN, anchor : Venues \cup {None}, min_venues : Nat, max_symbols : Nat,
   symbols : SUBSET Bases, always_screen : SUBSET Bases]

\* What a venue lists, with its multipliers.
Answer == UNION {[listed -> Sizes \cup {1}] : listed \in SUBSET Bases}

ASSUME DiscoveryAssumption ==
  /\ Enabled \in Seq(Venues) /\ Enabled # <<>> /\ IsInjective(Enabled)
  /\ Bases \subseteq Nat /\ IsFiniteSet(Bases) /\ Sizes \subseteq Nat \ {0}
  /\ Garbage \notin Sizes /\ None \notin Sizes \cup {Garbage}
  /\ \A listing \in (SUBSET Venues) \cup Answer : listing # None
  /\ SettingsValues \subseteq IngestCfg
  /\ Offers \subseteq [Venues -> [Bases -> Sizes \cup {Garbage, None}]]
  /\ MaxChanges \in Nat

VARIABLES
  offer,      \* what each venue lists as trading, at which multiplier
  changes,    \* how often an offer changed
  listings,   \* UniverseStore.listings; None where there is no entry
  sizes,      \* UniverseStore.sizes, by venue
  left,       \* venues the refresh has not finished with
  phase,      \* where the refresh is, and in between where the poller is
  todo,       \* entries the running loop has not visited
  answer,     \* the listings set_exchange is putting in
  answered,   \* history: the last listings a venue answered with
  server,     \* "starting", "running", "stopping"
  settings,
  subs,       \* symbols_by_exchange
  multiplier  \* SymbolCtx.contract_sizes of each connector

storeVars == <<listings, sizes>>
refreshVars == <<left, phase, todo, answer, answered>>
bootVars == <<settings, subs, multiplier>>
discVars == <<offer, changes, storeVars, refreshVars, server, bootVars>>

Nothing == [b \in {} |-> 1]

DiscTypeOK ==
  /\ offer \in [Venues -> [Bases -> Sizes \cup {Garbage, None}]] /\ changes \in 0..MaxChanges
  /\ listings \in [Bases -> (SUBSET Venues) \cup {None}]
  /\ sizes \in [Venues -> Answer]
  /\ left \in Seq(Venues)
  /\ phase \in {"fetch", "remove", "insert", "building", "idle", "stopped"}
  /\ todo \subseteq Bases /\ answer \in Answer
  /\ answered \in [Venues -> Answer \cup {None}]
  /\ server \in {"starting", "running", "stopping"}
  /\ settings \in SettingsValues
  /\ DOMAIN subs = Venues /\ multiplier \in [Venues -> Answer]

DiscInit ==
  /\ offer \in Offers /\ changes = 0
  /\ listings = [b \in Bases |-> None] /\ sizes = [v \in Venues |-> Nothing]
  /\ left = Enabled /\ phase = "fetch" /\ todo = {} /\ answer = Nothing
  /\ answered = [v \in Venues |-> None]
  /\ server = "starting"
  /\ settings \in SettingsValues
  /\ subs = [v \in Venues |-> {}] /\ multiplier = [v \in Venues |-> Nothing]

-----------------------------------------------------------------------------
(* Fetchers *)

\* An unusable multiplier is one.
contract_size(v, b) == IF offer[v][b] = Garbage THEN 1 ELSE offer[v][b]

\* The USDT perpetuals that trade, from all pages of the list.
Traded(v) == {b \in Bases : offer[v][b] # None}

\* Venues that count coins publish no multiplier.
Fetched(v) == [b \in Traded(v) |-> IF v \in InContracts THEN contract_size(v, b) ELSE 1]

\* Mutant: the error ends the poller.
FetchFailsForGood ==
  /\ phase = "fetch" /\ left # <<>>
  /\ left' = <<>> /\ phase' = (IF server = "starting" THEN "fetch" ELSE "stopped")
  /\ UNCHANGED <<offer, changes, storeVars, todo, answer, answered, server, bootVars>>

\* Time-outs, refused connections, bodies that are not JSON.
FetchFails ==
  /\ phase = "fetch" /\ left # <<>>
  /\ left' = Tail(left)
  /\ UNCHANGED <<offer, changes, storeVars, phase, todo, answer, answered, server, bootVars>>

StartSet(got) ==
  /\ phase = "fetch" /\ left # <<>>
  /\ phase' = "remove" /\ answer' = got
  /\ todo' = {b \in Bases : listings[b] # None}
  /\ UNCHANGED <<offer, changes, storeVars, left, answered, server, bootVars>>

FetchAnswers == phase = "fetch" /\ left # <<>> /\ StartSet(Fetched(Head(left)))

\* A venue's error message in JSON has no list in it and reads as an empty one.
FetchAnswersError == StartSet(Nothing)

-----------------------------------------------------------------------------
(* set_exchange of the first venue that is left *)

Refreshed == Head(left)

\* Mutant: the venue stays in the entries it is no longer listed under.
UnlistNothing ==
  /\ phase = "remove" /\ todo # {}
  /\ todo' = {}
  /\ UNCHANGED <<offer, changes, storeVars, left, phase, answer, answered, server, bootVars>>

Unlist ==
  /\ phase = "remove"
  /\ \E b \in todo :
       /\ listings' = [listings EXCEPT ![b] = @ \ {Refreshed}]
       /\ todo' = todo \ {b}
  /\ UNCHANGED <<offer, changes, sizes, left, phase, answer, answered, server, bootVars>>

Forget ==
  /\ phase = "remove" /\ todo = {}
  /\ sizes' = [sizes EXCEPT ![Refreshed] = Nothing]
  /\ phase' = "insert" /\ todo' = DOMAIN answer
  /\ UNCHANGED <<offer, changes, listings, left, answer, answered, server, bootVars>>

Insert ==
  /\ phase = "insert"
  /\ \E b \in todo :
       /\ listings' = [listings EXCEPT ![b] = (IF @ = None THEN {} ELSE @) \cup {Refreshed}]
       /\ sizes' = [sizes EXCEPT ![Refreshed] =
                      [c \in DOMAIN @ \cup {b} |-> IF c = b THEN answer[b] ELSE @[c]]]
       /\ todo' = todo \ {b}
  /\ UNCHANGED <<offer, changes, left, phase, answer, answered, server, bootVars>>

Prune ==
  /\ phase = "insert" /\ todo = {}
  /\ listings' = [b \in Bases |-> IF listings[b] = {} THEN None ELSE listings[b]]
  /\ answered' = [answered EXCEPT ![Refreshed] = answer]
  /\ phase' = "fetch" /\ left' = Tail(left) /\ answer' = Nothing
  /\ UNCHANGED <<offer, changes, sizes, todo, server, bootVars>>

-----------------------------------------------------------------------------
(* Readers of the catalog *)

catalog == [b \in {b \in Bases : listings[b] # None} |-> listings[b]]

\* Most covered first, then by name.
Before(a, b) ==
  LET covered(c) == Cardinality(catalog[c])
  IN covered(a) > covered(b) \/ (covered(a) = covered(b) /\ a < b)

Ranked(bases) ==
  CHOOSE r \in [1..Cardinality(bases) -> bases] :
    \A j \in DOMAIN r : \A i \in 1..(j - 1) : Before(r[i], r[j])

screenable(min) == Ranked({b \in DOMAIN catalog : Cardinality(catalog[b]) >= min})

screenable_anchored(anchor, min) ==
  Ranked({b \in DOMAIN catalog : /\ anchor \in catalog[b]
                                 /\ Cardinality(catalog[b]) >= IF min < 2 THEN 2 ELSE min})

-----------------------------------------------------------------------------
(* Startup *)

\* An anchor that yields nothing is ignored.
discovered_bases ==
  LET anchored == IF settings.anchor # None
                  THEN screenable_anchored(settings.anchor, settings.min_venues) ELSE <<>>
  IN IF anchored # <<>> THEN anchored ELSE screenable(settings.min_venues)

ScreenedBases ==
  LET discovered == discovered_bases
      kept == IF Len(discovered) <= settings.max_symbols THEN discovered
              ELSE SubSeq(discovered, 1, settings.max_symbols)
  IN settings.always_screen \cup
     (IF settings.auto_discover /\ DOMAIN catalog # {} THEN Range(kept) ELSE settings.symbols)

\* Mutant: a coin is subscribed everywhere.
build_symbol_map_everywhere == [v \in Venues |-> ScreenedBases]

\* A coin goes to the venues that list it; one nobody is known to list, to all.
build_symbol_map ==
  [v \in Venues |-> {b \in ScreenedBases : b \in DOMAIN catalog => v \in catalog[b]}]

Boot ==
  /\ phase = "fetch" /\ left = <<>> /\ server = "starting"
  /\ subs' = build_symbol_map
  /\ multiplier' = sizes
  /\ server' = "running" /\ phase' = "building"
  /\ UNCHANGED <<offer, changes, storeVars, left, todo, answer, answered, settings>>

\* What a connector multiplies the quantities of a book with.
ContractSize(v, b) == IF b \in DOMAIN multiplier[v] THEN multiplier[v][b] ELSE 1

-----------------------------------------------------------------------------
(* run_poller: a refresh under way is finished before the shutdown is seen *)

\* The poller builds an HTTP client of its own ...
PollerStarts ==
  /\ phase = "building" /\ phase' = "idle"
  /\ UNCHANGED <<offer, changes, storeVars, left, todo, answer, answered, server, bootVars>>

\* ... and without one it is over, while the server goes on with what it knows.
PollerDisabled ==
  /\ phase = "building" /\ phase' = "stopped"
  /\ UNCHANGED <<offer, changes, storeVars, left, todo, answer, answered, server, bootVars>>

BeginRefresh ==
  /\ phase = "idle"
  /\ left' = Enabled /\ phase' = "fetch"
  /\ UNCHANGED <<offer, changes, storeVars, todo, answer, answered, server, bootVars>>

EndRefresh ==
  /\ phase = "fetch" /\ left = <<>> /\ server # "starting"
  /\ phase' = "idle"
  /\ UNCHANGED <<offer, changes, storeVars, left, todo, answer, answered, server, bootVars>>

PollerStops ==
  /\ phase = "idle" /\ server = "stopping"
  /\ phase' = "stopped"
  /\ UNCHANGED <<offer, changes, storeVars, left, todo, answer, answered, server, bootVars>>

Shutdown ==
  /\ server = "running" /\ server' = "stopping"
  /\ UNCHANGED <<offer, changes, storeVars, refreshVars, bootVars>>

\* A venue lists, delists or changes a coin.
OfferChanges ==
  /\ changes < MaxChanges /\ changes' = changes + 1
  /\ \E v \in Venues, b \in Bases, m \in Sizes \cup {None} : m # offer[v][b] /\ offer' = [offer EXCEPT ![v][b] = m]
  /\ UNCHANGED <<storeVars, refreshVars, server, bootVars>>

SetExchange == Unlist \/ Forget \/ Insert \/ Prune

Fetch == FetchFails \/ FetchAnswers \/ FetchAnswersError

DiscNext ==
  \/ Fetch \/ SetExchange
  \/ Boot \/ PollerStarts \/ PollerDisabled \/ BeginRefresh \/ EndRefresh \/ PollerStops
  \/ Shutdown \/ OfferChanges

\* The task goes on as long as it has something to do: a request ends by its
\* time-out.  A venue that is asked again and again gives a proper answer again and
\* again.
DiscSpec ==
  /\ DiscInit /\ [][DiscNext]_discVars
  /\ WF_discVars(\/ Fetch \/ SetExchange \/ Boot \/ PollerStarts \/ PollerDisabled
                 \/ BeginRefresh \/ EndRefresh)
  /\ SF_discVars(PollerStops)
  /\ \A v \in Venues : SF_discVars(FetchAnswers /\ Refreshed = v)

-----------------------------------------------------------------------------
(* What discovery promises *)

ListedBy(v) == {b \in DOMAIN catalog : v \in catalog[b]}

LastAnswer(v) == IF answered[v] = None THEN Nothing ELSE answered[v]

Busy(v) == phase \in {"remove", "insert"} /\ v = Refreshed

\* The catalog shows of every venue exactly what it last answered, with the
\* sizes of that answer, and keeps it when a fetch fails.  Only the venue being
\* replaced may be seen with less, never with what neither its last answer nor
\* the new one lists; and no coin is kept that nobody lists
\* (set_exchange and refresh_once, universe/src/lib.rs:36-54, poller.rs:19-31).
CatalogIsLastAnswer ==
  /\ \A v \in Venues :
       IF Busy(v)
       THEN ListedBy(v) \subseteq DOMAIN LastAnswer(v) \cup DOMAIN answer
       ELSE ListedBy(v) = DOMAIN LastAnswer(v) /\ sizes[v] = LastAnswer(v)
  /\ (\E v \in Venues : Busy(v)) \/ \A b \in DOMAIN catalog : catalog[b] # {}

\* Whatever part of the startup discovery failed: a venue is subscribed to a coin
\* only if its answer lists it, and its books are scaled by the multiplier of
\* that answer, or else nobody was known to list it, everybody is subscribed and
\* nothing is scaled; a coin found by discovery can pair on as many venues as
\* asked for, and no more of them are taken than allowed
\* (main.rs:34-122, 214-226; common.rs:34-60).
SubscriptionsAreListed ==
  [][Boot =>
       /\ \A v \in Venues : \A b \in subs'[v] :
            IF b \in DOMAIN LastAnswer(v)
            THEN ContractSize(v, b)' = LastAnswer(v)[b]
            ELSE /\ \A w \in Venues : b \notin DOMAIN LastAnswer(w) /\ b \in subs'[w]
                 /\ ContractSize(v, b)' = 1
       /\ settings.auto_discover /\ DOMAIN catalog # {} =>
            LET found == {b \in UNION Range(subs') : b \notin settings.always_screen}
            IN /\ Cardinality(found) <= settings.max_symbols
               /\ \A b \in found :
                    Cardinality({v \in Venues : b \in subs'[v]}) >= settings.min_venues]_discVars

Polling == server = "running" /\ phase \notin {"building", "stopped"}

\* Once the poller has its HTTP client, the catalog keeps catching up with what a
\* venue lists for as long as the server runs, whatever fetches fail in between:
\* no error ends the poller any more.  It ends with the server (run_poller,
\* poller.rs:42-63).
CatalogCatchesUp ==
  /\ \A v \in Venues :
       Polling ~> \/ server = "stopping"
                  \/ ListedBy(v) = DOMAIN Fetched(v) /\ sizes[v] = Fetched(v)
  /\ server = "stopping" ~> phase = "stopped"
=============================================================================
