---------------------------- MODULE DiscoveryProofs ----------------------------
(***************************************************************************)
(* Proofs about the catalog of listings and the subscriptions fixed at     *)
(* startup (Discovery), for any venues, coins, offers and settings.        *)
(***************************************************************************)
EXTENDS Discovery, TLAPS, WellFoundedInduction, FiniteSetTheorems

-----------------------------------------------------------------------------
(* The inductive invariant *)

Lists(v) == {b \in Bases : listings[b] # None /\ v \in listings[b]}

Replacing == phase \in {"remove", "insert"}

VenueInHand == Replacing => left # <<>>

\* A venue that is not being replaced is shown as it last answered.
Settled(v) == Lists(v) = DOMAIN LastAnswer(v) /\ sizes[v] = LastAnswer(v)
OthersSettled == \A v \in Venues : Busy(v) \/ Settled(v)

\* Entries already visited no longer list the venue.
Removing ==
  phase = "remove" =>
    /\ \A b \in todo : listings[b] # None
    /\ Lists(Refreshed) \subseteq todo \cap DOMAIN LastAnswer(Refreshed)

\* The part of the answer already put in.
Inserting ==
  phase = "insert" =>
    /\ todo \subseteq DOMAIN answer
    /\ Lists(Refreshed) = DOMAIN answer \ todo
    /\ sizes[Refreshed] = [b \in DOMAIN answer \ todo |-> answer[b]]

Pruned == Replacing \/ \A b \in Bases : listings[b] # {}

CatalogInv == DiscTypeOK /\ VenueInHand /\ OthersSettled /\ Removing /\ Inserting /\ Pruned

-----------------------------------------------------------------------------
(* Answers *)

LEMMA AnswerIs ==
  ASSUME NEW listed \in SUBSET Bases, NEW f \in [listed -> Sizes \cup {1}]
  PROVE  f \in Answer
  BY DEF Answer

LEMMA AnswerHas ==
  ASSUME NEW f \in Answer
  PROVE  /\ DOMAIN f \subseteq Bases /\ \A b \in DOMAIN f : f[b] \in Sizes \cup {1}
         /\ f = [b \in DOMAIN f |-> f[b]]
  BY DEF Answer

LEMMA NothingIs == Nothing \in Answer /\ DOMAIN Nothing = {}
<1>1. Nothing \in [{} -> Sizes \cup {1}]
  BY DEF Nothing
<1>. QED BY <1>1, AnswerIs

LEMMA NoneIsNone ==
  /\ \A V \in SUBSET Venues : V # None
  /\ \A f \in Answer : f # None
  BY DiscoveryAssumption

LEMMA FetchedIs ==
  ASSUME DiscTypeOK, NEW v \in Venues
  PROVE  Fetched(v) \in Answer
<1>1. Traded(v) \in SUBSET Bases
  BY DEF Traded
<1>2. \A b \in Traded(v) : contract_size(v, b) \in Sizes \cup {1}
  BY DiscoveryAssumption DEF DiscTypeOK, Traded, contract_size
<1>3. Fetched(v) \in [Traded(v) -> Sizes \cup {1}]
  BY <1>2 DEF Fetched
<1>. QED BY <1>1, <1>3, AnswerIs

LEMMA LastAnswerIs ==
  ASSUME DiscTypeOK, NEW v \in Venues
  PROVE  LastAnswer(v) \in Answer
  BY NothingIs DEF DiscTypeOK, LastAnswer

-----------------------------------------------------------------------------
(* Types *)

LEMMA TailOf ==
  ASSUME NEW S, NEW q \in Seq(S), q # <<>>
  PROVE  Head(q) \in S /\ Tail(q) \in Seq(S)
  OBVIOUS

LEMMA InHand ==
  ASSUME DiscTypeOK, left # <<>>
  PROVE  Refreshed \in Venues /\ Tail(left) \in Seq(Venues)
  BY TailOf DEF DiscTypeOK, Refreshed

LEMMA InsertedIs ==
  ASSUME DiscTypeOK, Inserting, phase = "insert", NEW v \in Venues, NEW b \in todo
  PROVE  [c \in DOMAIN sizes[v] \cup {b} |-> IF c = b THEN answer[b] ELSE sizes[v][c]] \in Answer
<1>1. sizes[v] \in Answer /\ answer \in Answer /\ b \in DOMAIN answer /\ b \in Bases
  BY DEF DiscTypeOK, Inserting
<1> DEFINE d == DOMAIN sizes[v] \cup {b}
           f == [c \in d |-> IF c = b THEN answer[b] ELSE sizes[v][c]]
<1>2. d \in SUBSET Bases
  BY <1>1, AnswerHas
<1>3. \A c \in d : (IF c = b THEN answer[b] ELSE sizes[v][c]) \in Sizes \cup {1}
  BY <1>1, AnswerHas
<1>. HIDE DEF d
<1>4. f \in [d -> Sizes \cup {1}]
  BY <1>3
<1>5. f \in Answer
  BY <1>2, <1>4, AnswerIs
<1>. QED BY <1>5 DEF d

LEMMA InitTypes == DiscInit => DiscTypeOK
<1>1. Enabled \in Seq(Venues) /\ 0 \in 0..MaxChanges
  BY DiscoveryAssumption
<1>. SUFFICES ASSUME DiscInit PROVE DiscTypeOK
  OBVIOUS
<1>2. offer \in [Venues -> [Bases -> Sizes \cup {Garbage, None}]] /\ settings \in SettingsValues
  BY DiscoveryAssumption DEF DiscInit
<1>3. /\ sizes \in [Venues -> Answer] /\ multiplier \in [Venues -> Answer] /\ answer \in Answer
      /\ answered \in [Venues -> Answer \cup {None}]
      /\ listings \in [Bases -> (SUBSET Venues) \cup {None}]
  BY NothingIs DEF DiscInit
<1>. QED BY <1>1, <1>2, <1>3 DEF DiscInit, DiscTypeOK

LEMMA TypesKept ==
  DiscTypeOK /\ VenueInHand /\ Removing /\ Inserting /\ [DiscNext]_discVars => DiscTypeOK'
<1>. SUFFICES ASSUME DiscTypeOK, VenueInHand, Removing, Inserting, [DiscNext]_discVars PROVE DiscTypeOK'
  OBVIOUS
<1>1. CASE FetchFails
  BY <1>1, InHand DEF FetchFails, DiscTypeOK, storeVars, bootVars
<1>2. ASSUME NEW got \in Answer, StartSet(got) PROVE DiscTypeOK'
  BY <1>2 DEF StartSet, DiscTypeOK, storeVars, bootVars
<1>3. CASE FetchAnswers
  BY <1>2, <1>3, InHand, FetchedIs DEF FetchAnswers, Refreshed
<1>4. CASE FetchAnswersError
  BY <1>2, <1>4, NothingIs DEF FetchAnswersError
<1>5. CASE Unlist
  <2>1. Refreshed \in Venues
    BY <1>5, InHand DEF Unlist, VenueInHand, Replacing
  <2>2. listings' \in [Bases -> (SUBSET Venues) \cup {None}]
    <3>1. PICK b \in todo : listings' = [listings EXCEPT ![b] = @ \ {Refreshed}]
      BY <1>5 DEF Unlist
    <3>2. b \in Bases /\ listings[b] # None
      BY <1>5 DEF DiscTypeOK, Removing, Unlist
    <3>3. listings[b] \ {Refreshed} \in SUBSET Venues
      BY <3>2 DEF DiscTypeOK
    <3>. QED BY <3>1, <3>2, <3>3 DEF DiscTypeOK
  <2>. QED BY <1>5, <2>2 DEF Unlist, DiscTypeOK, bootVars
<1>6. CASE Forget
  <2>1. Refreshed \in Venues
    BY <1>6, InHand DEF Forget, VenueInHand, Replacing
  <2>. QED BY <1>6, <2>1, NothingIs, AnswerHas DEF Forget, DiscTypeOK, bootVars
<1>7. CASE Insert
  <2>1. Refreshed \in Venues
    BY <1>7, InHand DEF Insert, VenueInHand, Replacing
  <2>2. PICK b \in todo :
          /\ listings' = [listings EXCEPT ![b] = (IF @ = None THEN {} ELSE @) \cup {Refreshed}]
          /\ sizes' = [sizes EXCEPT ![Refreshed] =
                         [c \in DOMAIN @ \cup {b} |-> IF c = b THEN answer[b] ELSE @[c]]]
          /\ todo' = todo \ {b}
    BY <1>7 DEF Insert
  <2>3. listings' \in [Bases -> (SUBSET Venues) \cup {None}]
    BY <2>1, <2>2 DEF DiscTypeOK
  <2>4. sizes' \in [Venues -> Answer]
    <3> DEFINE f == [c \in DOMAIN sizes[Refreshed] \cup {b} |->
                       IF c = b THEN answer[b] ELSE sizes[Refreshed][c]]
    <3>1. phase = "insert"
      BY <1>7 DEF Insert
    <3>2. f \in Answer
      BY <2>1, <3>1, InsertedIs
    <3>3. sizes' = [sizes EXCEPT ![Refreshed] = f]
      BY <2>2
    <3>. HIDE DEF f
    <3>. QED BY <3>2, <3>3 DEF DiscTypeOK
  <2>. QED BY <1>7, <2>2, <2>3, <2>4 DEF Insert, DiscTypeOK, bootVars
<1>8. CASE Prune
  <2>1. Refreshed \in Venues /\ Tail(left) \in Seq(Venues)
    BY <1>8, InHand DEF Prune, VenueInHand, Replacing
  <2>2. listings' \in [Bases -> (SUBSET Venues) \cup {None}]
    BY <1>8 DEF Prune, DiscTypeOK
  <2>3. answered' \in [Venues -> Answer \cup {None}]
    BY <1>8 DEF Prune, DiscTypeOK
  <2>. QED BY <1>8, <2>1, <2>2, <2>3, NothingIs DEF Prune, DiscTypeOK, bootVars
<1>9. CASE Boot
  BY <1>9 DEF Boot, build_symbol_map, DiscTypeOK, storeVars
<1>10. CASE BeginRefresh
  BY <1>10, DiscoveryAssumption DEF BeginRefresh, DiscTypeOK, storeVars, bootVars
<1>11. CASE PollerStarts \/ PollerDisabled \/ EndRefresh \/ PollerStops \/ Shutdown
  BY <1>11 DEF PollerStarts, PollerDisabled, EndRefresh, PollerStops, Shutdown, DiscTypeOK, storeVars, bootVars, refreshVars
<1>12. CASE OfferChanges
  BY <1>12, DiscoveryAssumption DEF OfferChanges, DiscTypeOK, storeVars, bootVars, refreshVars
<1>13. CASE UNCHANGED discVars
  BY <1>13 DEF discVars, DiscTypeOK, storeVars, bootVars, refreshVars
<1>. QED BY <1>1, <1>3, <1>4, <1>5, <1>6, <1>7, <1>8, <1>9, <1>10, <1>11, <1>12, <1>13
         DEF DiscNext, Fetch, SetExchange

-----------------------------------------------------------------------------
(* The catalog *)

LEMMA InitCatalog == DiscInit => CatalogInv
<1>. SUFFICES ASSUME DiscInit PROVE CatalogInv
  OBVIOUS
<1>1. DiscTypeOK
  BY InitTypes
<1>2. ~Replacing /\ \A b \in Bases : listings[b] = None
  BY DEF DiscInit, Replacing
<1>3. \A v \in Venues : Settled(v)
  BY <1>2, NothingIs DEF DiscInit, Settled, Lists, LastAnswer
<1>4. Pruned
  BY <1>2, NoneIsNone DEF Pruned
<1>. QED BY <1>1, <1>2, <1>3, <1>4
         DEF CatalogInv, VenueInHand, OthersSettled, Removing, Inserting, Replacing

\* A step that leaves the listings of v, its sizes and its last answer alone.
LEMMA SettledSame ==
  ASSUME NEW v \in Venues, Settled(v), Lists(v)' = Lists(v), sizes'[v] = sizes[v],
         answered'[v] = answered[v]
  PROVE  Settled(v)'
<1>1. LastAnswer(v)' = LastAnswer(v)
  BY DEF LastAnswer
<1>. QED BY <1>1 DEF Settled

LEMMA CatalogSame ==
  ASSUME CatalogInv, UNCHANGED <<listings, sizes, answered>>, ~Replacing, ~Replacing',
         DiscTypeOK'
  PROVE  CatalogInv'
<1>1. \A v \in Venues : Settled(v)'
  BY SettledSame DEF CatalogInv, OthersSettled, Busy, Replacing, Lists
<1>2. Pruned'
  BY DEF CatalogInv, Pruned
<1>. QED BY <1>1, <1>2
         DEF CatalogInv, VenueInHand, OthersSettled, Removing, Inserting, Replacing

LEMMA StartCatalog ==
  ASSUME CatalogInv, NEW got, StartSet(got), DiscTypeOK'
  PROVE  CatalogInv'
<1>1. /\ phase = "fetch" /\ left # <<>> /\ phase' = "remove" /\ left' = left
      /\ todo' = {b \in Bases : listings[b] # None}
      /\ UNCHANGED <<listings, sizes, answered>>
  BY DEF StartSet, storeVars
<1>2. \A v \in Venues : Settled(v) /\ Lists(v)' = Lists(v) /\ LastAnswer(v)' = LastAnswer(v)
  BY <1>1 DEF CatalogInv, OthersSettled, Busy, Lists, LastAnswer
<1>3. \A v \in Venues : Settled(v)'
  BY <1>1, <1>2, SettledSame
<1>4. Refreshed' = Refreshed /\ Refreshed \in Venues
  BY <1>1, InHand DEF CatalogInv, Refreshed
<1>5. Removing'
  BY <1>1, <1>2, <1>4 DEF Removing, Settled, Lists
<1>. QED BY <1>1, <1>3, <1>5 DEF CatalogInv, VenueInHand, OthersSettled, Inserting, Pruned, Replacing

LEMMA BusyFacts ==
  ASSUME CatalogInv, Replacing
  PROVE  /\ left # <<>> /\ Refreshed \in Venues /\ Busy(Refreshed)
         /\ \A v \in Venues \ {Refreshed} : ~Busy(v) /\ Settled(v)
  BY InHand DEF CatalogInv, VenueInHand, OthersSettled, Busy, Replacing

LEMMA UnlistCatalog ==
  ASSUME CatalogInv, Unlist, DiscTypeOK'
  PROVE  CatalogInv'
<1>1. /\ phase = "remove" /\ Replacing /\ Replacing' /\ phase' = "remove" /\ left' = left
      /\ Refreshed' = Refreshed /\ UNCHANGED <<sizes, answered, answer>>
  BY DEF Unlist, Replacing, Refreshed
<1>2. PICK b \in todo : /\ listings' = [listings EXCEPT ![b] = @ \ {Refreshed}]
                        /\ todo' = todo \ {b}
  BY DEF Unlist
<1>3. b \in Bases /\ listings[b] # None /\ listings[b] \in SUBSET Venues
  BY <1>1 DEF CatalogInv, DiscTypeOK, Removing
<1>4. listings'[b] = listings[b] \ {Refreshed} /\ listings'[b] # None
  <2>1. listings'[b] = listings[b] \ {Refreshed}
    BY <1>2, <1>3 DEF CatalogInv, DiscTypeOK
  <2>. QED BY <1>3, <2>1, NoneIsNone
<1>5. \A c \in Bases \ {b} : listings'[c] = listings[c]
  BY <1>2 DEF CatalogInv, DiscTypeOK
<1>6. \A v \in Venues \ {Refreshed} : Lists(v)' = Lists(v)
  BY <1>3, <1>4, <1>5 DEF Lists
<1>7. Lists(Refreshed)' = Lists(Refreshed) \ {b}
  BY <1>1, <1>3, <1>4, <1>5 DEF Lists
<1>8. OthersSettled'
  BY <1>1, <1>6, BusyFacts, SettledSame DEF OthersSettled, Busy, Replacing
<1>9. Removing'
  <2>1. LastAnswer(Refreshed)' = LastAnswer(Refreshed)
    BY <1>1 DEF LastAnswer
  <2>2. \A c \in todo' : listings'[c] # None
    BY <1>1, <1>2, <1>5 DEF CatalogInv, Removing, DiscTypeOK
  <2>3. Lists(Refreshed)' \subseteq todo' \cap DOMAIN LastAnswer(Refreshed)'
    BY <1>1, <1>2, <1>7, <2>1 DEF CatalogInv, Removing
  <2>. QED BY <1>1, <2>2, <2>3 DEF Removing
<1>. QED BY <1>1, <1>8, <1>9 DEF CatalogInv, VenueInHand, Inserting, Pruned

LEMMA ForgetCatalog ==
  ASSUME CatalogInv, Forget, DiscTypeOK'
  PROVE  CatalogInv'
<1>1. /\ phase = "remove" /\ todo = {} /\ Replacing /\ Replacing' /\ phase' = "insert"
      /\ left' = left /\ Refreshed' = Refreshed /\ UNCHANGED <<listings, answered, answer>>
      /\ todo' = DOMAIN answer /\ sizes' = [sizes EXCEPT ![Refreshed] = Nothing]
  BY DEF Forget, Replacing, Refreshed
<1>2. \A v \in Venues : Lists(v)' = Lists(v)
  BY <1>1 DEF Lists
<1>3. Refreshed \in Venues /\ sizes \in [Venues -> Answer]
  BY <1>1, BusyFacts DEF CatalogInv, DiscTypeOK
<1>4. sizes'[Refreshed] = Nothing /\ \A v \in Venues \ {Refreshed} : sizes'[v] = sizes[v]
  BY <1>1, <1>3
<1>5. OthersSettled'
  BY <1>1, <1>2, <1>4, BusyFacts, SettledSame DEF OthersSettled, Busy, Replacing
<1>6. Lists(Refreshed)' = {}
  BY <1>1, <1>2, <1>3 DEF CatalogInv, Removing
<1>7. Inserting'
  <2>1. DOMAIN answer \ DOMAIN answer = {}
    OBVIOUS
  <2>2. sizes'[Refreshed] = [c \in {} |-> answer[c]]
    BY <1>4 DEF Nothing
  <2>. QED BY <1>1, <1>6, <2>1, <2>2 DEF Inserting
<1>. QED BY <1>1, <1>5, <1>7 DEF CatalogInv, VenueInHand, Removing, Pruned

LEMMA InsertCatalog ==
  ASSUME CatalogInv, Insert, DiscTypeOK'
  PROVE  CatalogInv'
<1>1. /\ phase = "insert" /\ Replacing /\ Replacing' /\ phase' = "insert" /\ left' = left
      /\ Refreshed' = Refreshed /\ UNCHANGED <<answered, answer>>
  BY DEF Insert, Replacing, Refreshed
<1>2. PICK b \in todo :
        /\ listings' = [listings EXCEPT ![b] = (IF @ = None THEN {} ELSE @) \cup {Refreshed}]
        /\ sizes' = [sizes EXCEPT ![Refreshed] =
                       [c \in DOMAIN @ \cup {b} |-> IF c = b THEN answer[b] ELSE @[c]]]
        /\ todo' = todo \ {b}
  BY DEF Insert
<1>3. /\ b \in Bases /\ b \in DOMAIN answer /\ todo \subseteq DOMAIN answer
      /\ Lists(Refreshed) = DOMAIN answer \ todo
      /\ sizes[Refreshed] = [c \in DOMAIN answer \ todo |-> answer[c]]
  BY <1>1 DEF CatalogInv, DiscTypeOK, Inserting
<1>4. Refreshed \in Venues /\ sizes \in [Venues -> Answer]
  BY <1>1, BusyFacts DEF CatalogInv, DiscTypeOK
<1>5. /\ listings'[b] = (IF listings[b] = None THEN {} ELSE listings[b]) \cup {Refreshed}
      /\ \A c \in Bases \ {b} : listings'[c] = listings[c]
  BY <1>2, <1>3 DEF CatalogInv, DiscTypeOK
<1>6. listings'[b] # None
  BY <1>3, NoneIsNone, <1>4, <1>5 DEF CatalogInv, DiscTypeOK
<1>7. \A v \in Venues \ {Refreshed} : Lists(v)' = Lists(v)
  BY <1>3, <1>5, <1>6 DEF Lists
<1>8. Lists(Refreshed)' = Lists(Refreshed) \cup {b}
  BY <1>1, <1>3, <1>5, <1>6 DEF Lists
<1>9. /\ sizes'[Refreshed] = [c \in DOMAIN sizes[Refreshed] \cup {b} |->
                                IF c = b THEN answer[b] ELSE sizes[Refreshed][c]]
      /\ \A v \in Venues \ {Refreshed} : sizes'[v] = sizes[v]
  BY <1>2, <1>4
<1>10. OthersSettled'
  BY <1>1, <1>7, <1>9, BusyFacts, SettledSame DEF OthersSettled, Busy, Replacing
<1>11. Inserting'
  <2>1. DOMAIN answer \ todo' = (DOMAIN answer \ todo) \cup {b}
    BY <1>2, <1>3
  <2>2. sizes'[Refreshed] = [c \in DOMAIN answer \ todo' |-> answer[c]]
    BY <1>3, <1>9, <2>1
  <2>3. todo' \subseteq DOMAIN answer
    BY <1>2, <1>3
  <2>. QED BY <1>1, <1>3, <1>8, <2>1, <2>2, <2>3 DEF Inserting
<1>. QED BY <1>1, <1>10, <1>11 DEF CatalogInv, VenueInHand, Removing, Pruned

LEMMA PruneCatalog ==
  ASSUME CatalogInv, Prune, DiscTypeOK'
  PROVE  CatalogInv'
<1>1. /\ phase = "insert" /\ todo = {} /\ Replacing /\ ~Replacing' /\ sizes' = sizes
      /\ listings' = [b \in Bases |-> IF listings[b] = {} THEN None ELSE listings[b]]
      /\ answered' = [answered EXCEPT ![Refreshed] = answer]
  BY DEF Prune, Replacing
<1>2. Refreshed \in Venues /\ answer \in Answer
  BY <1>1, BusyFacts DEF CatalogInv, DiscTypeOK
<1>3. \A v \in Venues : Lists(v)' = Lists(v)
  BY <1>1 DEF Lists
<1>4. answered'[Refreshed] = answer /\ \A v \in Venues \ {Refreshed} : answered'[v] = answered[v]
  BY <1>1, <1>2 DEF CatalogInv, DiscTypeOK
<1>5. ASSUME NEW v \in Venues, v = Refreshed PROVE Settled(v)'
  <2>1. answered'[v] = answer /\ answered'[v] # None
    BY <1>2, <1>4, <1>5, NoneIsNone
  <2>2. Lists(v)' = DOMAIN answer /\ sizes'[v] = answer
    BY <1>1, <1>2, <1>3, <1>5, AnswerHas DEF CatalogInv, Inserting
  <2>. QED BY <2>1, <2>2 DEF Settled, LastAnswer
<1>6. \A v \in Venues : v # Refreshed => Settled(v)'
  BY <1>1, <1>3, <1>4, BusyFacts, SettledSame
<1>7. Pruned'
  BY <1>1, NoneIsNone DEF Pruned
<1>. QED BY <1>1, <1>5, <1>6, <1>7
         DEF CatalogInv, VenueInHand, OthersSettled, Removing, Inserting, Replacing

LEMMA CatalogKept == CatalogInv /\ [DiscNext]_discVars => CatalogInv'
<1>. SUFFICES ASSUME CatalogInv, [DiscNext]_discVars PROVE CatalogInv'
  OBVIOUS
<1>0. DiscTypeOK'
  BY TypesKept DEF CatalogInv
<1>1. CASE FetchAnswers \/ FetchAnswersError
  BY <1>0, <1>1, StartCatalog DEF FetchAnswers, FetchAnswersError
<1>2. CASE Unlist
  BY <1>0, <1>2, UnlistCatalog
<1>3. CASE Forget
  BY <1>0, <1>3, ForgetCatalog
<1>4. CASE Insert
  BY <1>0, <1>4, InsertCatalog
<1>5. CASE Prune
  BY <1>0, <1>5, PruneCatalog
<1>6. CASE \/ FetchFails \/ Boot \/ PollerStarts \/ PollerDisabled
           \/ BeginRefresh \/ EndRefresh \/ PollerStops
  <2>1. UNCHANGED <<listings, sizes, answered>> /\ ~Replacing /\ ~Replacing'
    BY <1>6 DEF FetchFails, Boot, PollerStarts, PollerDisabled, BeginRefresh, EndRefresh, PollerStops,
                storeVars, Replacing
  <2>. QED BY <1>0, <2>1, CatalogSame
<1>7. CASE Shutdown \/ OfferChanges \/ UNCHANGED discVars
  <2>1. UNCHANGED <<listings, sizes, left, phase, todo, answer, answered>>
    BY <1>7 DEF Shutdown, OfferChanges, discVars, storeVars, refreshVars
  <2>2. \A v \in Venues : Lists(v)' = Lists(v) /\ LastAnswer(v)' = LastAnswer(v)
    BY <2>1 DEF Lists, LastAnswer
  <2>3. Refreshed' = Refreshed /\ (Replacing => Refreshed \in Venues)
    BY <2>1, BusyFacts DEF Refreshed
  <2>4. OthersSettled' /\ Removing' /\ Inserting'
    BY <2>1, <2>2, <2>3
    DEF CatalogInv, OthersSettled, Settled, Busy, Removing, Inserting, Replacing
  <2>. QED BY <1>0, <2>1, <2>4 DEF CatalogInv, VenueInHand, Pruned, Replacing
<1>. QED BY <1>1, <1>2, <1>3, <1>4, <1>5, <1>6, <1>7 DEF DiscNext, Fetch, SetExchange

LEMMA CatalogShows ==
  ASSUME CatalogInv
  PROVE  /\ \A v \in Venues : ListedBy(v) = Lists(v)
         /\ CatalogIsLastAnswer
<1>1. /\ DOMAIN catalog = {b \in Bases : listings[b] # None}
      /\ \A b \in DOMAIN catalog : catalog[b] = listings[b]
  BY DEF catalog
<1>2. \A v \in Venues : ListedBy(v) = Lists(v)
  BY <1>1 DEF ListedBy, Lists
<1>3. ASSUME NEW v \in Venues, Busy(v)
      PROVE  ListedBy(v) \subseteq DOMAIN LastAnswer(v) \cup DOMAIN answer
  BY <1>2, <1>3 DEF CatalogInv, Busy, Removing, Inserting
<1>4. ASSUME NEW v \in Venues, ~Busy(v)
      PROVE  ListedBy(v) = DOMAIN LastAnswer(v) /\ sizes[v] = LastAnswer(v)
  BY <1>2, <1>4 DEF CatalogInv, OthersSettled, Settled
<1>5. (\E v \in Venues : Busy(v)) \/ \A b \in DOMAIN catalog : catalog[b] # {}
  BY <1>1, BusyFacts DEF CatalogInv, Pruned
<1>. QED BY <1>2, <1>3, <1>4, <1>5 DEF CatalogIsLastAnswer

LEMMA CatalogHolds == DiscSpec => []CatalogInv
  BY InitCatalog, CatalogKept, PTL DEF DiscSpec

\* At every moment of every refresh the catalog shows of each venue exactly its
\* last answer, but for the venue being replaced, which is never shown with
\* more than its old and its new answer (universe/src/lib.rs:36-54,
\* poller.rs:19-31).
THEOREM CatalogShowsLastAnswer == DiscSpec => []CatalogIsLastAnswer
<1>1. CatalogInv => CatalogIsLastAnswer
  BY CatalogShows
<1>. QED BY CatalogHolds, <1>1, PTL

-----------------------------------------------------------------------------
(* Ranking *)

IsOrder(order, S) ==
  /\ \A a, b \in S : a # b => <<a, b>> \in order \/ <<b, a>> \in order
  /\ \A a, b, c \in S : <<a, b>> \in order /\ <<b, c>> \in order => <<a, c>> \in order

Greatest(m, S, order) == m \in S /\ \A a \in S \ {m} : <<a, m>> \in order

\* An induction over finite sets starts from a smallest counterexample.
LEMMA SmallestSet ==
  ASSUME NEW S, NEW F, F \subseteq FiniteSubsetsOf(S), F # {}
  PROVE  \E X \in F : \A Y \in F : ~(Y \subseteq X /\ Y # X)
<1> DEFINE R == StrictSubsetOrdering(S)
<1>1. IsWellFoundedOn(R, FiniteSubsetsOf(S))
  BY FS_StrictSubsetOrderingWellFounded
<1>. HIDE DEF R
<1>2. PICK X \in F : \A Y \in F : <<Y, X>> \notin R
  BY <1>1, WFMin
<1>3. ASSUME NEW Y \in F, Y \subseteq X, Y # X PROVE FALSE
  <2>1. <<Y, X>> \in R
    BY <1>3 DEF R, StrictSubsetOrdering, FiniteSubsetsOf
  <2>. QED BY <1>2, <2>1
<1>. QED BY <1>2, <1>3

LEMMA GreatestExists ==
  ASSUME NEW S, NEW order, IsOrder(order, S), NEW T \in SUBSET S, IsFiniteSet(T), T # {}
  PROVE  \E m : Greatest(m, T, order)
<1> DEFINE F == {X \in FiniteSubsetsOf(S) : X # {} /\ ~\E m : Greatest(m, X, order)}
<1>1. ASSUME F # {} PROVE FALSE
  <2>1. F \subseteq FiniteSubsetsOf(S)
    OBVIOUS
  <2>2. PICK X \in F : \A Y \in F : ~(Y \subseteq X /\ Y # X)
    <3>. HIDE DEF F
    <3>. QED BY <1>1, <2>1, SmallestSet
  <2>3. X \in SUBSET S /\ IsFiniteSet(X) /\ X # {} /\ ~\E m : Greatest(m, X, order)
    BY <2>2 DEF FiniteSubsetsOf
  <2>4. PICK x \in X : TRUE
    BY <2>3
  <2> DEFINE Y == X \ {x}
  <2>5. Y \subseteq X /\ Y # X /\ Y \in FiniteSubsetsOf(S)
    BY <2>3, <2>4, FS_Subset DEF FiniteSubsetsOf
  <2>6. Y # {}
    BY <2>3, <2>4 DEF Greatest
  <2>7. PICK m : Greatest(m, Y, order)
    BY <2>2, <2>5, <2>6
  <2>8. m \in S /\ x \in S /\ m # x
    BY <2>3, <2>4, <2>7 DEF Greatest
  <2>9. CASE <<m, x>> \in order
    <3>1. \A a \in X \ {x} : <<a, x>> \in order
      BY <2>3, <2>7, <2>8, <2>9 DEF Greatest, IsOrder
    <3>. QED BY <2>3, <2>4, <3>1 DEF Greatest
  <2>10. CASE <<x, m>> \in order
    BY <2>3, <2>7, <2>8, <2>10 DEF Greatest
  <2>. QED BY <2>8, <2>9, <2>10 DEF IsOrder
<1>. QED BY <1>1 DEF FiniteSubsetsOf

InOrderOf(r, T, order) ==
  /\ r \in [1..Cardinality(T) -> T]
  /\ \A j \in DOMAIN r : \A i \in 1..(j - 1) : <<r[i], r[j]>> \in order

\* Every finite set can be ranked.
LEMMA RankingExists ==
  ASSUME NEW S, NEW order, IsOrder(order, S), NEW T \in SUBSET S, IsFiniteSet(T)
  PROVE  \E r : InOrderOf(r, T, order)
<1> DEFINE F == {X \in FiniteSubsetsOf(S) : ~\E r : InOrderOf(r, X, order)}
<1>1. ASSUME F # {} PROVE FALSE
  <2>1. F \subseteq FiniteSubsetsOf(S)
    OBVIOUS
  <2>2. PICK X \in F : \A Y \in F : ~(Y \subseteq X /\ Y # X)
    <3>. HIDE DEF F
    <3>. QED BY <1>1, <2>1, SmallestSet
  <2>3. X \in SUBSET S /\ IsFiniteSet(X) /\ ~\E r : InOrderOf(r, X, order)
    BY <2>2 DEF FiniteSubsetsOf
  <2>4. X # {}
    <3>1. ASSUME X = {} PROVE InOrderOf([k \in 1..0 |-> k], X, order)
      <4>1. Cardinality(X) = 0 /\ 1..0 = {}
        BY <3>1, FS_EmptySet
      <4>. QED BY <4>1 DEF InOrderOf
    <3>. QED BY <2>3, <3>1
  <2>5. PICK m : Greatest(m, X, order)
    BY <2>3, <2>4, GreatestExists
  <2> DEFINE Y == X \ {m}
             n == Cardinality(Y)
  <2>6. Y \subseteq X /\ Y # X /\ Y \in FiniteSubsetsOf(S) /\ m \in X
    BY <2>3, <2>5, FS_Subset DEF FiniteSubsetsOf, Greatest
  <2>7. n \in Nat /\ Cardinality(X) = n + 1
    <3>1. IsFiniteSet(Y) /\ Cardinality(Y) = Cardinality(X) - 1
      BY <2>3, <2>6, FS_RemoveElement
    <3>2. Cardinality(Y) \in Nat /\ Cardinality(X) \in Nat
      BY <2>3, <3>1, FS_CardinalityType
    <3>. QED BY <3>1, <3>2
  <2>8. PICK q : InOrderOf(q, Y, order)
    BY <2>2, <2>6
  <2>9. q \in [1..n -> Y] /\ \A j \in 1..n : \A i \in 1..(j - 1) : <<q[i], q[j]>> \in order
    BY <2>8 DEF InOrderOf
  <2>10. \A a \in Y : <<a, m>> \in order
    BY <2>5 DEF Greatest
  <2>. HIDE DEF Y, n
  <2> DEFINE r == [k \in 1..n + 1 |-> IF k = n + 1 THEN m ELSE q[k]]
  <2>11. r \in [1..n + 1 -> X]
    BY <2>6, <2>7, <2>9
  <2>12. \A j \in 1..n + 1 : \A i \in 1..(j - 1) : <<r[i], r[j]>> \in order
    BY <2>7, <2>9, <2>10
  <2>. HIDE DEF r
  <2>13. InOrderOf(r, X, order)
    BY <2>7, <2>11, <2>12 DEF InOrderOf
  <2>. QED BY <2>3, <2>13
<1>. QED BY <1>1 DEF FiniteSubsetsOf

LEMMA VenuesFinite == IsFiniteSet(Venues)
<1>1. Enabled \in Surjection(1..Len(Enabled), Venues)
  <2>1. Enabled \in [1..Len(Enabled) -> Venues] /\ DOMAIN Enabled = 1..Len(Enabled)
    BY DiscoveryAssumption
  <2>. QED BY <2>1 DEF Surjection, Venues, Range
<1>2. IsFiniteSet(1..Len(Enabled))
  BY FS_Interval, DiscoveryAssumption
<1>. QED BY <1>1, <1>2, FS_Surjection

LEMMA CatalogIs ==
  ASSUME DiscTypeOK
  PROVE  /\ DOMAIN catalog \in SUBSET Bases
         /\ \A b \in DOMAIN catalog : catalog[b] \in SUBSET Venues /\ Cardinality(catalog[b]) \in Nat
<1>1. \A b \in DOMAIN catalog : b \in Bases /\ catalog[b] = listings[b] /\ listings[b] # None
  BY DEF catalog
<1>2. \A b \in DOMAIN catalog : catalog[b] \in SUBSET Venues
  BY <1>1 DEF DiscTypeOK
<1>3. \A V \in SUBSET Venues : Cardinality(V) \in Nat
  BY VenuesFinite, FS_Subset, FS_CardinalityType
<1>. QED BY <1>1, <1>2, <1>3

LEMMA BeforeOrders ==
  ASSUME DiscTypeOK
  PROVE  \E order : /\ IsOrder(order, DOMAIN catalog)
                    /\ \A a, b \in DOMAIN catalog : <<a, b>> \in order <=> Before(a, b)
<1> DEFINE D == DOMAIN catalog
           order == {p \in D \X D : Before(p[1], p[2])}
<1>1. \A a, b \in D : <<a, b>> \in order <=> Before(a, b)
  OBVIOUS
<1>2. \A a \in D : a \in Nat /\ Cardinality(catalog[a]) \in Nat
  BY CatalogIs, DiscoveryAssumption
<1>3. ASSUME NEW a \in D, NEW b \in D, a # b PROVE Before(a, b) \/ Before(b, a)
  BY <1>2, <1>3 DEF Before
<1>4. ASSUME NEW a \in D, NEW b \in D, NEW c \in D, Before(a, b), Before(b, c) PROVE Before(a, c)
  BY <1>2, <1>4 DEF Before
<1>. HIDE DEF order, D
<1>5. IsOrder(order, D)
  BY <1>1, <1>3, <1>4 DEF IsOrder
<1>. QED BY <1>1, <1>5 DEF D

\* A ranking lists each of its coins at most once, and nothing else.
LEMMA RankedLists ==
  ASSUME DiscTypeOK, NEW T \in SUBSET DOMAIN catalog
  PROVE  Cardinality(T) \in Nat /\ Ranked(T) \in [1..Cardinality(T) -> T]
<1>1. PICK order : /\ IsOrder(order, DOMAIN catalog)
                   /\ \A a, b \in DOMAIN catalog : <<a, b>> \in order <=> Before(a, b)
  BY BeforeOrders
<1>2. IsFiniteSet(T) /\ Cardinality(T) \in Nat
  BY CatalogIs, DiscoveryAssumption, FS_Subset, FS_CardinalityType
<1>3. PICK r : InOrderOf(r, T, order)
  BY <1>1, <1>2, RankingExists
<1>4. r \in [1..Cardinality(T) -> T] /\ \A j \in DOMAIN r : \A i \in 1..(j - 1) : Before(r[i], r[j])
  <2>1. r \in [1..Cardinality(T) -> T] /\ DOMAIN r = 1..Cardinality(T)
    BY <1>3 DEF InOrderOf
  <2>2. \A j \in DOMAIN r : \A i \in 1..(j - 1) : i \in DOMAIN r
    BY <1>2, <2>1
  <2>. QED BY <1>1, <1>3, <2>1, <2>2 DEF InOrderOf
<1>. QED BY <1>2, <1>4 DEF Ranked

\* What discovery takes: at most max_symbols coins, each with enough venues.
LEMMA KeptIs ==
  ASSUME DiscTypeOK, NEW kept,
         kept = IF Len(discovered_bases) <= settings.max_symbols THEN discovered_bases
                ELSE SubSeq(discovered_bases, 1, settings.max_symbols)
  PROVE  /\ IsFiniteSet(Range(kept)) /\ Cardinality(Range(kept)) <= settings.max_symbols
         /\ \A b \in Range(kept) : /\ b \in DOMAIN catalog
                                   /\ Cardinality(catalog[b]) >= settings.min_venues
<1> DEFINE D == {b \in DOMAIN catalog : Cardinality(catalog[b]) >= settings.min_venues}
           max == settings.max_symbols
<1>1. settings.max_symbols \in Nat /\ settings.min_venues \in Nat
  BY DiscoveryAssumption DEF DiscTypeOK, IngestCfg
<1>2. PICK n \in Nat : discovered_bases \in [1..n -> D]
  <2> DEFINE A == {b \in DOMAIN catalog :
                     /\ settings.anchor \in catalog[b]
                     /\ Cardinality(catalog[b]) >= IF settings.min_venues < 2 THEN 2
                                                   ELSE settings.min_venues}
  <2>1. A \in SUBSET D /\ D \in SUBSET DOMAIN catalog /\ A \in SUBSET DOMAIN catalog
    BY <1>1, CatalogIs
  <2>2. screenable(settings.min_venues) = Ranked(D)
    BY DEF screenable
  <2>3. screenable_anchored(settings.anchor, settings.min_venues) = Ranked(A)
    BY DEF screenable_anchored
  <2>4. discovered_bases = Ranked(A) \/ discovered_bases = Ranked(D)
    BY <2>2, <2>3 DEF discovered_bases
  <2>. HIDE DEF A, D
  <2>5. \E n \in Nat : Ranked(D) \in [1..n -> D]
    BY <2>1, RankedLists
  <2>6. \E n \in Nat : Ranked(A) \in [1..n -> D]
    <3>1. Cardinality(A) \in Nat /\ Ranked(A) \in [1..Cardinality(A) -> A]
      BY <2>1, RankedLists
    <3>. QED BY <2>1, <3>1
  <2>. QED BY <2>4, <2>5, <2>6
<1>3. PICK m \in Nat : m <= max /\ kept \in [1..m -> D]
  <2>. HIDE DEF D
  <2>1. discovered_bases \in Seq(D) /\ Len(discovered_bases) = n
    BY <1>2
  <2>2. CASE n <= max
    BY <1>1, <1>2, <2>1, <2>2
  <2>3. CASE n > max
    <3>1. kept = SubSeq(discovered_bases, 1, max)
      BY <1>1, <2>1, <2>3
    <3>2. max \in Nat /\ max <= n
      BY <1>1, <2>3
    <3>3. SubSeq(discovered_bases, 1, max) = [k \in 1..max |-> discovered_bases[k]]
      BY <2>1, <3>2
    <3>4. \A k \in 1..max : discovered_bases[k] \in D
      BY <1>2, <3>2
    <3>. HIDE DEF max
    <3>5. kept \in [1..max -> D]
      BY <3>1, <3>3, <3>4
    <3>. QED BY <3>2, <3>5
  <2>. QED BY <1>1, <2>2, <2>3
<1>4. Range(kept) \subseteq D /\ kept \in Surjection(1..m, Range(kept))
  BY <1>3 DEF Range, Surjection
<1>5. IsFiniteSet(1..m) /\ Cardinality(1..m) = m
  BY FS_Interval
<1>6. IsFiniteSet(Range(kept)) /\ Cardinality(Range(kept)) <= Cardinality(1..m)
  BY <1>4, <1>5, FS_Surjection
<1>7. Cardinality(Range(kept)) \in Nat
  BY <1>6, FS_CardinalityType
<1>. QED BY <1>1, <1>3, <1>4, <1>5, <1>6, <1>7

-----------------------------------------------------------------------------
(* Startup *)

LEMMA BootScales ==
  ASSUME CatalogInv, Boot, NEW v \in Venues, NEW b \in subs'[v]
  PROVE  IF b \in DOMAIN LastAnswer(v)
         THEN ContractSize(v, b)' = LastAnswer(v)[b]
         ELSE /\ \A w \in Venues : b \notin DOMAIN LastAnswer(w) /\ b \in subs'[w]
              /\ ContractSize(v, b)' = 1
<1>1. phase = "fetch" /\ subs' = build_symbol_map /\ multiplier' = sizes
  BY DEF Boot
<1>2. \A w \in Venues : Settled(w) /\ ListedBy(w) = DOMAIN LastAnswer(w)
  BY <1>1, CatalogShows DEF CatalogInv, OthersSettled, Busy, Settled
<1>3. \A w \in Venues :
        subs'[w] = {c \in ScreenedBases : c \in DOMAIN catalog => w \in catalog[c]}
  BY <1>1 DEF build_symbol_map
<1>4. ContractSize(v, b)' = IF b \in DOMAIN LastAnswer(v) THEN LastAnswer(v)[b] ELSE 1
  BY <1>1, <1>2 DEF ContractSize, Settled
<1>5. CASE b \in DOMAIN LastAnswer(v)
  BY <1>4, <1>5
<1>6. CASE b \notin DOMAIN LastAnswer(v)
  <2>1. b \notin DOMAIN catalog /\ b \in ScreenedBases
    BY <1>2, <1>3, <1>6 DEF ListedBy
  <2>2. \A w \in Venues : b \notin DOMAIN LastAnswer(w)
    BY <1>2, <2>1 DEF ListedBy
  <2>. QED BY <1>3, <1>4, <1>6, <2>1, <2>2
<1>. QED BY <1>5, <1>6

LEMMA BootPairs ==
  ASSUME CatalogInv, Boot, settings.auto_discover, DOMAIN catalog # {},
         NEW found, found = {b \in UNION Range(subs') : b \notin settings.always_screen}
  PROVE  /\ Cardinality(found) <= settings.max_symbols
         /\ \A b \in found : Cardinality({v \in Venues : b \in subs'[v]}) >= settings.min_venues
<1> DEFINE kept == IF Len(discovered_bases) <= settings.max_symbols THEN discovered_bases
                   ELSE SubSeq(discovered_bases, 1, settings.max_symbols)
<1>1. /\ IsFiniteSet(Range(kept)) /\ Cardinality(Range(kept)) <= settings.max_symbols
      /\ \A b \in Range(kept) : /\ b \in DOMAIN catalog
                                /\ Cardinality(catalog[b]) >= settings.min_venues
  BY KeptIs DEF CatalogInv
<1>2. ScreenedBases = settings.always_screen \cup Range(kept)
  BY DEF ScreenedBases
<1>. HIDE DEF kept
<1>3. /\ subs' = [v \in Venues |-> {b \in ScreenedBases : b \in DOMAIN catalog => v \in catalog[b]}]
      /\ DOMAIN subs' = Venues
  BY DEF Boot, build_symbol_map
<1>4. \A b : b \in found <=> b \notin settings.always_screen /\ \E v \in Venues : b \in subs'[v]
  BY <1>3 DEF Range
<1>5. found \in SUBSET Range(kept)
  BY <1>2, <1>3, <1>4
<1>6. settings.max_symbols \in Nat
  BY DiscoveryAssumption DEF CatalogInv, DiscTypeOK, IngestCfg
<1>7. Cardinality(found) <= settings.max_symbols
  <2>1. Cardinality(found) <= Cardinality(Range(kept)) /\ IsFiniteSet(found)
    BY <1>1, <1>5, FS_Subset
  <2>2. Cardinality(found) \in Nat /\ Cardinality(Range(kept)) \in Nat
    BY <1>1, <2>1, FS_CardinalityType
  <2>. QED BY <1>1, <1>6, <2>1, <2>2
<1>8. ASSUME NEW b \in found
      PROVE  Cardinality({v \in Venues : b \in subs'[v]}) >= settings.min_venues
  <2>1. b \in DOMAIN catalog /\ b \in ScreenedBases /\ catalog[b] \in SUBSET Venues
    BY <1>1, <1>2, <1>5, CatalogIs DEF CatalogInv
  <2>2. {v \in Venues : b \in subs'[v]} = catalog[b]
    BY <1>3, <2>1
  <2>. QED BY <1>1, <1>5, <2>2
<1>. QED BY <1>7, <1>8

\* Whichever fetches of the startup failed: a venue is subscribed to what its
\* answer lists, scaled by that answer, and to what nobody was known to list,
\* unscaled; and the coins that discovery found respect the cap and have enough
\* venues to pair on (main.rs:34-122, 214-226; common.rs:34-60).
THEOREM SubscribedAsListed == DiscSpec => SubscriptionsAreListed
<1> DEFINE Right ==
      /\ \A v \in Venues : \A b \in subs'[v] :
           IF b \in DOMAIN LastAnswer(v)
           THEN ContractSize(v, b)' = LastAnswer(v)[b]
           ELSE /\ \A w \in Venues : b \notin DOMAIN LastAnswer(w) /\ b \in subs'[w]
                /\ ContractSize(v, b)' = 1
      /\ settings.auto_discover /\ DOMAIN catalog # {} =>
           LET found == {b \in UNION Range(subs') : b \notin settings.always_screen}
           IN /\ Cardinality(found) <= settings.max_symbols
              /\ \A b \in found :
                   Cardinality({v \in Venues : b \in subs'[v]}) >= settings.min_venues
<1>1. CatalogInv => [Boot => Right]_discVars
  BY BootScales, BootPairs
<1>. QED BY CatalogHolds, <1>1, PTL DEF SubscriptionsAreListed
=============================================================================
