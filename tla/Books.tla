-------------------------------- MODULE Books --------------------------------
(***************************************************************************)
(* L2 books as the connectors maintain them (crates/connectors/src/book.rs)*)
(* and as the market state judges them (crates/domain/src/types.rs).       *)
(* A side is the set of prices that carry a quantity; the quantities       *)
(* themselves are left out.                                                *)
(***************************************************************************)
EXTENDS Naturals

CONSTANTS Bids, Asks    \* prices a bid, an ask can stand at

ASSUME PriceAssumption == Bids \subseteq Nat \ {0} /\ Asks \subseteq Nat \ {0}

Book == [bids : SUBSET Bids, asks : SUBSET Asks]
EmptyBook == [bids |-> {}, asks |-> {}]

\* The complement of DeltaBook::is_empty.
TwoSided(b) == b.bids # {} /\ b.asks # {}

\* TopBook::is_valid: both sides exist and are not crossed.
IsValid(b) == TwoSided(b) /\ \A p \in b.bids, q \in b.asks : p <= q

\* Levels with a quantity are set, levels with quantity zero removed.
ApplyDelta(b, set, gone) == [bids |-> (b.bids \ gone.bids) \cup set.bids,
                             asks |-> (b.asks \ gone.asks) \cup set.asks]

\* Mutant: the old levels stay.
ApplySnapshotOver(b, s) == ApplyDelta(b, s, EmptyBook)

ApplySnapshot(b, s) == ApplyDelta(EmptyBook, s, EmptyBook)

\* The levels of a that b lacks.
Minus(a, b) == [bids |-> a.bids \ b.bids, asks |-> a.asks \ b.asks]
=============================================================================
