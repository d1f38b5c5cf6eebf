------------------------------ MODULE Executable ------------------------------
(***************************************************************************)
(* What a book is worth at a given size                                    *)
(* (crates/screener/src/executable.rs) and the chart's view of it          *)
(* (crates/screener/src/chart.rs).  Prices, quantities and quote amounts   *)
(* are integers; a base amount is held in units of 1/One and a VWAP in     *)
(* units of 1/Scale, both large enough for the prices of an instance to be *)
(* told apart; a fraction is held in 1/Pct, rounded down.                  *)
(***************************************************************************)
EXTENDS Integers, Sequences, SequencesExt

CONSTANTS
  One,      \* a multiple of every price
  Scale, Pct,
  None

\* What a walk returns, when it is not None.
Leg == [vwap : Nat, filled : Nat, capped : BOOLEAN]

ASSUME ScaleAssumption ==
  One \in Nat \ {0} /\ Scale \in Nat \ {0} /\ Pct \in Nat \ {0} /\ None \notin Leg

Smaller(a, b) == IF a <= b THEN a ELSE b

\* (new - old) / old as a fraction.
Gain(new, old) == ((new - old) * Pct) \div old

-----------------------------------------------------------------------------
(* walk *)

\* Mutant: the last level is always taken whole.
WalkWhole(levels, target) ==
  LET take(w, l) ==
        IF w.left = 0 THEN w
        ELSE [left |-> w.left - Smaller(w.left, l.price * l.qty),
              quote |-> w.quote + Smaller(w.left, l.price * l.qty), base |-> w.base + l.qty * One]
      walked[k \in 0..Len(levels)] ==
        IF k = 0 THEN [left |-> target, quote |-> 0, base |-> 0]
        ELSE take(walked[k - 1], levels[k])
      end == walked[Len(levels)]
  IN IF target <= 0 \/ end.base = 0 THEN None
     ELSE [vwap |-> (end.quote * One * Scale) \div end.base,
           filled |-> end.quote, capped |-> end.left > 0]

\* Levels are taken best first until the target is spent, the last one in part.
Walk(levels, target) ==
  LET take(w, l) ==
        LET notional == l.price * l.qty
        IN IF l.price <= 0 \/ l.qty <= 0 \/ w.left = 0 THEN w
           ELSE IF notional >= w.left
                THEN [left |-> 0, quote |-> w.quote + w.left,
                      base |-> w.base + (w.left * One) \div l.price]
                ELSE [left |-> w.left - notional, quote |-> w.quote + notional,
                      base |-> w.base + l.qty * One]
      walked[k \in 0..Len(levels)] ==
        IF k = 0 THEN [left |-> target, quote |-> 0, base |-> 0]
        ELSE take(walked[k - 1], levels[k])
      end == walked[Len(levels)]
  IN IF target <= 0 \/ end.base = 0 THEN None
     ELSE [vwap |-> (end.quote * One * Scale) \div end.base,
           filled |-> end.quote, capped |-> end.left > 0]

-----------------------------------------------------------------------------
(* executable_spread, pair_economics *)

\* Mutant: each leg keeps the price of its own size.
ExecutableOwnSizes(asks, bids, target, fees) ==
  LET buy == Walk(asks, target)
      sell == Walk(bids, target)
  IN IF buy = None \/ sell = None THEN None
     ELSE LET gross == Gain(sell.vwap, buy.vwap)
          IN [vwap_buy |-> buy.vwap, vwap_sell |-> sell.vwap, gross |-> gross,
              net |-> gross - fees, notional |-> Smaller(buy.filled, sell.filled),
              capped |-> buy.capped \/ sell.capped]

\* Both legs are priced at the size the thinner one supplies.
ExecutableSpread(asks, bids, target, fees) ==
  LET buy == Walk(asks, target)
      sell == Walk(bids, target)
  IN IF buy = None \/ sell = None THEN None
     ELSE LET size  == Smaller(buy.filled, sell.filled)
              b     == IF size < target THEN Walk(asks, size) ELSE buy
              s     == IF size < target THEN Walk(bids, size) ELSE sell
              gross == Gain(s.vwap, b.vwap)
          IN [vwap_buy |-> b.vwap, vwap_sell |-> s.vwap, gross |-> gross,
              net |-> gross - fees, notional |-> size,
              capped |-> buy.capped \/ sell.capped]

\* An entry, long on buy's book and short on sell's, and closing both again.
PairEconomics(entry, buy, sell, fees, convergence, carry) ==
  LET longExit  == Walk(buy.bids, entry.notional)
      shortExit == Walk(sell.asks, entry.notional)
      roundTrip == entry.net - convergence - fees - carry
  IN [entry |-> entry,
      out |-> IF longExit # None /\ shortExit # None
              THEN Gain(longExit.vwap, shortExit.vwap) - fees
              ELSE -entry.gross - fees,
      round_trip |-> roundTrip,
      profit |-> roundTrip * entry.notional]
=============================================================================
