-------------------------------- MODULE MCRules --------------------------------
(* An instance of Rules for TLC. *)
EXTENDS Rules, TLC

CONSTANTS v1, v2, v3, v4

SomeVenues == {v1, v2, v3, v4}
Lvl(p, q) == [price |-> p, qty |-> q]
Rate(r, h) == [rate |-> r, interval |-> h]

Cheap == [asks |-> <<Lvl(21, 5)>>, bids |-> <<Lvl(20, 5)>>, funding |-> None,
          volume |-> 9, oi |-> None, age |-> 0]
Rich == [Cheap EXCEPT !.asks = <<Lvl(24, 5)>>, !.bids = <<Lvl(22, 5)>>]

\* Cheap and rich books: one in two levels, one too thin for the target, one little
\* traded, one observed a while ago, some paying funding; and a wrong token.
SomeQuotes ==
  {Cheap,
   [Rich EXCEPT !.bids = <<Lvl(24, 1), Lvl(22, 5)>>, !.funding = Rate(4, 8)],
   [asks |-> <<Lvl(20, 1), Lvl(22, 1)>>, bids |-> <<Lvl(20, 1)>>, funding |-> None,
    volume |-> None, oi |-> None, age |-> 0],
   [Rich EXCEPT !.funding = Rate(-4, 4), !.volume = 1, !.oi = 1],
   [Rich EXCEPT !.volume = 10, !.age = 5],
   [Cheap EXCEPT !.asks = <<Lvl(42, 5)>>, !.bids = <<Lvl(40, 5)>>]}

\* In warmup, a noisy series, a persistently wide one.
SomeStats ==
  {[baseline |-> -3, scale |-> 2, quiet |-> 1, episode_ms |-> 0],
   [baseline |-> 5, scale |-> 30, quiet |-> 4, episode_ms |-> 3],
   [baseline |-> 40, scale |-> 1, quiet |-> 4, episode_ms |-> 9]}

On(chain) == [deposit |-> {chain}, withdraw |-> {chain}]
\* Nothing known; one venue on a chain of its own.
SomeTransfers ==
  {[x \in SomeVenues |-> None]}
  \cup {[x \in SomeVenues |-> IF x = y THEN On("TRX") ELSE On("ETH")] : y \in SomeVenues}

Default ==
  [exchanges |-> SomeVenues, allow |-> {}, deny |-> {}, market_pairs |-> {<<"perp", "perp">>},
   min_volume |-> 2, max_volume |-> None, min_oi |-> None,
   min_net |-> 6, alert_net |-> 10, max_net |-> 250, target |-> 60, min_notional |-> 30,
   depth_levels |-> 20, min_round_trip |-> 1, taker_fee |-> [x \in SomeVenues |-> None],
   include_funding |-> TRUE, min_funding_apr |-> 150, hold_hours |-> 8,
   include_funding_cost |-> TRUE, require_transferable |-> FALSE, require_network |-> FALSE,
   max_skew |-> 2, max_deviation |-> 150, dynamics |-> TRUE, max_baseline |-> 10,
   min_spike_z |-> 3, bypass_mult |-> 2, max_duration |-> 5, min_samples |-> 2]

\* The default; one venue disabled and no fees on the others; everything
\* required; nothing filtered that may be left off.
SomeConfigs ==
  {Default}
  \cup {[Default EXCEPT !.exchanges = SomeVenues \ {x}, !.taker_fee = [y \in SomeVenues |-> IF y = x THEN None ELSE 0],
                        !.max_deviation = None] : x \in SomeVenues}
  \cup {[Default EXCEPT !.require_transferable = TRUE, !.require_network = TRUE, !.min_notional = 50,
                        !.min_volume = 0, !.min_oi = 2, !.bypass_mult = None, !.max_baseline = 50],
        [Default EXCEPT !.min_volume = 0, !.max_volume = 9, !.max_skew = 0, !.dynamics = FALSE,
                        !.max_deviation = 400, !.include_funding = FALSE,
                        !.include_funding_cost = FALSE, !.max_net = 2000],
        [Default EXCEPT !.deny = {"XYZ"}]}

Interchangeable == Permutations(SomeVenues)
=============================================================================
