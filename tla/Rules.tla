--------------------------------- MODULE Rules ---------------------------------
(***************************************************************************)
(* The evaluation of one instrument for one client                         *)
(* (crates/screener/src/rules.rs), with the chart's and the dashboard's    *)
(* reading of the same snapshot (chart.rs, rest.rs).  The books, the       *)
(* statistics, the transfer statuses and the configuration change under    *)
(* the screener one at a time; every evaluation reads them as they are.    *)
(*                                                                         *)
(* A snapshot iterates a hash map, so pairs that tie are found in any      *)
(* order: the evaluation is a set of outcomes.                             *)
(***************************************************************************)
EXTENDS Executable

CONSTANTS
  Venues,
  Quotes,        \* what a venue may quote, usable as MarketState judges it
  StatsValues,   \* what SpreadDynamics may compute
  Transfers,     \* what the transfer store may hold
  Configs,       \* what a client may subscribe with
  Base, Kind,    \* the instrument
  DefaultFee     \* DEFAULT_TAKER_FEE_STR

Maybe(S) == S \cup {None}

FundingInfo == [rate : Int, interval : Int]

\* A side is never empty and best first, as the connectors leave it (util.rs:30-39,
\* book.rs:50-58).
Level == [price : Nat \ {0}, qty : Nat \ {0}]
Side == Seq(Level) \ {<<>>}
Asks == {s \in Side : \A j \in DOMAIN s : \A i \in 1..j : s[i].price <= s[j].price}
Bids == {s \in Side : \A j \in DOMAIN s : \A i \in 1..j : s[i].price >= s[j].price}

ExchangeQuote ==
  [asks : Asks, bids : Bids, funding : Maybe(FundingInfo), volume : Maybe(Nat), oi : Maybe(Nat),
   age : Nat]

\* scale is the dispersion a deviation is measured in, with its floor.
SpreadStats == [baseline : Int, scale : Nat \ {0}, quiet : Nat, episode_ms : Nat]

\* The chains open for deposits and for withdrawals.
TransferStatus == [deposit : SUBSET STRING, withdraw : SUBSET STRING]

\* The fields the evaluation uses; those of the engine are in ScreenerEngine.
ClientConfig ==
  [exchanges : SUBSET Venues, allow : SUBSET STRING, deny : SUBSET STRING,
   market_pairs : SUBSET ({"perp", "spot"} \X {"perp", "spot"}),
   min_volume : Nat, max_volume : Maybe(Nat), min_oi : Maybe(Nat),
   min_net : Int, alert_net : Int, max_net : Int, target : Int, min_notional : Int,
   depth_levels : Nat, min_round_trip : Int,
   taker_fee : [Venues -> Maybe(Int)],
   include_funding : BOOLEAN, min_funding_apr : Int, hold_hours : Int,
   include_funding_cost : BOOLEAN, require_transferable : BOOLEAN, require_network : BOOLEAN,
   max_skew : Nat, max_deviation : Maybe(Int), dynamics : BOOLEAN, max_baseline : Int,
   min_spike_z : Int, bypass_mult : Maybe(Int), max_duration : Nat, min_samples : Nat]

ASSUME RulesAssumption ==
  /\ IsFiniteSet(Venues)
  /\ Quotes \subseteq ExchangeQuote
  /\ \A q \in Quotes : \A side \in {q.asks, q.bids} : \A l \in Range(side) : One % l.price = 0
  /\ StatsValues \subseteq SpreadStats
  /\ Transfers \subseteq [Venues -> Maybe(TransferStatus)]
  /\ Configs \subseteq ClientConfig
  /\ \A V \in SUBSET Venues : None \notin [V -> [ask : Leg, bid : Leg]]
  /\ None \notin [in : Int, out : Int, notional : Nat, capped : BOOLEAN]
  /\ Base \in STRING /\ Kind \in {"perp", "spot"} /\ DefaultFee \in Nat

VARIABLES
  quotes,     \* InstrumentSnapshot.quotes, the usable ones
  stats,      \* InstrumentSnapshot.stats
  transfer,   \* TransferStore.statuses of the settlement asset
  cfg         \* the ClientConfig in force

rulesVars == <<quotes, stats, transfer, cfg>>

-----------------------------------------------------------------------------
(* ClientConfig *)

taker(c, x) == IF c.taker_fee[x] # None THEN c.taker_fee[x] ELSE DefaultFee

Fees(c, x, y) == taker(c, x) + taker(c, y)

allows_symbol(c, base) == base \notin c.deny /\ (c.allow = {} \/ base \in c.allow)

allows_market_pair(c, buy, sell) == <<buy, sell>> \in c.market_pairs

validate(c) ==
  /\ c.exchanges # {} /\ c.market_pairs # {}
  /\ c.max_volume # None => c.max_volume >= c.min_volume
  /\ 0 <= c.min_net /\ c.min_net <= c.max_net /\ c.min_net <= c.alert_net
  /\ c.target > 0 /\ c.depth_levels > 0

Screened == allows_symbol(cfg, Base) /\ allows_market_pair(cfg, Kind, Kind)

Usable == {x \in Venues : quotes[x] # None /\ x \in cfg.exchanges}

-----------------------------------------------------------------------------
(* Price consensus *)

\* Twice the mid price; a usable book has both sides.
Mid2(x) == quotes[x].bids[1].price + quotes[x].asks[1].price

\* The k-th of the mids in ascending order.
SortedMid2(V, k) ==
  CHOOSE m \in {Mid2(x) : x \in V} :
    /\ Cardinality({x \in V : Mid2(x) < m}) < k
    /\ Cardinality({x \in V : Mid2(x) <= m}) >= k

\* Four times the median of the mids.
ConsensusMid4(V) ==
  LET n == Cardinality(V)
  IN SortedMid2(V, (n + 1) \div 2) + SortedMid2(V, n \div 2 + 1)

Deviates(m4, c4) == (IF m4 > c4 THEN m4 - c4 ELSE c4 - m4) * Pct > cfg.max_deviation * c4

\* Mutant: the highest mid is the consensus.
DropAgainstHighest(V) ==
  IF Cardinality(V) < 3 \/ cfg.max_deviation = None THEN V
  ELSE {x \in V : ~Deviates(2 * Mid2(x), 2 * Max({Mid2(y) : y \in V}))}

DropPriceOutliers(V) ==
  IF Cardinality(V) < 3 \/ cfg.max_deviation = None THEN V
  ELSE {x \in V : ~Deviates(2 * Mid2(x), ConsensusMid4(V))}

-----------------------------------------------------------------------------
(* Pairing *)

cost_over(f, hours) ==
  IF f = None THEN 0 ELSE IF f.interval <= 0 THEN f.rate ELSE (f.rate * hours) \div f.interval

FundingCost(b, s) ==
  IF cfg.include_funding_cost
  THEN cost_over(quotes[b].funding, cfg.hold_hours) - cost_over(quotes[s].funding, cfg.hold_hours)
  ELSE 0

LegSkew(b, s) ==
  LET d == quotes[b].age - quotes[s].age IN IF d < 0 THEN -d ELSE d

Skewed(b, s) == cfg.max_skew > 0 /\ LegSkew(b, s) > cfg.max_skew

PairsOf(V) == {p \in V \X V : p[1] # p[2]}

Convergence == IF stats = None \/ stats.baseline < 0 THEN 0 ELSE stats.baseline

\* The pairs that have an executable spread, and what it is.
Spreads(pairs) ==
  {c \in {[buy |-> p[1], sell |-> p[2],
           entry |-> ExecutableSpread(quotes[p[1]].asks, quotes[p[2]].bids, cfg.target,
                                      Fees(cfg, p[1], p[2]))] : p \in pairs} : c.entry # None}

\* Candidate
Candidates(pairs) ==
  {[buy |-> c.buy, sell |-> c.sell,
    econ |-> PairEconomics(c.entry, quotes[c.buy], quotes[c.sell], Fees(cfg, c.buy, c.sell),
                           Convergence, FundingCost(c.buy, c.sell))] : c \in Spreads(pairs)}

\* Those with the largest value; the loops keep the first they meet.
Best(S, Value(_)) == {c \in S : \A o \in S : Value(o) <= Value(c)}

Widest(S) == Best(S, LAMBDA c : c.entry.net)

annualized(f) == IF f.interval <= 0 THEN f.rate ELSE (f.rate * 24 * 365) \div f.interval

\* best_funding_diff with its floor.
FundingSignals(V) ==
  LET apr == [x \in {v \in V : quotes[v].funding # None} |-> annualized(quotes[x].funding)]
      pairs == {p \in PairsOf(DOMAIN apr) :
                  /\ \A x \in DOMAIN apr : apr[p[1]] <= apr[x] /\ apr[x] <= apr[p[2]]
                  /\ apr[p[1]] < apr[p[2]]
                  /\ apr[p[2]] - apr[p[1]] >= cfg.min_funding_apr}
  IN IF cfg.include_funding /\ pairs # {} THEN pairs ELSE {None}

-----------------------------------------------------------------------------
(* classify *)

min_opt(a, b) == IF a = None THEN b ELSE IF b = None THEN a ELSE Smaller(a, b)
max_opt(a, b) == IF a = None THEN b ELSE IF b = None THEN a ELSE IF a <= b THEN b ELSE a

Under(v, floor) == v # None /\ v < floor
Over(v, ceiling) == v # None /\ v > ceiling

is_transferable(st) == st.deposit # {} /\ st.withdraw # {}

has_common_transfer_route(from, to) == from.withdraw \cap to.deposit # {}

NotTransferable(b, s) ==
  ~(/\ transfer[b] # None /\ transfer[s] # None
    /\ is_transferable(transfer[b]) /\ is_transferable(transfer[s]))

NoCommonNetwork(b, s) ==
  ~(/\ transfer[b] # None /\ transfer[s] # None
    /\ \/ has_common_transfer_route(transfer[b], transfer[s])
       \/ has_common_transfer_route(transfer[s], transfer[b]))

\* The statistics count once the warmup is over.
Warm == cfg.dynamics /\ stats # None /\ stats.quiet >= cfg.min_samples

\* The z-score of a client's own spread; stats.scale is the floored dispersion.
IsSpike(econ) == econ.entry.net - stats.baseline >= cfg.min_spike_z * stats.scale

StrongEdge(econ) ==
  cfg.bypass_mult # None /\ econ.round_trip >= cfg.min_round_trip * cfg.bypass_mult

TooLittleTraded(b, s) ==
  cfg.min_volume > 0 /\ Under(min_opt(quotes[b].volume, quotes[s].volume), cfg.min_volume)

TooMuchTraded(b, s) ==
  cfg.max_volume # None /\ Over(max_opt(quotes[b].volume, quotes[s].volume), cfg.max_volume)

\* The reasons to reject in the order they are tried.
Checks(b, s, econ) ==
  LET oi == min_opt(quotes[b].oi, quotes[s].oi)
  IN << <<"BelowMinSpread",       econ.entry.net < cfg.min_net>>,
        <<"AboveMaxSpread",       econ.entry.net > cfg.max_net>>,
        <<"LegSkew",              Skewed(b, s)>>,
        <<"NegativeRoundTrip",    econ.round_trip < cfg.min_round_trip>>,
        <<"InsufficientDepth",    econ.entry.notional < cfg.min_notional>>,
        <<"BelowMinVolume",       TooLittleTraded(b, s)>>,
        <<"AboveMaxVolume",       TooMuchTraded(b, s)>>,
        <<"BelowMinOpenInterest", cfg.min_oi # None /\ cfg.min_oi > 0 /\ Under(oi, cfg.min_oi)>>,
        <<"PersistentWide",       Warm /\ stats.baseline > cfg.max_baseline>>,
        <<"NotASpike",            Warm /\ ~IsSpike(econ) /\ ~StrongEdge(econ)>>,
        <<"TooPersistent",        Warm /\ stats.episode_ms > cfg.max_duration>>,
        <<"NotTransferable",      cfg.require_transferable /\ NotTransferable(b, s)>>,
        <<"NoCommonNetwork",      cfg.require_network /\ NoCommonNetwork(b, s)>> >>

\* The first one that holds counts.
Classify(b, s, econ) ==
  LET checks == Checks(b, s, econ)
      failing == {i \in DOMAIN checks : checks[i][2]}
  IN IF failing = {} THEN "Signal" ELSE checks[Min(failing)][1]

-----------------------------------------------------------------------------
(* evaluate *)

\* Too few venues are left: the raw best pairing is reported.
OutlierRejections ==
  {[buy |-> c.buy, sell |-> c.sell, entry |-> c.entry, reason |-> "PriceOutlier", funding |-> None] :
     c \in Widest(Spreads(PairsOf(Usable)))}

\* The most profitable candidates of those deep enough, or of all when none is.
Chosen(candidates) ==
  LET deep == {c \in candidates : c.econ.entry.notional >= cfg.min_notional}
  IN Best(IF deep # {} THEN deep ELSE candidates, LAMBDA c : c.econ.profit)

\* The outcomes of evaluate; none at all stands for its None.
Evaluations ==
  LET kept == DropPriceOutliers(Usable)
  IN IF ~Screened \/ Cardinality(Usable) < 2 THEN {}
     ELSE IF Cardinality(kept) < 2 THEN OutlierRejections
     ELSE {[buy |-> cf[1].buy, sell |-> cf[1].sell, entry |-> cf[1].econ.entry,
            reason |-> Classify(cf[1].buy, cf[1].sell, cf[1].econ), funding |-> cf[2]] :
             cf \in Chosen(Candidates(PairsOf(kept))) \X FundingSignals(kept)}

-----------------------------------------------------------------------------
(* The chart and the dashboard *)

\* Mutant: the wrong-token venues stay in the series.
BestSpreadPointsOfAll ==
  Widest(Spreads({p \in PairsOf(Usable) : ~Skewed(p[1], p[2])}))

\* best_spread_point: the widest pair, whatever the alert filters say of it.
BestSpreadPoints ==
  Widest(Spreads({p \in PairsOf(DropPriceOutliers(Usable)) : ~Skewed(p[1], p[2])}))

\* summary_row
SummaryRows ==
  {r \in BestSpreadPoints :
     /\ Screened
     /\ r.entry.net >= cfg.min_net /\ r.entry.net <= cfg.max_net
     /\ ~TooLittleTraded(r.buy, r.sell) /\ ~TooMuchTraded(r.buy, r.sell)}

\* venue_sample: every venue that can be both bought and sold on, at its own size.
VenueSample ==
  LET ask(x) == Walk(quotes[x].asks, cfg.target)
      bid(x) == Walk(quotes[x].bids, cfg.target)
      there == {x \in Usable : ask(x) # None /\ bid(x) # None}
  IN IF Cardinality(there) < 2 THEN None
     ELSE [x \in there |-> [ask |-> ask(x), bid |-> bid(x)]]

\* Mutant: the short leg is read at the price to buy it back.
ChartPointOneSide(sample, long, short) ==
  IF long = short \/ {long, short} \cap DOMAIN sample # {long, short} THEN None
  ELSE [in  |-> Gain(sample[short].ask.vwap, sample[long].ask.vwap) - Fees(cfg, long, short),
        out |-> Gain(sample[long].bid.vwap, sample[short].ask.vwap) - Fees(cfg, long, short),
        notional |-> Smaller(sample[long].ask.filled, sample[short].bid.filled),
        capped |-> sample[long].ask.capped \/ sample[short].bid.capped]

\* chart_point of a fixed pair; None where the line has a gap.
ChartPoint(sample, long, short) ==
  IF long = short \/ {long, short} \cap DOMAIN sample # {long, short} THEN None
  ELSE [in  |-> Gain(sample[short].bid.vwap, sample[long].ask.vwap) - Fees(cfg, long, short),
        out |-> Gain(sample[long].bid.vwap, sample[short].ask.vwap) - Fees(cfg, long, short),
        notional |-> Smaller(sample[long].ask.filled, sample[short].bid.filled),
        capped |-> sample[long].ask.capped \/ sample[short].bid.capped]

\* best_pair: what a chart shows when the client names no pair.
best_pair(sample) ==
  Best(PairsOf(DOMAIN sample), LAMBDA p : ChartPoint(sample, p[1], p[2]).in)

-----------------------------------------------------------------------------
(* What changes under the screener *)

RulesInit ==
  /\ quotes = [x \in Venues |-> None] /\ stats = None
  /\ transfer = [x \in Venues |-> None]
  /\ cfg \in {c \in Configs : validate(c)}

\* A venue's book comes, changes, or goes stale.
QuoteChanges ==
  /\ \E x \in Venues, q \in Quotes \cup {None} : quotes' = [quotes EXCEPT ![x] = q]
  /\ UNCHANGED <<stats, transfer, cfg>>

StatsChange ==
  /\ stats' \in StatsValues
  /\ UNCHANGED <<quotes, transfer, cfg>>

\* Statuses are only ever put in; a venue that does not answer keeps its last one.
TransferPolled ==
  /\ transfer' \in {t \in Transfers : \A x \in Venues : t[x] = None => transfer[x] = None}
  /\ UNCHANGED <<quotes, stats, cfg>>

Retuned ==
  /\ cfg' \in {c \in Configs : validate(c)}
  /\ UNCHANGED <<quotes, stats, transfer>>

RulesNext == QuoteChanges \/ StatsChange \/ TransferPolled \/ Retuned

RulesSpec == RulesInit /\ [][RulesNext]_rulesVars

-----------------------------------------------------------------------------
(* What an evaluation promises *)

\* f[1] + ... + f[k], and the whole sum.
Total(f, k) ==
  LET sum[j \in 0..Len(f)] == IF j = 0 THEN 0 ELSE sum[j - 1] + f[j]
  IN sum[k]
Sum(f) == Total(f, Len(f))

Notional(l) == l.price * l.qty
Available(levels) == Sum([i \in 1..Len(levels) |-> Notional(levels[i])])

\* Base traded when split[i] of quote goes to level i.
Traded(levels, split) == Sum([i \in 1..Len(levels) |-> (split[i] * One) \div levels[i].price])

\* The ways to split an amount over the levels that leave at most one of them
\* neither empty nor full: what is traded is linear in the split, so the best
\* and the worst split are among these.
Splits(levels, amount) ==
  LET all == 1..Len(levels)
      full(F) == [j \in all |-> IF j \in F THEN Notional(levels[j]) ELSE 0]
  IN {s \in UNION {{[full(F) EXCEPT ![i] = amount - Sum(full(F))] : F \in SUBSET (all \ {i})} : i \in all} :
        \A i \in all : s[i] \in 0..Notional(levels[i])}

\* The reported size and prices are real: both books can fill the size, one of
\* them can fill no more of the target, and no other way to take the levels
\* buys more or sells less for the same money (executable.rs:31-68, 80-125; the
\* "real vs mirage" claim of its header).
SizeIsReal ==
  \A e \in Evaluations :
    LET size  == e.entry.notional
        asks  == quotes[e.buy].asks
        bids  == quotes[e.sell].bids
        priced(base) == (size * One * Scale) \div base
    IN /\ size = Min({cfg.target, Available(asks), Available(bids)})
       /\ e.entry.capped <=> size < cfg.target
       /\ e.entry.vwap_buy = priced(Max({Traded(asks, s) : s \in Splits(asks, size)}))
       /\ e.entry.vwap_sell = priced(Min({Traded(bids, s) : s \in Splits(bids, size)}))

\* Venues whose mids all lie within the permitted deviation of each other.
Agree(A) ==
  LET low == Min({Mid2(x) : x \in A})
      high == Max({Mid2(x) : x \in A})
  IN (high - low) * Pct <= cfg.max_deviation * low

\* A mid beyond the permitted deviation from every one of A's.
FarFrom(x, A) ==
  LET low == Min({Mid2(y) : y \in A})
      high == Max({Mid2(y) : y \in A})
  IN \/ (Mid2(x) - high) * Pct > cfg.max_deviation * high
     \/ (low - Mid2(x)) * Pct > cfg.max_deviation * low

\* When most venues agree on the price, none of them is ever dropped, no venue
\* far off from them is a leg of a spread or of a funding signal or feeds the
\* chart's history, and the evaluation does not end as a price outlier: a wrong
\* token or a frozen market cannot outvote the others
\* (drop_price_outliers, rules.rs:236-281, 66-79, 541-552).
MajorityIsKept ==
  cfg.max_deviation # None /\ Cardinality(Usable) >= 3 =>
    LET majorities == {A \in SUBSET Usable : 2 * Cardinality(A) > Cardinality(Usable) /\ Agree(A)}
        signal(f) == IF f = None THEN {} ELSE Range(f)
    IN /\ \A A \in majorities : A \subseteq DropPriceOutliers(Usable)
       /\ \A e \in Evaluations, A \in majorities :
            /\ e.reason # "PriceOutlier"
            /\ \A x \in {e.buy, e.sell} \cup signal(e.funding) : ~FarFrom(x, A)
       /\ \A p \in BestSpreadPoints, A \in majorities : \A x \in {p.buy, p.sell} : ~FarFrom(x, A)

\* Whoever gets a signal can see it: its pair has a chart point of the same
\* size, with the same entry spread, or at most that when a book is too thin for
\* the target, and the pair a chart opens with is at least as wide; and the
\* series behind the statistics, the history and the dashboard shows at least as
\* much (chart.rs:17-90, rules.rs:530-640).
SignalIsCharted ==
  \A e \in Evaluations : e.reason = "Signal" =>
    /\ VenueSample # None
    /\ \A sample \in {VenueSample} : \A point \in {ChartPoint(sample, e.buy, e.sell)} :
         /\ point # None
         /\ point.notional = e.entry.notional /\ point.capped = e.entry.capped
         /\ IF point.capped THEN point.in <= e.entry.net ELSE point.in = e.entry.net
         /\ \A p \in best_pair(sample) : ChartPoint(sample, p[1], p[2]).in >= point.in
    /\ BestSpreadPoints # {}
    /\ \A p \in BestSpreadPoints \cup SummaryRows : p.entry.net >= e.entry.net
=============================================================================
