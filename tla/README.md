# TLA+ models of the arbitrage screener

This directory models the concurrent and stateful core of the crypto perpetual
arbitrage screener in this repository, checks it with TLC and proves its central
results with TLAPS. `PROJECT.json` is the index: components, runs, the lines of
source each definition stands for, findings, hazards and theorems. Paths below
are relative to the repository (`crates/...`, `bin/...`).

    tlc -config MCScreener_episode.cfg MCScreener      # one run
    tlapm ScreenerClientProofs.tla                     # the proofs about one component

## 1. The system

Eight venue connectors keep WebSocket sessions open and turn messages into
updates. All updates go through one bounded channel to a drain loop, which applies
them to the shared market state and announces changed instruments on a broadcast.
A sampler reads the market state once a second into the spread tape (charts) and
the spread statistics. Each WS session owns a screening engine that is run on every
announced instrument; a server-side evaluator runs one more engine on a timer. Both
screen with the client config, of which the config store keeps the persisted copy.

| Component | Source | State | Operations | What makes it correct |
|---|---|---|---|---|
| Screening engine | `crates/screener/src/{lib,hysteresis}.rs` | per instrument: peak, episode opening, last report, level, rejection streak; one rate window | `on_instrument` | no report is repeated or lost: crossings are not consumed by a gate, episodes are separate, one notification per episode, the cap |
| Rules, economics, funding, chart | `crates/screener/src/{rules,executable,funding,chart}.rs`, `crates/domain/src/{spread,transfer}.rs` | none (pure) | `evaluate`, `best_spread_point`, `summary_row`, `venue_sample`, `chart_point`, `best_pair` | size and price are executable, a bad quote cannot outvote the others, signal and chart agree |
| Client config | `crates/screener/src/config.rs` | none | `validate`, lookups | thresholds ordered |
| Config store | `crates/persistence/src/config_store.rs` | `(generation, config)` behind a lock; file, temporary file | `load_or`, `get`, `snapshot`, `set` | one atomic config that survives restarts |
| WS session | `crates/api/src/{ws,session}.rs` | engine, outbound queue, watches, forwarder and writer tasks | subscribe, watch, unwatch, ping, events, close | gapless streams, no orphan task, bounded watches, nobody blocked for ever |
| Spread tape | `crates/spread_tape/src/lib.rs` | ring buffer and broadcast per instrument; long-history buckets | `record`, `watch`, `record_point`, `long_history`, `history` | backfill and live join; retention covers the window; buckets exact and in order |
| Connector driver | `crates/connectors/src/common.rs` | attempt or session, backoff | dial, subscribe, read, ping and pong, reconnect, stop | a clean book per session, reconnects for ever, stops when told unless a peer never answers |
| Delta books, venues | `crates/connectors/src/{book,bybit,...}.rs` | book per instrument | `parse`, `on_reconnect` | mirrors the venue |
| Ingest manager | `crates/ingest/src/manager.rs` | bounded channel, supervisors | `spawn` | backpressure without loss |
| Market state | `crates/market_state/src/{lib,aggregate}.rs` | books, funding, tickers, last message per venue | `apply`, `snapshot` | a usable quote is current |
| Spread dynamics | `crates/market_state/src/dynamics.rs` | sample window, episode clock | `record`, `stats` | baseline excludes the spike it is compared with |
| Universe | `crates/universe/src` | listings and contract sizes | `set_exchange`, queries, poller | readers see what the venues last answered, subscriptions fit it |
| Transfer status | `crates/transfer_status/src` | status per venue and asset | `upsert`, `get`, poller | never looser than the venue |
| Server wiring | `bin/server/src/{main,settings}.rs` | tasks above | drain loop, sampler, evaluator, pollers, shutdown | tasks follow config and shutdown |
| REST, auth, CSV log | `crates/api/src/{rest,lib}.rs`, `crates/auth`, `crates/persistence/src/lib.rs` | CSV file | read-only handlers, `check`, `record` | - |

Hard behaviour: gates whose order matters within one call; the config read by one
task while another replaces it; file operations of concurrent writers and crashes
between them; a queue shared by replies, events and ticks; abortion of a task that
is being polled; reconnects with unread messages and queued updates; staleness
judged from two clocks. `PROJECT.json` lists each hazard at its line with the
property that would catch it, or why none does yet.

## 2. Modules

| Module | Models | Correspondence |
|---|---|---|
| `ScreenerEngine` | `ScreenerEngine` of the screener crate | `st`, `rate` are the engine's fields, `event` the result of a call. Each path through `on_instrument` is an action: `OnReject`, `OnHeld` (a gate), `OnSuppressed` (hysteresis), `OnDenied` (cap), `OnPush` |
| `ScreenerClient` | what the receiver of the events observes | the engine unchanged, with histories: the last evaluation, what the episode was told, the age of the last report but one, reports per unit of time |
| `AtomicConfig` | abstract: one live and one saved config | the promise in the header of `config_store.rs` |
| `ConfigStore` | `ConfigStore` with its file system | `set` is split at the release of the lock and at each file operation; names refer to inodes, so that writers who share the temporary name can write into each other's file. Refines `AtomicConfig` |
| `Subscriptions` | sessions and the evaluator as users of the store | extends `ConfigStore`; an engine is its config and whether it has reported anything |
| `WsSession` | the stream loop, its queue, forwarders and writer, with the tape they read | one action per handler up to its await; an await on the queue is an action of its own (`Emit`, `Send`, `Park`) |
| `Books` | `DeltaBook`, `TopBook` | a side is the set of its price levels |
| `Connector` | `run_ws_exchange`, `connect_once`, `Backoff`, a delta venue's `parse` | `link` is the await the task is at: between attempts (`idle`), URL to last subscription frame (`dialing`), the select of the session (`up`), a ping or pong (`writing`), the close frame (`closing`). Where the code looks at the channel, the action does, and nowhere else. The venue is external: it owns a book, sends snapshots and deltas |
| `MarketState` | `apply`, the freshness part of `snapshot` | instants are ages |
| `MarketFeed` | connector, channel, drain loop and market state together | extends `Connector` and `MarketState` |
| `SpreadTape` | both tiers of the tape, the sampler, the queries | `buffer`, `buckets`, `current` are the fields of `InstrTape` and `InstrHistory`; `clock` is the wall clock, `due` the ticks the sampler's timer is behind |
| `SpreadDynamics` | `SpreadHistory` and the sampler | `samples`, `open`, `last` are the fields of `Series`; time is monotonic; statistics are doubled to stay integers, medians are written by ranks |
| `Executable` | `executable.rs`: the walk through a book, the spread of two legs, the round trip | operators; prices, quantities and amounts are integers, a base amount is held in units fine enough to be exact for the prices of an instance |
| `Rules` | `evaluate`, `best_spread_point`, `summary_row`, `venue_sample`, `chart_point`, `best_pair`, `ClientConfig` | the variables are what an evaluation reads: quotes, statistics, transfer statuses, config. Each changes on its own. Ties are broken by the order of a hash map in the code, so an evaluation is a set of outcomes. The consensus is written by ranks, a number with fewer than `k` mids below it and at least `k` up to it, which is the `k`-th of the sorted list |
| `Discovery` | the universe store, its poller, the symbol map and contract sizes fixed at startup | `listings`, `sizes` are the maps; `set_exchange` is `Unlist` (an entry at a time), `Forget`, `Insert` (a listing at a time), `Prune`. The poller first builds an HTTP client (`PollerStarts`), or is over (`PollerDisabled`) |
| `MC...` | instances for TLC | - |
| `...Proofs` | theorems about the module of that name (section 5) | `SubscriptionsProofs` is also about the store, `MarketFeedProofs` also about the connector |

Two conventions. *Ages*: the code keeps instants and only ever compares their
distance from now with a threshold, so the models keep that distance; an age stops
at `AgeCap`, beyond every threshold, which leaves time unbounded and the state space
finite. *Mutants*: an operator commented `Mutant:` is a plausible slip of the code
next to the definition it would replace; no specification uses it. Substituting
it makes the property named in `PROJECT.json` fail, which shows that the property
depends on that part of the code.

## 3. Runs that pass

`screener_episode` - one instrument, five nets around both thresholds, every gate
non-trivial (lifetime 2, cooldown 3, two reports per span of 5, three rejections to
close). `NoBurst`: of three consecutive reports the first and the third are a
cooldown apart, although an upgrade ignores it. `NoRepeat`: within an episode a
report widens by more than the step over everything reported, or is the upgrade.
`EpisodesAreSeparate`: nothing of a closed episode is left. All nets are above the
floor here; the boundary itself is the finding `screener_graze`.

`screener_shared` - two instruments under one cap, with the floor itself among the
nets. `PeakIsReported`: the peak is always something the client was told in
this episode. `AlertIsLatched`: the level is alert exactly when the episode was
notified. `AtMostTwoCaps`: the window is tumbling and restarts on use, so any span of
its length holds at most twice the cap, not the cap, as "Rolling" in
`screener/src/lib.rs:253` would suggest. `SustainedIsReported` and `SustainedIsNotified`: a
spread that stays above the floor (at the alert level) is eventually reported (notified); a
gate or a denial delays the crossing but does not consume it. One exception is part of the
properties, because the code has it: other instruments that take the last place of the window
again and again (`CrowdedOut`) can starve this one. The instance contains that starvation:
without the exception TLC finds either property violated here.

`subscriptions_engines` - one session, the evaluator, failing file operations,
crashes. `ImplementsAtomic`: the store refines `AtomicConfig`, so the file only
moves to the live config. `FileIsWhole`: what a restart reads parses.
`SurvivesRestart`: with every `set` returned and no failure logged, a restart resumes
the live config. `GenerationNamesConfig`, `EvaluatorConverges`: equal generations mean
equal configs, and the evaluator ends up with the live one. `KeepaliveKeepsState`: an
unchanged resubscribe keeps the engine. One writer is a bound of substance here: with two
the store fails (`config_stale`).

`ws_watch` - two instruments, two forwarders, a watch limit of one, a queue of two, a
broadcast buffer of one. `StreamsAreContiguous`: everything of a stream between tape
and client is in order and without a gap, unless it lagged or a point was filtered.
`NoOrphans`, `WatchCap`: each running forwarder is registered under its
instrument, and with the one being opened they respect the limit. `NoLeak`: once the session has ended every
forwarder goes. The tapes and the engine stop at the bounds and the session ends, so
deadlock is not checked.

`market_feed` - one instrument of one venue whose book has one bid price and two ask
prices, one of them crossed: one-sided, crossed and sound books. `MirrorsVenue`: the
connector's book plus what is on the socket is the venue's book. `NothingDropped`: an
empty channel means the market state has the connector's latest two-sided book.
`SilentVenueDropsOut`, `FrozenDropsOut`: books of a venue that is not read any more
(disconnected, or a write to it hangs), and of a frozen symbol on a live one, stop being
usable. `Converges`: when the venue's book settles and some session lasts with its writes
returning, the market state ends up with the venue's book. `ShutdownStops`: once the receiver
is dropped the connector ends, be it asleep, reading, blocked on the channel or in an attempt
that then fails or succeeds, and it does not try again. The three waits that look out neither
for the channel nor for a time-out - the attempt up to its last subscription frame, a ping or
pong, the close frame - are its exceptions: one that never returns keeps the connector. TLC
finds the property violated without any one of the three.

`tape` - one instrument whose clock is set back once and whose timer may be two ticks
late. `BucketsAreExact`: minimum, maximum, close, count and venues of every bucket are
those of the points of its interval, except points that a later bucket had overtaken.
`RangeIsComplete`: for each requested window and each client limit, the answer of
`/spread/range` holds every bucket of the window in order; retention by count never cuts
into it. `BackfillIsComplete`: while nobody sets the clock, the ring holds every sample of
the window, bursts included. A clock set forward looks to the tape like ticks without a
pair, which `Sample` has. The slack covers a burst of `MaxDue` ticks only if it is at least
as large; with more than four missed ticks the code's backfill is cut at its old end.

`dynamics` - nets below, between and above two thresholds and beyond the sanity cap, ticks
at the throttle's interval and faster, gaps, and a client that moves the threshold.
`EpisodeIsContinuous`: the episode is open since the first of the unbroken run of
observations above the thresholds of their times. `WindowIsExact`: the retained samples are
observations, at least an interval apart, within the window, and thin it without starving
it. `SpikeLeavesBaseline`: with enough samples from before the episode the baseline is their
median, found from either end; with fewer, a minority of spike samples cannot push it above
what was there. `MinQuiet` is 2 instead of 8, so that both sides of the fallback occur.

`rules` - four venues, any of six books each (cheap, rich, thin, little traded, observed
late, wrong token), three states of the statistics, transfer statuses that appear, eight
configurations; every reason to reject and every branch occurs. `SizeIsReal`: the reported
size is the most both books can fill of the target, and the prices are optimal among all ways
to split that size over the levels. `MajorityIsKept`: with most venues in agreement, none of
them is dropped and no venue far off from them is a leg of an evaluation, of a funding signal
or of the points that feed the series (the pair a chart opens with is not filtered, section 4).
`SignalIsCharted`: for
each signal the chart has a point of that pair with the same size and spread (or less, when a
book is thinner than the target), the pair a chart opens with is at least as wide, and so is
the point that feeds the history and the dashboard. The code's fractions are decimals; the
instance rounds them down to thousandths everywhere alike.

`discovery` - three venues, one counting contracts, two coins, a listing that changes once,
fetches that fail or answer with an error, with and without an anchor and a pinned coin.
`CatalogIsLastAnswer`: readers see each venue with exactly its last answer, only the venue
being replaced with less. `SubscriptionsAreListed`: whatever failed at startup, a venue is
subscribed to what it listed, scaled by the multiplier of that listing, or else nobody was
known to list the coin; discovered coins respect the cap and have enough venues to pair on.
`CatalogCatchesUp`: once the poller has its HTTP client, the catalog catches up with what a
venue lists for as long as the server runs, whatever fetches fail in between, and the poller
stops with the server. The poller that could not build a client is in the run: it is over while
the server runs, the catalog stays as startup left it, and the first half of the property is not
about it.

### Bounds

Two instruments suffice where instruments only meet in a shared counter, queue or
map; nets and ages cover each threshold and both its neighbours. A queue of capacity 1
or 2 is full, empty and in between; the code never looks at how full it is otherwise.
`MaxGen` (sets per run of the server), `MaxSample` and `MaxEvent` (samples and events
of a session), `WireCap` and `QueueCap` are bounds of the models and named so where they are
declared. `Streams` bounds the forwarders alive at a time: an aborted one may overlap its
successor, which two streams allow. `MaxClock`, `MaxTime` and `MaxPoints` end the recording
of a tape or a series after it has wrapped around its capacity and its window; `MaxSteps`
and `MaxDue` limit how often the clock is set and how late the timer is; `MaxChanges` limits
the changes of a listing. The tape and the series stop there, and the poller stops with the
server, so these runs do not check for deadlock.

### Fairness

- `FairClientSpec`: time passes, and an instrument keeps being re-evaluated to its
  current verdict - sessions evaluate on every update and on lag, the evaluator on a timer.
- `FairSubSpec`: the evaluator starts and its timer fires while the server is up.
- `FairSpec` of `WsSession`: tasks that can make progress are polled; the writer
  takes from the queue until its socket fails. Nothing is assumed of the client's requests.
- `FairFeedSpec`: tasks run, time passes and the venue honours a subscription, which is an
  assumption on the outside. The session reads in the end although pings and pongs get
  between (strong fairness: a ping is due only every few seconds). Nothing is assumed of
  how long a handshake or a write takes, or of attempts ever succeeding: that some session
  lasts and that its writes return are hypotheses of `Converges`.
- `DiscSpec`: the refresh goes on, since a request ends by its time-out, and the poller's
  timer fires; whether the poller gets its HTTP client is left open. Shutdown is seen in the
  end although the timer competes with it (strong fairness: `select!` picks at random among the
  ready). A venue that is asked again and again answers properly again and again, which is an
  assumption on the outside.

## 4. Findings

Runs that expect a violation, each of one property that quotes the repository:

- `screener_graze` / `NoRepeat`: a net exactly at `min_net_spread_pct` is a signal for the
  rules but resets the peak, so the next tick repeats a report.
- `config_stale` / `SurvivesRestart`: two concurrent `set` calls may persist in the order
  opposite to the one they adopted in.
- `feed_oneside` / `CurrentUntilTold`: a book that loses a side is not updated, and the
  previous one stays usable.

Seen in the models but without a run:

- A session does not follow a config another session stores (`ws.rs:150`), although every
  consumer is said to read it live (`bin/server/src/main.rs:232-234`).
- After a re-watch, ticks of the replaced stream may arrive behind the new snapshot, with no
  mark of their watch (`ws.rs:257`).
- A full queue drops the newest event (`ws.rs:68`), where `README.md:86` says "latest-wins".
- A stable session that ends with a read error does not reset the backoff (`common.rs:188`),
  where `common.rs:61-62` says a stable session does.
- Transfer statuses are only ever put in: when a venue stops answering, its last status is used
  on (`transfer_status/src/lib.rs:29`).
- The rate window is shared by all instruments and first come, first served
  (`screener/src/lib.rs:254-271`): instruments that close and reopen their episodes can use up
  every window, and a sustained spread elsewhere is then never reported.
- URL request, handshake, subscription frames, pings, pongs and the close frame have no
  time-out and do not look at the channel (`common.rs:214-225, 235, 241, 272`): a peer that does
  not answer holds a connector, also at shutdown.
- A poller that cannot build its HTTP client is disabled for the whole run
  (`universe/src/poller.rs:47-53`): the catalog stays as startup left it, with a warning only.
- With two writers inside `set`, one may write into the config file itself through the shared
  temporary name. Setting the config that is already live advances the generation, so the
  evaluator forgets what it has reported, although it is "rebuilt only when the client
  actually changes the config" (`bin/server/src/main.rs:339`).
- The fetchers do not look at the HTTP status: an error body in JSON reads as an empty list
  (`universe/src/fetchers.rs:66`), which empties the venue's catalog, and at startup costs the
  venue its subscriptions for the whole run. In Bybit's paged list it cuts the list short.
- Discovery that succeeds on one venue only yields no coin at all: the catalog is not empty, so
  the static list is not used, and no coin is on two venues (`main.rs:40`), although the
  fallback is there "so the screener never idles" (`main.rs:84`).
- A coin on a static or pinned list whose listing nobody is known to have is subscribed
  everywhere with the multiplier 1, also on venues that count contracts. A multiplier that a
  venue changes later never reaches the connector.
- A deep pair that loses money is preferred to a thin one that earns some (`rules.rs:134`), so
  `InsufficientDepth` is reported only when no pair is deep enough. As one pair is chosen before
  the filters run, a pair that would be a signal may be hidden behind one that is rejected for
  skew, volume or transfers.
- The pair a chart opens with is chosen without the consensus filter (`chart.rs:97`), so a
  wrong-token venue may be one of its legs.
- `max_book_age_ms` and `depth_levels_n` of the config are used by no evaluation.
- The episode clock runs on across gaps without observations, while `SpreadStats::episode_ms`
  is documented as how long the spread "has continuously exceeded" the threshold.
- A wall clock set forward and back again silences the long history until it has caught up.

## 5. Proofs

Every invariant and action property of the passing runs is proved for all values of the
constants, some under a hypothesis named below. Each module `XProofs` is about the
specification in `X`.

| Module | Theorem | States |
|---|---|---|
| `ScreenerClientProofs` | `TypeCorrect` | `[]ClientTypeOK` |
| | `PeakAnchored` | `[]PeakIsReported` |
| | `EpisodesSeparate` | `[]EpisodesAreSeparate` |
| | `AlertLatched` | `[]AlertIsLatched` |
| | `Spacing` | `NoBurst` |
| | `WideningOnly` | `NoRepeat`, if every accepted net is above the floor |
| | `TwoCaps` | `[]AtMostTwoCaps` |
| `SubscriptionsProofs` | `SubTypeCorrect` | `[]SubTypeOK` |
| | `GenerationsName` | `[]GenerationNamesConfig` |
| | `Keepalive` | `KeepaliveKeepsState` |
| | `WholeFile` | `[]FileIsWhole`, for one writer |
| | `Survival` | `[]SurvivesRestart`, for one writer |
| | `Refinement` | `ImplementsAtomic`, for one writer |
| `WsSessionProofs` | `TypeCorrect` | `[]TypeOK` |
| | `NoneOrphaned` | `[]NoOrphans` |
| | `CapHolds` | `[]WatchCap` |
| | `Contiguous` | `[]StreamsAreContiguous` |
| `MarketFeedProofs` | `FeedTypeCorrect` | `[]FeedTypeOK` |
| | `Mirrors` | `[]MirrorsVenue` |
| | `NoneDropped` | `[]NothingDropped` |
| `SpreadTapeProofs` | `TapeTypes` | `[]TapeTypeOK` |
| | `BucketsExact` | `[]BucketsAreExact` |
| | `RangeComplete` | `[]RangeIsComplete` |
| | `BackfillComplete` | `[]BackfillIsComplete`, if the timer is never later than the slack of the ring |
| `SpreadDynamicsProofs` | `DynTypes` | `[]DynTypeOK` |
| | `EpisodeContinuous` | `[]EpisodeIsContinuous` |
| | `WindowExact` | `[]WindowIsExact` |
| | `BaselineStays` | `[]SpikeLeavesBaseline` |
| `RulesProofs` | `RulesTypes` | `[]RulesTypeOK` |
| | `MajorityStands` | `[]MajorityIsKept` |
| | `SizesAreReal` | `[]SizeIsReal` |
| | `SignalsAreCharted` | `[]SignalIsCharted` |
| `DiscoveryProofs` | `CatalogShowsLastAnswer` | `[]CatalogIsLastAnswer` |
| | `SubscribedAsListed` | `SubscriptionsAreListed` |

### Assumptions

The `ASSUME`s of the modules; the runs evaluate each of them. In substance: `Nets`,
thresholds and prices are integers (the code's decimals are only compared, added and, in
`Rules`, scaled); of the client's config what `validate` or the rules ensure, plus a
hysteresis step that is not negative, which is not validated; `AgeCap` is beyond every
threshold; sets of writers, venues and coins are finite; queues and limits are positive; the
sides of a usable book are not empty, best level first, with positive prices and quantities,
as the connectors and `is_valid` leave them (a full book that listed a level of quantity zero
would not be caught; a delta book drops it), and the unit of base amounts is a multiple of
every price, so that what a level trades is exact. `None` differs from every record it stands
beside. No bound of a run is a hypothesis: the theorems hold for any `MaxGen`, `MaxClock`,
`QueueCap` and so on.

Three hypotheses are stated with their theorems instead, because the code does not ensure them:

- `OneWriter` (`WholeFile`, `Survival`, `Refinement`): no two calls of `set` at a time. The
  finding `config_stale` shows that it cannot be dropped.
- `Prompt`, `MaxDue <= Slack` (`BackfillComplete`): beyond it the backfill is cut.
- every accepted net is above the floor (`WideningOnly`): the finding `screener_graze`.

### Arguments

`ScreenerClientProofs`. `IInv` is the type invariant and, per instrument, `Sound(i)`. The
promises alone are not inductive for `NoBurst`: an upgrade ignores the cooldown, so one has
to know that whoever is at level info got there by a push that waited it out. `Sound` adds
that, and that the last report but one is not younger than the last. Lemmas go action by
action: `ElapseSound`, `RejectedSound`, `QuietSound` (held, suppressed, denied), `PushSound`.
`WideningOnly` needs a second invariant, that the peak is the largest net told. For `TwoCaps`,
`Caps` relates the counter to the reports by age: while the window runs it counts exactly the
reports since its start, and what is older in the span is at most one cap, because the window
before was capped too; once it has run out, the whole span holds at most one cap. `Total`, a
sum over ages, is a recursive function; `TotalBumped` and `TotalShifted` say what a report and
a unit of time do to it.

`SubscriptionsProofs`. `GenInv`: a generation names a config while the server is up. `FileInv`:
where the writer is determines what is in the files - the temporary file is never the config
file, is empty once created and whole once written, and the config file holds the live config
as soon as the writer returns without a failure. For `Refinement` the initial state maps to
the initial state, and each action to a step of `AtomicConfig` or a stutter (only the adoption
and the rename are steps).

`WsSessionProofs`. `Registered` says of each forwarder in which stage it is and under which
instrument it is registered, and that one being opened is what the pending reply snapshots.
`WatchCap` follows from `WithinCap`: the registered watches are within the limit, and while a
snapshot waits for room in the queue, its watch not yet registered, there is room for one more;
at most one forwarder is opening, since the session has one reply in hand.
`Chained` is what `Contiguous` needs: the numbers shown, queued, in the reply, in hand and
still in the feed of a stream lie in that order, and without loss they fill everything up to
the newest sample.

`MarketFeedProofs`. `Trails`: for each instrument there is a run of books that starts at the
connector's, goes on message by message through what is on the socket, and ends in the venue's
book if the instrument is subscribed (`Linked`: only within a session). Reading a message takes the head off that run, sending
one extends it, and a reconnect starts an empty one. The model's `Replayed` is that run
(`ReplayedIsRun`). `Underway`: the connector's latest two-sided book is the newest update of
the channel, or nothing of the instrument is queued and the market state has it.

`SpreadTapeProofs`. `Ordered`: points are logged in the order of their buckets, the open
bucket is that of the last one, and closed buckets lie on the grid, in order and a period apart
from each other. On it rest `AllExact` (folding a point keeps the aggregate that of its
members; opening a bucket starts one of its own; a point never changes the members of another
bucket) and `Retains` (a bucket is forgotten only when the ring is full, and is then older than
all that are left, hence at least `HistCapacity` periods behind, beyond any window a
request is capped to). `RingInv`: since the clock was last set the samples end the ring
(`Ends`), lie within the window (`InWindow`), and from each on there are no more than periods
have passed plus the ticks the timer was late (`Paced`) - so the capacity suffices.

`SpreadDynamicsProofs`. `EpisodeIsContinuous` is inductive with the types; `StreakOf` is the
only index from which on every observation was above and before which one was not. `Settled`:
samples are ordered, and the newest is that of the throttle. `Thinned`: they are observations
of the window, an interval apart, and each observation of the window is close behind one.
`BaselineStays` needs nothing more: the episode is as old as its streak, so the quiet samples
are those from before it, and its lemmas are about ranks. Each rank has a value (`SortedIs`),
the two middle ranks are those that counting from either end finds (`MedianIs`), and what more
than half of the values are up to bounds the median (`MinorityYields`).

`RulesProofs`. A venue set that agrees on the price and is a majority of the usable ones has
members on both sides of either middle rank, by counting, so the median lies between its
lowest and highest mid (`MedianIs`, `MajorityStays`). Arithmetic does the rest: what is within the
band of a majority is within the permitted deviation of the median (`WithinBand`), what is far
from all of it is not (`BeyondBand`), and every leg of an evaluation or of a chart point comes
from the venues kept (`LegsAre`, `FundingLegsAre`, `PointLegsAre`).

For `SizesAreReal` the loop of `walk` is first put in closed form (`LoopIs`): after `k` levels
it has spent the smaller of the target and what they are worth, and has traded the sum of what
it spent on each times the rate of that level. `MarginIs` names the level the target ends on;
those before it are taken whole, those after it not at all. `AsksBuyMost` and `BidsSellLeast`
compare that, level by level, with anything else the book could give: with money moved to or
from the marginal level at the marginal rate, no other way of taking the levels trades more
base on the asks, or less on the bids. For splits of the same amount this is optimality
(`BestSplits`). For different amounts it says that a larger walk has a worse average price
(`VwapsCompare`), which is what `SignalsAreCharted` needs: an evaluation prices both legs at
the size of the thinner book, the chart each at its own.

`DiscoveryProofs`. `CatalogInv`: a venue that is not being replaced is shown as it last
answered; while it is removed, entries already visited no longer list it; while its answer is
put in, exactly the part put in is shown; no entry is empty between refreshes. `SubscribedAsListed` is an
action property of the startup and needs that ranking coins lists each exactly once.

Induction. The library's induction theorems take an operator and cannot be instantiated here.
Where a proof needs induction over numbers (sums, runs, retention, ranks), it takes a smallest
counterexample: `LeastNumber` derives that a nonempty set of naturals has a least element from the
well-foundedness of strict inclusion among finite sets, which is a theorem without such a
parameter. The lemma is repeated in the modules that need it.

### Model-checked only

All liveness (`SustainedIsReported`, `SustainedIsNotified`, `EvaluatorConverges`, `NoLeak`,
`SilentVenueDropsOut`, `FrozenDropsOut`, `Converges`, `ShutdownStops`, `CatalogCatchesUp`) is
outside of what TLAPS handles.

## 6. Not modelled

Authentication (stateless), the CSV log (append-only, never read back), message formats and
URLs of the venues and of the fetchers (parsing), metrics, logging, loading of settings and
deployment files. `/why` repeats the checks of the rules in words. The quality score of an
evaluation and the standard deviation of the statistics are arithmetic that decides nothing.
Of the transfer poller only what it leaves in the store is modelled. The handshake in front of
the stream loop is in `Subscriptions` as far as it touches the config; that a refused client
may never see why (the writer is aborted right after, `ws.rs:116`) is not. Quantities of
levels are left out of `Books`, and funding and tickers of `MarketState`.

## 7. Plan

To model: a second instrument and venue in `MarketFeed` (books revived after a reconnect), the
broadcast with lag between market state and sessions, the handshake in `WsSession`.
