\* One instrument of one venue, from the socket to the quote.
SPECIFICATION FairFeedSpec
CONSTANTS
  x = x
  i1 = i1
  Instruments = {i1}
  Exchanges = {x}
  Listed = {i1}
  Venue = x
  Bids = {2}
  Asks = {1, 3}
  WireCap = 1
  QueueCap = 1
  InitialBackoff = 1
  MaxBackoff = 2
  Jitter = 0
  StableAfter = 0
  Staleness = 1
  QuietMax = 2
  AgeCap = 3
  None = None
INVARIANTS
  FeedTypeOK
  MirrorsVenue
  NothingDropped
PROPERTIES
  SilentVenueDropsOut
  FrozenDropsOut
  Converges
  ShutdownStops
