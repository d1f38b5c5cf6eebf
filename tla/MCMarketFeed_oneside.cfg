\* A book that loses a side while the connection lives.
SPECIFICATION FeedSpec
CONSTANTS
  x = x
  i1 = i1
  Instruments = {i1}
  Exchanges = {x}
  Listed = {i1}
  Venue = x
  Bids = {2}
  Asks = {3}
  WireCap = 1
  QueueCap = 1
  InitialBackoff = 1
  MaxBackoff = 1
  Jitter = 0
  StableAfter = 0
  Staleness = 1
  QuietMax = 2
  AgeCap = 3
  None = None
INVARIANTS
  CurrentUntilTold
