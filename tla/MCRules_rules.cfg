\* Four venues, six kinds of quotes, the configurations of several clients.
SPECIFICATION RulesSpec
CONSTANTS
  v1 = v1
  v2 = v2
  v3 = v3
  v4 = v4
  Venues <- SomeVenues
  Quotes <- SomeQuotes
  StatsValues <- SomeStats
  Transfers <- SomeTransfers
  Configs <- SomeConfigs
  One = 9240
  Scale = 100
  Pct = 1000
  Base = "XYZ"
  Kind = "perp"
  DefaultFee = 1
  None = None
SYMMETRY Interchangeable
INVARIANTS
  SizeIsReal
  MajorityIsKept
  SignalIsCharted
