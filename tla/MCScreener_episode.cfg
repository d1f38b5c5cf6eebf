\* One instrument: every gate of the engine on its way through an episode.
SPECIFICATION ClientSpec
CONSTANTS
  i1 = i1
  Instruments = {i1}
  Nets = {2, 3, 4, 5, 7}
  MinNet = 1
  AlertNet = 4
  HystStep = 1
  CloseTicks = 3
  MinLifetime = 2
  Cooldown = 3
  MaxPerMin = 2
  RateSpan = 5
  AgeCap = 5
  None = None
  Reject = Reject
INVARIANTS
  ClientTypeOK
  EpisodesAreSeparate
PROPERTIES
  NoBurst
  NoRepeat
