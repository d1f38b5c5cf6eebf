\* An evaluation exactly at the entry floor.
SPECIFICATION ClientSpec
CONSTANTS
  i1 = i1
  Instruments = {i1}
  Nets = {1, 3}
  MinNet = 1
  AlertNet = 4
  HystStep = 1
  CloseTicks = 3
  MinLifetime = 1
  Cooldown = 1
  MaxPerMin = None
  RateSpan = 3
  AgeCap = 3
  None = None
  Reject = Reject
PROPERTIES
  NoRepeat
