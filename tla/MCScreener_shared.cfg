\* Two instruments under one rate cap.
SPECIFICATION FairClientSpec
CONSTANTS
  i1 = i1
  i2 = i2
  Instruments = {i1, i2}
  Nets = {1, 3, 4}
  MinNet = 1
  AlertNet = 4
  HystStep = 1
  CloseTicks = 2
  MinLifetime = 1
  Cooldown = 2
  MaxPerMin = 2
  RateSpan = 3
  AgeCap = 3
  None = None
  Reject = Reject
INVARIANTS
  PeakIsReported
  AlertIsLatched
  AtMostTwoCaps
PROPERTIES
  SustainedIsReported
  SustainedIsNotified
