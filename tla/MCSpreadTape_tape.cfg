\* One instrument, a clock that is set once, a timer that may be two ticks late.
SPECIFICATION TapeSpec
CONSTANTS
  p = p
  q = q
  Nets = {1, 2}
  Pairs = {p, q}
  Resolution = 1
  Window = 1
  HistResolution = 2
  HistWindow = 2
  Slack = 2
  MaxDue = 2
  Jumps <- ClockJumps
  MaxClock = 6
  MaxSteps = 1
  MaxPoints = 4
  None = None
SYMMETRY Interchangeable
INVARIANTS
  BucketsAreExact
  RangeIsComplete
  BackfillIsComplete
\* The clock of the model ends at MaxClock, and the sampler with it.
CHECK_DEADLOCK FALSE
