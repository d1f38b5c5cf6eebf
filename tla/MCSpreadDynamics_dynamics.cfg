\* One instrument, a threshold a client moves, ticks faster than the throttle.
SPECIFICATION DynSpec
CONSTANTS
  Nets <- SpreadValues
  Thresholds <- ClientThresholds
  SanityCap = 6
  MinInterval = 2
  Window = 5
  MinQuiet = 2
  Gaps <- TickGaps
  MaxTime = 8
  None = None
INVARIANTS
  EpisodeIsContinuous
  WindowIsExact
  SpikeLeavesBaseline
\* The clock of the model ends at MaxTime; only retunes are left.
CHECK_DEADLOCK FALSE
