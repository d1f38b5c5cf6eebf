\* Two instruments, watched and re-watched over a short queue.
SPECIFICATION FairSpec
CONSTANTS
  i1 = i1
  i2 = i2
  f1 = f1
  f2 = f2
  Instruments = {i1, i2}
  Streams = {f1, f2}
  QueueCap = 2
  LiveCap = 1
  MaxWatches = 1
  MaxSample = 2
  MaxEvent = 1
  None = None
INVARIANTS
  TypeOK
  StreamsAreContiguous
  NoOrphans
  WatchCap
PROPERTIES
  NoLeak
\* The tapes and the engine stop at the bounds of the model, and the session ends.
CHECK_DEADLOCK FALSE
