\* The workers and main are fair, so there is no symmetry to use.
SPECIFICATION FairSpec
CONSTANTS
  Requests = {r1, r2}
  Workers = {w1, w2}
  BufferSize = 1
  None = None
INVARIANTS
  TypeOK
  OneHolder
  QuietShutdownIsComplete
  DatabaseOutlivesJobs
PROPERTIES
  QueuedIsProcessed
  ShutdownEnds
\* The process ends.
CHECK_DEADLOCK FALSE
