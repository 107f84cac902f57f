SPECIFICATION FairSpec
CONSTANTS
  p1 = p1
  p2 = p2
  p3 = p3
  p4 = p4
  Procs <- FourProcs
  Rank <- Ranks
  Casts <- AllCasts
  NUM_EVENTS = 1
  EventCounts = {0, 1, 2}
  DebugTiming = TRUE
  BufferFirst = TRUE
  PERF_BUFFER_SIZE = 2
  MaxSamples = 5
INVARIANTS
  TypeOK
  FaultsAreExplained
  FinalizedHasReleased
  AttachedBufferIsReady
  CountingMeansRunning
  SamplesAreLoggedInOrder
PROPERTIES
  LoadReturns
CHECK_DEADLOCK FALSE
