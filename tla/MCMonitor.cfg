SPECIFICATION FairSpec
CONSTANTS
  Analytics = {a1}
  PhaseIds = {0, 1}
  HandlerOnMain = TRUE
  MaxCounter = 1
  timer_interval_us = 1000
  num_lock_tries = 2
  SchedNames <- AllNames
  Intervals = {0, 100, 2000}
  MaxOwnCounter = 1
  num_read_lock_tries = 1
INVARIANTS
  StubTypeOK
  PublishedIsOneInterval
  OpenPhaseIsMonitored
  EndedPhaseHasNoTimer
  SurvivesFinalize
  SelfWindowIsOneInterval
  SchedTypeOK
  DeadReaderHoldsNoLock
  SchedulerTicks
PROPERTIES
  ImplementsFeed
  SimulationIsNotHeldUp
  SchedulerIsNotHeldUp
CHECK_DEADLOCK FALSE
