SPECIFICATION Spec
CONSTANTS
  Analytics = {a1}
  PhaseIds = {0}
  HandlerOnMain = TRUE
  MaxCounter = 0
  timer_interval_us = 1000
  num_lock_tries = 1
  SchedNames = {"greedy"}
  Intervals = {100}
  MaxOwnCounter = 0
  num_read_lock_tries = 1
INVARIANT FinalizedIsNotKilled
CHECK_DEADLOCK FALSE
