SPECIFICATION Spec
CONSTANTS
  Threads = {t1}
  Files = {f1}
  Unreadable = {}
  NoFile = NoFile
  GR_MAX_OPEN_FILE = 2
  NoReturn = {0}
  ForkJoin = TRUE
INVARIANT FileHasOneIdentifier
CHECK_DEADLOCK FALSE
