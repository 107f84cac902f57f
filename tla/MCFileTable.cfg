SPECIFICATION Spec
CONSTANTS
  Threads = {t1, t2}
  Files = {f1, f2, bad}
  Unreadable = {bad}
  NoFile = NoFile
  GR_MAX_OPEN_FILE = 6
  NoReturn = {0}
  ForkJoin = TRUE
SYMMETRY Symmetry
INVARIANTS
  TypeOK
  ToldIsDescriptorOfFile
  OpenedOncePerThread
  TableHasRoom
PROPERTIES
  SettledFilesAreStable
CHECK_DEADLOCK FALSE
