SPECIFICATION Spec
CONSTANTS
  viz = viz
  stats = stats
  Apps = {viz, stats}
  ProcsOf <- TwoPrograms
  Groups = {g1, g2}
  NoApp = NoApp
  NoGroup = NoGroup
  NoPid = NoPid
  gr_local_size = 2
  GR_MAX_NUM_RECEIVERS = 2
  Registrations = 1
  MaxGone = 1
  OneAtATime = TRUE
INVARIANTS
  TypeOK
  VisibleReceiverIsComplete
  LookupIsRight
  ShareIsSettled
  SuspendedWhenAllReturned
CHECK_DEADLOCK FALSE
