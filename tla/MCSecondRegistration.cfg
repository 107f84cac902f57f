SPECIFICATION Spec
CONSTANTS
  viz = viz
  stats = stats
  Apps = {viz}
  ProcsOf <- OneProgram
  Groups = {g1, g2}
  NoApp = NoApp
  NoGroup = NoGroup
  NoPid = NoPid
  gr_local_size = 2
  GR_MAX_NUM_RECEIVERS = 2
  Registrations = 2
  MaxGone = 0
  OneAtATime = TRUE
INVARIANT VisibleReceiverIsComplete
CHECK_DEADLOCK FALSE
