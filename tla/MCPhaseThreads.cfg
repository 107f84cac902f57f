SPECIFICATION Spec
SYMMETRY Symmetry
CONSTANTS
  NoSite = NoSite
  StartSites = {sA, sB}
  EndSites = {eA, eB}
  Measurements <- OneRun
  CountMod = 8
  DefaultNumPhases = 4
  Main = main
  Workers = {w1, w2}
  Rounds = 3
  MinPhaseLength = 1
  ForkJoin = TRUE
INVARIANTS
  TypeOK
  TableIsHistoryOfPlan
  EndSeesItsOwnStart
  ResumedInLongPhase
PROPERTY
  ImplementsHistory
