SPECIFICATION Spec
SYMMETRY Symmetry
CONSTANTS
  NoSite = NoSite
  StartSites = {sA, sB}
  EndSites = {eA, eB}
  Measurements <- TwoRuns
  CountMod = 3
  DefaultNumPhases = 2
INVARIANTS
  TypeOK
  NoDuplicatePhase
  OpenPhaseIsLocated
PROPERTIES
  PhasesAreStable
  RunsAreAttributed
  ImplementsHistory
