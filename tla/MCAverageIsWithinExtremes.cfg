SPECIFICATION Spec
CONSTANTS
  NoSite = NoSite
  StartSites = {sA, sB}
  EndSites = {eA, eB}
  Measurements <- OneRun
  CountMod = 4
  DefaultNumPhases = 2
INVARIANTS
  AverageIsWithinExtremes
