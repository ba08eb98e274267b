\* One channel of each kind, two replicates and one outlier.
SPECIFICATION LiveSpec
CONSTANTS
  TC = {c1}
  TIC = {c2}
  Peak <- MCPeak
  Intercept = 1
  Factor = 1
  Jump = TRUE
  Polls = 1
  Late = 1
  Replicates = 2
  Outliers = 1
  MaxCv = 30
INVARIANTS
  DirtIsRemembered
  PumpIsStopped
  ResultsAreStored
  ReplicatesAreBounded
PROPERTIES
  RunsComeNearer
  RunsEnd
