SPECIFICATION FairSpec
CONSTANTS
  Threads = {t1, t2}
  None = None
  Torn = Torn
  MaxSeconds = 2
  MaxRuns = 3
  MaxFaults = 1
  MaxTimers = 2
INVARIANTS
  PromptIsCurrent
  RunHasReader
  OutcomeMatchesSidecar
PROPERTIES
  SidecarLifeCycle
  RunEnds
