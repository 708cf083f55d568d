SPECIFICATION Spec
CONSTANTS
  Threads = {t1}
  None = None
  Torn = Torn
  MaxSeconds = 2
  MaxRuns = 2
  MaxFaults = 1
  MaxTimers = 2
INVARIANTS
  ThreadIdStoredOnReceipt
