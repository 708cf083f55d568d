SPECIFICATION SyncSpec
CONSTANTS
  Ids = {1, 2, 3, 4}
  Tags = {"a", "b"}
  Snapshots <- MCSnapshots
  History <- MCHistory
  PageSize = 2
  Rows = {8}
  None = None
  MaxTimers = 3
INVARIANTS
  TimersDoNotAccumulate
