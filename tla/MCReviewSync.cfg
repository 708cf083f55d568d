SPECIFICATION FairSpec
CONSTANTS
  Ids = {1, 2, 3, 4}
  Tags = {"a", "b"}
  Snapshots <- MCSnapshots
  History <- MCHistory
  PageSize = 2
  Rows = {3, 8}
  None = None
  MaxTimers = 2
INVARIANTS
  SelectionFollowsCursor
  CursorOnScreen
  ListShowsApplied
  MissedOnlyByDeletion
  OneFetchAtATime
PROPERTIES
  ImplementsReviewList
  ListCatchesUp
