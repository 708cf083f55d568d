SPECIFICATION SpecApp
CONSTANTS
  Ids = {1, 2, 3}
  Tags = {"any"}
  Snapshots <- MCSnapshots
  Rows = {3, 8}
  Sizes <- MCSizes
  File <- MCFile
  Line <- MCLine
  Text <- MCText
  Written <- MCWritten
  Answers <- MCAnswers
  None = None
INVARIANTS
  DiffContextIsCurrent
PROPERTIES
  SyncKeepsSelection
  OnlyListKeysMoveList
  CursorItemOnScreen
  EntryShowsSelected
