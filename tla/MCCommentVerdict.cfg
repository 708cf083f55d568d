SPECIFICATION VerdictSpec
CONSTANTS
  Scripts <- MCScripts
  Placements <- MCPlacements
  MaxLength = 6
  Context = 1
  MaxI32 = 2147483647
  None = None
INVARIANTS
  MappingFollowsEdit
  VerdictFollowsEdit
CHECK_DEADLOCK FALSE
