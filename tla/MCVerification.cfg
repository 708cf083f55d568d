SPECIFICATION Spec
CONSTANTS
  Comments <- MCComments
  c1 = c1
  c2 = c2
  None = None
  MaxHead = 2
  MaxEdits = 1
  MaxRequests = 2
  MaxRuns = 1
  MaxSessions = 1
  MaxTasks = 2
INVARIANTS
  VerdictsAreForHead
PROPERTIES
  StoredAsAWhole
  AcknowledgedIsStored
  RequestsAreNumbered
  RequestEnds
CHECK_DEADLOCK FALSE
