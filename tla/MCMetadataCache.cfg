SPECIFICATION SpecCache
CONSTANTS
  Processes <- MCProcesses
  p1 = p1
  p2 = p2
  Ttl <- MCTtl
  None = None
  MaxVersion = 3
  MaxTime = 3
INVARIANTS
  ValidatorIsOfData
PROPERTIES
  RevalidatedIsCurrent
  WriteIsHonest
