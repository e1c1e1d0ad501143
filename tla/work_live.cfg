SPECIFICATION FairSpec
CONSTANTS
  Procs = {p1, p2}
  Items = {i1}
  Limit = 1
  Resumable = TRUE
  MaxAttempts = 2
  MaxLost = 1
  MaxClaims = 5
  MaxFaults = 1
  MaxStops = 1
INVARIANTS
  StartsBounded
PROPERTIES
  CheckpointsMoveOn
  EveryItemSettles
