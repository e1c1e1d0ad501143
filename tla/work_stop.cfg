SPECIFICATION Spec
CONSTANTS
  Procs = {p1, p2}
  Items = {i1}
  Limit = 1
  Resumable = FALSE
  MaxAttempts = 2
  MaxLost = 0
  MaxClaims = 3
  MaxFaults = 0
  MaxStops = 1
INVARIANTS
  StopReachesHandlers
