SPECIFICATION Spec
SYMMETRY ItemsAlike
CONSTANTS
  Procs = {p1, p2}
  Items = {i1, i2}
  Limit = 1
  Resumable = FALSE
  MaxAttempts = 1
  MaxLost = 0
  MaxClaims = 3
  MaxFaults = 1
  MaxStops = 1
INVARIANTS
  WorkTypeOK
  LimitHeld
  OneResult
  AttemptsClosed
PROPERTIES
  LeaseNotRevived
  CancelledNotAccepted
