SPECIFICATION Spec
CONSTANTS
  Slots = {1, 2}
  Insts = {k1}
  Events = {1, 2, 3}
  InstOf <- OneInst
  Reqs = {1, 2, 3}
  ReqOf <- Distinct
  HashOf <- SameHash
  Version <- OneVersion
  StallAfter = 1
  MaxAttempts = 1
  MaxReleases = 0
  MaxLost = 0
  NoSlot = 0
INVARIANTS
  OneAtATime
