SPECIFICATION FairSpec
CONSTANTS
  Slots = {1, 2}
  Insts = {k1}
  Events = {1, 2}
  InstOf <- OneInst
  Reqs = {0, 1}
  ReqOf <- SameReq
  HashOf <- SameHash
  Version <- MixedVersions
  StallAfter = 2
  MaxAttempts = 2
  MaxReleases = 1
  MaxLost = 1
  NoSlot = 0
INVARIANTS
  OneAtATime
PROPERTIES
  EveryEventDecided
  ImplementsStream
