SPECIFICATION Spec
CONSTANTS
  Slots = {1, 2}
  Insts = {k1}
  Events = {1, 2, 3}
  InstOf <- OneInst
  Reqs = {0, 1}
  ReqOf <- Retries
  HashOf <- SameHash
  Version <- MixedVersions
  StallAfter = 1
  MaxAttempts = 1
  MaxReleases = 1
  MaxLost = 0
  NoSlot = 0
INVARIANTS
  TypeOK
  NoLostUpdate
  AcceptedOnce
  ReceiptIsCurrent
  InOrder
  HeldBehindFault
PROPERTIES
  DecidedForGood
  NeverOlderBuild
