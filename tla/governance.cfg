SPECIFICATION FairSpec
CONSTANTS
  v1 = v1
  v2 = v2
  Voters = {v1, v2}
  Author = v1
  Admins = {v2}
  Electorates <- TwoElectorates
  Members = 2
  Kinds = {"close_issue", "reopen_issue", "secret_change", "rename", "thread_move"}
  Regimes = {0}
  Ages = {0, 3}
  Tries = 2
  MaxRetries = 1
CHECK_DEADLOCK FALSE
INVARIANTS
  GovTypeOK
  PendingIsHeld
  CommentOnce
  DoneRunsTheSecret
PROPERTIES
  GroupVoteHolds
  PassedSettles
  ForcedSettles
  FollowupsSettle
