CONSTANTS
  p1 = p1
  p2 = p2
  Proposals = {p1, p2}
  None = None
  Numbers = {1, 2, 3, 4}
  MaxHead = 2
  Instances <- Living
SPECIFICATION FairSpec
PROPERTIES PassesEnd MergesSettle MergedIsRecorded ReadyIsTaken ConflictIsTaken
CHECK_DEADLOCK FALSE
