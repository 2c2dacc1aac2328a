\* Every call of task-create ends; then nothing is left to happen.
SPECIFICATION FairSpec
CHECK_DEADLOCK FALSE
CONSTANTS
  Creators = {c1, c2, c3}
  Workers = {w}
  MaxKills = 2
  None = None
  Foreign = Foreign
INVARIANTS
  PairIsWhole
  PublishedTaskCanBeFinished
PROPERTIES
  OthersStageIsKept
  CreationIsFinalized
