SPECIFICATION Spec
CONSTANTS
  RingCapacity = 2
  StaleAge = 2
  BucketSize = 2
  MaxCheckpoint = 3
  MaxPending = 5
  MaxCrashes = 2
INVARIANTS
  TypeOK
  ArchiveFollowsChain
  ManagerServesWindow
  CompletedPhasesHold
PROPERTIES
  KeepsContract
  RollbackEnds
CHECK_DEADLOCK FALSE
