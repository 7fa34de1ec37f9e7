SPECIFICATION Spec
CONSTANTS
  MaxCheckpoint = 2
  MaxPending = 5
  MaxCrash = 2
  Batches <- MCBatches
  GenesisParts <- MCGenesisParts
INVARIANTS
  TypeOK
  CommittedComplete
  ChainContinuous
  CommittedTreesMatchRoots
  PendingIdsIncrease
  RingFollowsMarker
  CommitNeverRefused
  CleanStateResumes
PROPERTIES
  CommittedNeverRewritten
  ChainSpec
\* A parked Coordinator waits for the operator; the bounds also stop it.
CHECK_DEADLOCK FALSE
