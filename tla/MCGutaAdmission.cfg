SPECIFICATION Spec
CONSTANTS
  Requests = {r1, r2, r3}
  InitialRoot = InitialRoot
  GUTA_IN_FLIGHT_WINDOW_CHECKPOINTS = 3
  MaxCheckpoint = 3
  MaxGeneration = 4
  MaxRestart = 1
SYMMETRY Symmetry
INVARIANTS
  TypeOK
  AcceptedCommitsWithinTwo
  CommittedUpdatesChain
  OneUpdatePerBatch
  StaleOnlyWhenOvertaken
\* A parked processor waits for the operator; the bounds also stop it.
CHECK_DEADLOCK FALSE
