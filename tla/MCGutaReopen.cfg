SPECIFICATION Spec
CONSTANTS
  Requests = {r1, r2}
  InitialRoot = InitialRoot
  GUTA_IN_FLIGHT_WINDOW_CHECKPOINTS = 3
  MaxCheckpoint = 5
  MaxGeneration = 7
  MaxRestart = 1
SYMMETRY Symmetry
INVARIANTS
  NoStaleUpdateInBatch
\* A parked processor waits for the operator; the bounds also stop it.
CHECK_DEADLOCK FALSE
