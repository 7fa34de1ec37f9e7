SPECIFICATION Spec
CONSTANTS
  Requests = {r1, r2, r3}
  InitialRoot = InitialRoot
  GUTA_IN_FLIGHT_WINDOW_CHECKPOINTS = 3
  MaxCheckpoint = 3
  MaxGeneration = 5
  MaxRestart = 0
SYMMETRY Symmetry
INVARIANT
  NoStaleUpdateInBatch
CHECK_DEADLOCK FALSE
