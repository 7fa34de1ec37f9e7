SPECIFICATION Spec
CONSTANTS
  Validators = {1, 2, 3}
  Shuffle <- MCShuffle
  CHECKPOINTS_PER_EPOCH = 1
  GUTA_IN_FLIGHT_WINDOW_CHECKPOINTS = 2
  ResendAfter = 2
  MaxCheckpoint = 3
  MaxRoot = 2
  MaxLag = 0
  MaxTroubles = 1
  Unstable = {2}
INVARIANTS
  TypeOK
  
  IncludedBodyIsReachable
  
PROPERTIES
  AppliedInOrder
  
CHECK_DEADLOCK FALSE
