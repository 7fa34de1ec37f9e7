SPECIFICATION Spec
CONSTANTS
  MaxCheckpoint = 2
  MaxPending = 5
  MaxCrash = 2
  Batches <- MCBatches
  GenesisParts <- MCGenesisParts
INVARIANT
  LatestBlockNotAheadOfMarker
CHECK_DEADLOCK FALSE
