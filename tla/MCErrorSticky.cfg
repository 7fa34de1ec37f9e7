SPECIFICATION Spec
CONSTANTS
  Gatherers <- MCGatherers
  MaxBlocks = 3
PROPERTY
  ErrorIsSticky
CHECK_DEADLOCK FALSE
