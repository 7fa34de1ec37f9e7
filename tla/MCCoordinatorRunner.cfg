SPECIFICATION Spec
CONSTANTS
  Gatherers <- MCGatherers
  MaxBlocks = 3
INVARIANT
  TypeOK
PROPERTIES
  NeverRunsAgain
  NoBlockAfterFailure
  GathererFailureEndsProcess
\* The process ends.
CHECK_DEADLOCK FALSE
