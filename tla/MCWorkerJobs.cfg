SPECIFICATION Spec
CONSTANTS
  w1 = w1
  w2 = w2
  Workers <- MCWorkers
  Unreliable <- MCUnreliable
  Levels <- MCLevels
  Contents <- MCContents
  SlowJobs <- MCSlowJobs
  MaxGen = 2
  MaxCheckpoint = 2
  FaultGens = {1}
  MaxFaults = 1
INVARIANTS
  TypeOK
  StagesKeepTheirProofs
  BarrierCountsAcks
  CreditGoesToSubmitter
  RewardTreeConsistent
  
PROPERTIES
  AckNeedsProof
  AttemptEndsUnlessBlocked
CHECK_DEADLOCK FALSE
