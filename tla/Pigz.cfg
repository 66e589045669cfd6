SPECIFICATION FairSpec
CONSTANTS
  Procs = 2
  InBufs = 3
  Inputs <- MCInputs
CHECK_DEADLOCK FALSE
INVARIANTS
  TypeOK
  PoolIsFree
  JobsAreAllocated
  AssertsHold
PROPERTIES
  CompressesInOrder
  Completes
