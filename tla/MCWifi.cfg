CONSTANTS
  MaxCommand = 3
  MaxRetries = 2
SPECIFICATION FairSpec
INVARIANT TypeOK
INVARIANT Untorn
INVARIANT FutileBounded
PROPERTY LastCommandApplied
PROPERTY WaiterServed
CHECK_DEADLOCK FALSE
