CONSTANTS
  MaxConnect = 2
  MaxByte = 4
  BufLen = 3
  PushMode = {1, 2}
  HeaderBit = 2
SPECIFICATION FairSpec
INVARIANT TypeOK
INVARIANT StopHonoured
INVARIANT HeaderTells
INVARIANT BytesKept
PROPERTY OneTarget
PROPERTY Answered
CHECK_DEADLOCK FALSE
