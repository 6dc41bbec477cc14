CONSTANTS
  Request <- Requests
  Reply <- Replies
  BufSize = 131
  YieldTime = 1
  PingTime = 1
  MaxPacket = 2
  Half = 8
SPECIFICATION Spec
INVARIANT TypeOK
INVARIANT Understood
INVARIANT ReadAsSent
INVARIANT YieldOnTime
CHECK_DEADLOCK FALSE
