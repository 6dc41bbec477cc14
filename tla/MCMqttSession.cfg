CONSTANTS
  MAX_FAIL_ALLOWED = 2
  MAX_PACKET_ID = 3
  KeepAlive = 2
  CommandTimeout = 1
  YieldTime = 0
  Lag = 2
  MaxRequest = 2
  MaxPublish = 1
  MaxPart = 1
  MaxSession = 2
SPECIFICATION FairSpec
INVARIANT TypeOK
INVARIANT DeadBrokerNoticed
INVARIANT AnswerIsOwn
PROPERTY NoFalseAlarm
PROPERTY CallEnds
CHECK_DEADLOCK FALSE
