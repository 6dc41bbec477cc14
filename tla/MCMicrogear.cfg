CONSTANTS
  Task = {t1, t2}
  Socket = {1, 2}
  QueueLength = 3
  MaxId = 2
  Patient = TRUE
  Null = Null
SPECIFICATION FairSpec
INVARIANT TypeOK
INVARIANT NoFault
INVARIANT AtMostOneTask
INVARIANT SessionIntegrity
INVARIANT NoLeak
PROPERTY ImplementsConnection
PROPERTY QueuedDisconnectEndsSession
PROPERTY StoppedTaskEnds
