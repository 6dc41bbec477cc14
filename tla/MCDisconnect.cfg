CONSTANTS
  Task = {t1, t2}
  Socket = {1, 2}
  QueueLength = 2
  MaxId = 1
  Patient = TRUE
  Null = Null
SPECIFICATION FairSpec
PROPERTY DisconnectHonoured
