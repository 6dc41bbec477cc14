CONSTANTS
  Task = {t1, t2}
  Socket = {s1, s2}
  QueueLength = 2
  MaxId = 1
  Patient = FALSE
  Null = Null
SYMMETRY Symmetry
VIEW Steering
SPECIFICATION Spec
INVARIANT HandleLive
