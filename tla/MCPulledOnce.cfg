CONSTANTS
  len = 2
  MaxMessage = 5
  NoMessage = NoMessage
SPECIFICATION Spec



INVARIANT PulledOnce
CHECK_DEADLOCK FALSE
