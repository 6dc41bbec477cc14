CONSTANTS
  Line <- EmptyPayload
  MaxLine = 1
  QueueSize = 2
  MaxLost = 1
SPECIFICATION Spec
INVARIANT ArgumentsAsTyped
CHECK_DEADLOCK FALSE
