CONSTANTS
  Line <- Documented
  MaxLine = 2
  QueueSize = 2
  MaxLost = 1
SPECIFICATION Spec
INVARIANT TypeOK
INVARIANT CleanLinesRun
INVARIANT NoMixing
INVARIANT LoopStaysInLine
CHECK_DEADLOCK FALSE
