CONSTANTS
  len = 3
  MaxMessage = 4
  NoMessage = NoMessage
  MAX_MESSAGE_HANDLERS = 2
  Filter <- Filters
  Name <- Names
SPECIFICATION DeliverySpec
INVARIANT InBounds
INVARIANT OrderedUnlessExposed
INVARIANT SelectedAsMeant
PROPERTY ImplementsShared
CHECK_DEADLOCK FALSE
