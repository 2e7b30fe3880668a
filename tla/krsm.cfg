CONSTANTS
  NumReasons = 3
  MaxPending = 4
  NumFutures = 3
  Shared = FALSE
  Filtering = TRUE
SPECIFICATION Spec
INVARIANTS TableSorted Listed NoPhantom SearchAgrees
PROPERTY DeliveredByEnd
