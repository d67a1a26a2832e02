SPECIFICATION FairSpec
CONSTANTS
  CIRCLE_INDEXER_RETRY_BUDGET = 60
  FIRST_BACKOFF = 2
  MAX_BACKOFF = 15
  Lags = {0, 1, 5, 29, 44, 45, 46, 59, 60, 61, 90}
  Durations = {0, 1, 3}
  Slowest = 3
  Faults = TRUE
CHECK_DEADLOCK FALSE
INVARIANTS
  TypeOK
  WithinBudget
  RidesOutLag
PROPERTIES
  Ends
