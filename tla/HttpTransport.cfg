SPECIFICATION FairSpec
CONSTANTS
  Reqs = {r1, r2}
  MaxConnsPerHost = 1
  MaxIdleConnsPerHost = 1
  IdleConnTimeout = TRUE
  MaxWants = 3
  MaxEvents = 2
  None = None
INVARIANTS CountExact NothingStranded
CHECK_DEADLOCK FALSE
PROPERTIES RequestsEnd
