SPECIFICATION Spec
CONSTANTS
  Reqs = {r1, r2}
  MaxConnsPerHost = 1
  MaxIdleConnsPerHost = 1
  IdleConnTimeout = FALSE
  MaxWants = 3
  MaxEvents = 2
  None = None
INVARIANTS OwnCancel
CHECK_DEADLOCK FALSE
