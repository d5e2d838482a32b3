SPECIFICATION Spec
CONSTANTS
  Requests = {r1, r2}
  MaxSids = 3
  SingleFlight = FALSE
  Faults = {}
INVARIANT OneLiveTokenPerLogin
CHECK_DEADLOCK FALSE
