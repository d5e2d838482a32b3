SPECIFICATION Spec
CONSTANTS
  Requests = {r1, r2}
  MaxLinks = 1
  Shared = {1}
  RedisFails = FALSE
INVARIANT LinkIsSingleUse
CHECK_DEADLOCK FALSE
