SPECIFICATION FairSpec
CONSTANTS
  Requests = {r1, r2}
  MaxSids = 2
  SingleFlight = FALSE
  Faults = {"prisma", "redis", "restart"}
INVARIANTS
  GaugeDrift
PROPERTIES
  RefusalIsFinal
  EveryRequestIsAnswered
CHECK_DEADLOCK FALSE
