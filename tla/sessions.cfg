SPECIFICATION Spec
CONSTANTS
  Requests = {r1, r2}
  MaxSids = 3
  SingleFlight = TRUE
  Faults = {"prisma"}
INVARIANTS
  TypeOK
  OneStore
  NoReplay
  OneLiveTokenPerLogin
  LogoutEndsLogin
PROPERTIES
  RefreshTokensAreOneTime
SYMMETRY Symmetry
CHECK_DEADLOCK FALSE
