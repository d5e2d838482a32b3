SPECIFICATION PagesSpec
CONSTANTS
  Requests = {r1, r2, r3}
  MaxLinks = 3
  Shared = {1}
  RedisFails = TRUE
  Panes = {p1, p2}
  Users = {a1, a2}
  Nobody = Nobody
  Flights = {f1, f2}
  NoFlight = NoFlight
PROPERTY SignOutClearsCookie
CHECK_DEADLOCK FALSE
