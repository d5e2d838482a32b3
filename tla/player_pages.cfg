SPECIFICATION Spec
CONSTANTS
  Calls = {c1, c2}
  Games = {m1, m2, m3}
  Roms = {{m1, m2}, {m3}}
  Slots = {s1, s2}
  Stub = Stub
  Bytes = {m1, m2, m3, Stub}
  MaxSaves = 2
  SaveFaults = {"expired", "query", "store", "lostAck", "restart"}
  Void = Void
  Tabs = {t1}
  SlotOne = s1
  MaxLoaders = 1
  Views = {v1, v2, v3}
  PageViews = {v1}
  Heroes = {v3}
  Clicks = {k1, k2}
  MaxRows = 2
  MaxFlips = 3
  StarFaults = {"query", "lostReply", "expired"}
  MaxRoms = 3
  MaxPlays = 1
  PageSize = 1
  Players = {p1, p2}
  PlayedRoms = {r1, r2}
  Nobody = Nobody
  MaxFrames = 2
  MaxSamples = 2
  Ttl = 2
INVARIANTS
  TypeOK
  AnsweredSaveIsKept
  SavesOwnGame
  LocalFollowsCloud
  StarsAreTrue
  EndOfListShowsAll
  CountsAtMostDrawn
  GlobalCoversRoms
PROPERTIES
  SaveRegisterSpec
SYMMETRY Symmetry
CHECK_DEADLOCK FALSE
