SPECIFICATION Spec
CONSTANTS
  Uploads = {u1, u2}
  Files = {f1}
  NoFile = NoFile
  Garbage = Garbage
  Platforms = {p1}
  Faults = {}
  LateFiles = {f1}
INVARIANT CompleteMeansPlayable
CHECK_DEADLOCK FALSE
