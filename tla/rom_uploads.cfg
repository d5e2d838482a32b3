SPECIFICATION FairSpec
CONSTANTS
  Uploads = {u1, u2}
  Files = {f1, f2}
  NoFile = NoFile
  Garbage = Garbage
  Platforms = {p1}
  Faults = {"refuse", "cut"}
  LateFiles = {f2}
INVARIANTS
  TypeOK
  CleanedLeavesNothing
  DuplicateIsReused
PROPERTIES
  UploadsFillCatalogue
  UploadEnds
CHECK_DEADLOCK FALSE
