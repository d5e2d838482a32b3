SPECIFICATION Spec
CONSTANTS
  Consoles = {t1, t2}
  Reqs = {q1, q2}
  Urls = {u1, u2}
  DefaultUrl = u1
  NoUrl = NoUrl
  Loopback = {u1}
  AdminFaults = {"redis", "lostReply", "quota"}
  Files = {f1, f2}
  NoFile = NoFile
  Uploads = {v1, v2}
  MaxReads = 1
  Editors = {e1, e2}
  Names = {n1}
  Short = Short
  Keys = {k1, k2}
  Null = Null
  Unset = Unset
  ProfileFaults = {"query", "upload", "lostReply"}
INVARIANTS
  TypeOK
  WizardIsHonest
  UploadFormIsHonest
  ProfileAgrees
PROPERTIES
  SaveCompletes
CHECK_DEADLOCK FALSE
