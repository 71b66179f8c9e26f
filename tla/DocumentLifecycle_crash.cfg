\* Two documents of which at most two calls are cut short.
SPECIFICATION Spec
CONSTANTS
  Paths = {p1, p2}
  Uids = {u1, u2}
  Hashes = {h1, h2}
  Targets = {"PROCESSING", "ARCHIVED"}
  NoRow = NoRow
  NoUid = NoUid
  NoHash = NoHash
  MaxDocId = 3
  MaxEventNo = 3
  MaxCrashes = 2
INVARIANTS
  TypeOK
  EventNumbersDense
  StateNearLog
  VersionProvenance
  RegistryFollowsDocument
PROPERTIES
  AheadIsForever
  EventSourced
SYMMETRY Symmetry
\* The service stops when every bound is used up.
CHECK_DEADLOCK FALSE
