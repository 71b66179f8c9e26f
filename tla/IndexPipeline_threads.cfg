\* A call and a bulk job, a change of a file, a change of zone, a crash.
SPECIFICATION Spec
CONSTANTS
  Dbs = {global, zone}
  Global = global
  Paths = {file1, file2}
  Versions = {v1, v2}
  First = v1
  Users = {u1}
  Bulk = bulk
  BulkFiles = {file1}
  Nobody = Nobody
  MaxJobs = 1
  MaxBulks = 1
  MaxEdits = 1
  MaxSwitches = 1
  MaxCrashes = 1
INVARIANTS
  IndexSound
  IndexComplete
  SearchShowsMatch
\* The calls are bounded.
CHECK_DEADLOCK FALSE
