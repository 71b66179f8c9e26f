\* Two calls, two changes of the open database, one crash.
SPECIFICATION Spec
CONSTANTS
  file1 = file1
  file2 = file2
  file3 = file3
  resident = resident
  Files <- MCFiles
  Resident <- MCResident
  NameOf <- MCNameOf
  IdOf <- MCIdOf
  FirstId = 3
  Callers = {c1, c2}
  Nothing = Nothing
  Partial = Partial
  MaxSwitches = 2
  MaxCrashes = 1
INVARIANTS
  ZoneSound
  FileKept
  HistoryKept
SYMMETRY Symmetry
\* Every call may have been made.
CHECK_DEADLOCK FALSE
