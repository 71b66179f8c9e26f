\* Copies and moves over what the destination holds; every system call fails, and a file is added.
SPECIFICATION TransferSpec
CONSTANTS
  Roots <- MCRoots
  Dest = "dest"
  Copies = 2
  Added = "added"
  Nothing = Nothing
  Partial = Partial
  Operations = {"copy", "move"}
  Conflicts = {"keep", "replace", "skip"}
  Old <- MCOld
INVARIANTS
  TransferSound
  NothingLost
\* The transfer ends.
CHECK_DEADLOCK FALSE
