\* Two downloads, together or one after another, each cancelled or broken anywhere.
SPECIFICATION FairSpec
CONSTANTS
  Downloads = {d1, d2}
  NoFile = NoFile
  Size = 2
INVARIANTS
  DownloadSound
  NothingLeftBehind
PROPERTIES
  EveryDownloadEnds
\* Every call may have been made.
CHECK_DEADLOCK FALSE
