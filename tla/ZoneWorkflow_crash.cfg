\* Edits, moves and lifecycle changes of two documents, two crashes.
SPECIFICATION Spec
CONSTANTS
  d1 = d1
  d2 = d2
  Docs <- MCDocs
  TechStates <- MCTechStates
  NoKey = NoKey
  NoDoc = NoDoc
  SeedStates <- MCSeedStates
  SeedDefault = "INPUT"
  SeedTransitions <- MCSeedTransitions
  Edits <- MCEdits
  Goals <- MCGoals
  Input = "INPUT"
  MaxEvents = 4
  MaxCrashes = 2
INVARIANTS
  WorkflowSound
PROPERTIES
  MovesAreLegal
SYMMETRY Symmetry
\* Every log may be full.
CHECK_DEADLOCK FALSE
