CONSTANTS
  Null = Null
  Gestures = 3
  MaxCalls = 2
  MaxFaults = 1
SPECIFICATION Spec
CONSTRAINT BeforeLapse
CHECK_DEADLOCK FALSE
INVARIANT EditsKept
INVARIANT WritesAreOwn
INVARIANT ShownIsCurrent
INVARIANT BusyIsAwaited
