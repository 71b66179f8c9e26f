\* Four gestures of two to five kinds, two calls of the host at once.
SPECIFICATION Spec
CONSTANTS
  class1 = class1
  path1 = path1
  Null = Null
  MaxEntries = 2
  Slug <- MCSlug
  Words <- MCWords
  Heading <- MCHeading
  Titles <- MCTitles
  Paths = {path1}
  Classes = {class1}
  NewDocument <- MCNewDocument
  OnDisk <- MCOnDisk
  KindSets <- MCKindSets
  MaxGestures = 4
  MaxCalls = 2
INVARIANTS
  StoreSound
  FilesAreOwn
  EditsSurvive
  CleanMeansSaved
  ShownIsStored
PROPERTIES
  DraftsLand
  ImplementsUndo
\* The user may stop.
CHECK_DEADLOCK FALSE
