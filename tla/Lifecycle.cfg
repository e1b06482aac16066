SPECIFICATION Spec
CONSTANTS
  c1 = c1
  c2 = c2
  a = a
  b = b
  None = None
  Controllers <- MCControllers
  Names <- MCNames
  Handlers <- MCHandlers
  MaxObjects = 2
  MaxFaults = 1
INVARIANTS
  TypeOK
  FinalizerOnce
  LoopRemovesOne
  CleanupOnlyIfDeleted
PROPERTIES
  CleanupBeforeRelease
  OnlyOwnFinalizer
  DeletionCompletes
  EventuallyProtected
  Implements
CHECK_DEADLOCK FALSE
