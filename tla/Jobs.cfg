\* One row of any kind or two imports, their queue served by two API processes.
CONSTANTS
  l1 = l1
  l2 = l2
  Job = {"export", "bulk", "append", "replace", "plan", "raster", "report"}
  Layer = {l1, l2}
  Worker = {w1, w2}
  None = None
  Kind <- AllKinds
  Wants <- AllWants
  Attempts = 2
  MaxStalled = 1
  MaxRetries = 1
  MaxRows = 2
SPECIFICATION Spec
SYMMETRY Workers
CONSTRAINT Bounds
CHECK_DEADLOCK FALSE
INVARIANTS
  TypeOK
  OneProcessorUnlessStalled
  CompletedIsWhole
  RowAgreesUnlessLost
  InsertedOncePerAttempt
  ImportedUnlessOverwritten
PROPERTIES
  ViewSpec
