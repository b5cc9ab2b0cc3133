\* An export, its queue served by two API processes; every worker step fair.
CONSTANTS
  l1 = l1
  l2 = l2
  Job = {"export"}
  Layer = {l1}
  Worker = {w1, w2}
  None = None
  Kind <- AllKinds
  Wants <- AllWants
  Attempts = 2
  MaxStalled = 1
  MaxRetries = 1
  MaxRows = 1
SPECIFICATION LiveSpec
CHECK_DEADLOCK FALSE
PROPERTIES
  QueuedRowEnds
  JobEnds
