\* One writer: an opportunity made before the duplicate check is written after it.
SPECIFICATION Spec
CONSTANTS
  None = None
  Writers = {w1}
  Records <- MissionRecords
  MaxTime = 1
  MaxEvents = 2
CHECK_DEADLOCK FALSE
INVARIANTS
  ChainVerifies
