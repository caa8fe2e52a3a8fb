\* Two callers on one action, and a call that dies anywhere.
SPECIFICATION Spec
CONSTANTS
  None = None
  Callers = {c1, c2}
  Requests <- OneAction
  ActionIds = {"a1"}
  Bodies = {"b1", "b2"}
  Configurations <- WithAndWithoutBackend
  MaxStamps = 5
  MaxRuns = 5
  MaxAborts = 1
SYMMETRY Symmetry
INVARIANTS
  TypeOK RunsAreAccounted CompletionHasPrepare AnswersAgree
