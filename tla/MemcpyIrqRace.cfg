SPECIFICATION Spec
CONSTANTS
  Procs = {p1}
  QueueLength = 3
  Completions = {"irq"}
INVARIANT FailsOnlyInTrouble
CHECK_DEADLOCK FALSE
