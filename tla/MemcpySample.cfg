SPECIFICATION Spec
CONSTANTS
  Procs = {p1}
  QueueLength = 3
  Completions = {"poll", "irq", "wake"}
INVARIANTS SuccessMeansDone FailsForAReason
PROPERTY Terminates
CHECK_DEADLOCK FALSE
