SPECIFICATION Spec
CONSTANTS
  p1 = p1
  p2 = p2
  Procs = {p1, p2}
  QueueLength = 5
  Options <- TestOptions
INVARIANTS TypeOK RunsWhatWasPosted PassMeansDone FailsOnlyInTrouble
PROPERTY Succeeds
CHECK_DEADLOCK FALSE
