SPECIFICATION Spec
CONSTANTS
  CommandLines <- SomeCommandLines
  Happenings = {"load", "store", "retried_load"}
  MaxEvents = 4
  Width = 2
INVARIANTS TypeOK SamplesAreSound AfuRunsAsAsked PingsAreAnswered
PROPERTY Terminates
CHECK_DEADLOCK FALSE
