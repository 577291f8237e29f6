\* Times may step back by one; what holds of calls in time order says so.
CONSTANTS
  window_sec = 1
  max_entries = 2
  Sources <- MCSources
  Targets <- MCTargets
  MaxTime = 3
  MaxRecords = 4
  Reorder = 1
SPECIFICATION Spec
INVARIANTS TypeOK BoundedHistory SuffixOfRecorded
PROPERTY AnswerExact
