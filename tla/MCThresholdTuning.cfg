\* Every validation split of up to three flows, tuned and replayed.
CONSTANTS
  Confidences <- MCConfidences
  Thetas <- MCThetas
  MAX_HEAVY_PERCENT = 40
  MaxFlows = 3
  Intervals <- MCIntervals
  Durations <- MCDurations
  BufferSize = 1
SPECIFICATION ReplaySpec
INVARIANTS   PacedOrCounted AlertsComplete
CHECK_DEADLOCK FALSE
