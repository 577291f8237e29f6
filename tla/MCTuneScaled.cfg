\* AccuracyAsReported is violated: the heavy network that is right on scaled
\* sequences is measured on raw ones.
CONSTANTS
  Confidences <- MCConfidences
  Thetas <- MCThetas
  MAX_HEAVY_PERCENT = 40
  MaxFlows = 3
  Intervals <- MCIntervals
  Durations <- MCDurations
  BufferSize = 1
SPECIFICATION ReplaySpec
INVARIANT AccuracyAsReported
CHECK_DEADLOCK FALSE
