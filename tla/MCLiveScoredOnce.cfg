\* Violated: two threads take the same flow.
CONSTANTS
  k1 = k1
  k2 = k2
  Keys <- MCKeys
  max_active_flows = 1
  Timeout = 1
  PredictRaises = FALSE
  Interrupts = FALSE
  Programs = {"capture_live"}
  MaxFlows = 2
  MaxTime = 2
SPECIFICATION Spec
INVARIANT ScoredOnce
CHECK_DEADLOCK FALSE
