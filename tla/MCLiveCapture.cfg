\* Capture, sweeper, Ctrl+C and failing predictions in every interleaving.
CONSTANTS
  k1 = k1
  k2 = k2
  Keys <- MCKeys
  max_active_flows = 1
  Timeout = 1
  PredictRaises = TRUE
  Interrupts = TRUE
  Programs = {"capture_live", "demo"}
  MaxFlows = 2
  MaxTime = 2
SPECIFICATION FairSpec
INVARIANTS CapacityBound OncePerThread OneThreadIsClean
PROPERTIES IdleLeavesTable FlushScoresActive
CHECK_DEADLOCK FALSE
