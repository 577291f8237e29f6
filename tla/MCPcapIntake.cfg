\* All three modes, whole files: failing predictions, Ctrl+C and a kill at any step.
CONSTANTS
  window_sec = 1
  max_entries = 2
  Headers <- MCHeaders
  tcp_flow_timeout = 2
  udp_flow_timeout = 1
  general_flow_timeout = 1
  max_active_flows = 1
  max_history_per_flow = 1
  Times <- MCTimes
  MaxPackets = 4
  Reorder = 0
  PredictRaises = TRUE
  Modes = {"watch", "serve", "replay"}
  Files <- ThreeFiles
  Copying = FALSE
  Interrupts = TRUE
  IDLE_CHECK_INTERVAL_SEC = 1
  MaxWall = 2
  MaxRestarts = 1
  RememberFlows = FALSE
SPECIFICATION IntakeFairSpec
INVARIANTS ProcessedMeansRead ExitComplete
PROPERTIES NewFilesProcessed WatchClosesIdle
CHECK_DEADLOCK FALSE
