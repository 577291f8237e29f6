\* Predictions may raise, timestamps may step back; what needs them in order
\* says so.
CONSTANTS
  window_sec = 1
  max_entries = 2
  Headers <- MCHeaders
  tcp_flow_timeout = 2
  udp_flow_timeout = 1
  general_flow_timeout = 1
  max_active_flows = 2
  max_history_per_flow = 1
  Times <- MCTimes
  MaxPackets = 3
  Reorder = 2
  PredictRaises = TRUE
SPECIFICATION PipelineSpec
INVARIANTS NoIdleFlowLeft ScoredOnce NothingLost PredictionsReconcile
PROPERTY CloseScoredExactly
