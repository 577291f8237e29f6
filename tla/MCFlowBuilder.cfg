\* Every order of add_packet, check_timeouts, flush and source_stats calls.
CONSTANTS
  window_sec = 1
  max_entries = 1
  Headers <- MCHeaders
  tcp_flow_timeout = 2
  udp_flow_timeout = 1
  general_flow_timeout = 1
  max_active_flows = 2
  max_history_per_flow = 2
  Times <- MCTimes
  MaxPackets = 3
SPECIFICATION Spec
INVARIANTS TypeOK CountersAccount EveryFlowOnce NeverSplit SummariesExact CloseIsLast
PROPERTIES LedgerSpec EvictsLeastRecent
