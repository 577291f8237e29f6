\* Any five jobs, each of which may be cut off at any step; three with two loads
\* beside them.
CONSTANTS
  MaxJobs = 5
  MaxCalls = 2
  MaxJobsServing = 3
SPECIFICATION ServingSpec
INVARIANTS TunedAsDeployed MadeForEachOther ServedFits
CHECK_DEADLOCK FALSE
