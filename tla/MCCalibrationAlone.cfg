\* Violated: what calibration saves when it is run by itself, nothing can load.
CONSTANTS
  MaxJobs = 4
  MaxCalls = 0
  MaxJobsServing = 0
SPECIFICATION ServingSpec
INVARIANT CalibrationEnablesTuning
CHECK_DEADLOCK FALSE
