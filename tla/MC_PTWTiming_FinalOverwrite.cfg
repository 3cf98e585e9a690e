\* Once the walk's latency is computed nothing more happens.
CONSTANTS
  Walks <- MC_ProbeWalks
  Latencies = {1, 3}
  FaultLatency = 5
  MaxTables = 1
  MaxLevels = 2
SPECIFICATION Spec
CHECK_DEADLOCK FALSE
INVARIANTS
  LevelLatencyIsMax
