SPECIFICATION PersistenceSpec
CONSTANTS
  Sources = {s1}
  Global = global
  Damaged = damaged
  Anomalies = {5, 90}
  Fused = {5, 45}
  Specialists = {0, 80}
  Boosts = {0, 25}
  Rules <- MCRules
  Configured <- MCConfigured
  Faults = {"write", "reasoning"}
  FlushN = 2
  MinSegments = 0
  MaxStore = 3
  RecordTtl = 0
  RetrievalGap = 0
  NearWindow = 0
  NearThreshold = 2
  MaxNearMisses = 2
  AggregateMin = 2
  SampleRate = 1
  PanicThreshold = 2
  PanicWindow = 1
  MaxEvents = 2
  MaxFaults = 3
  NoSave = NoSave
  MaxRuns = 2
  MaxClock = 2
INVARIANTS DiskTypeOK RuleHeard BlockedRemembered
  
CHECK_DEADLOCK FALSE
