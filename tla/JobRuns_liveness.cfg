\* Fair scheduling: three runs share one slot and workers crash.
SPECIFICATION FairSpec
CONSTANTS
  j1 = j1
  j2 = j2
  NoJob = NoJob
  NoRun = NoRun
  Job = {j1}
  Key = {}
  OverlapPolicy <- AllSerial
  MaxQueueSize <- AllTwo
  MaxConcurrentRuns <- AllOne
  TenantMax = 2
  MaxRetries <- AllZero
  FixedDelay = {}
  Once = {}
  Broadcast = {}
  Children <- NoChildren
  MaxShards = 1
  MaxRuns = 3
  MaxRoots = 3
  MaxToken = 2
  MaxEdits = 0
  Stalls = FALSE
PROPERTIES EveryRunSettles
CHECK_DEADLOCK FALSE
