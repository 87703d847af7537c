\* A once job, triggered or scheduled, edited once, with two retries and room for one too many;
\* workers crash and stall, leases and callback deadlines pass, anyone cancels.  The rows run
\* out, so the system stops.
SPECIFICATION Spec
CONSTANTS
  j1 = j1
  j2 = j2
  NoJob = NoJob
  NoRun = NoRun
  Job = {j1}
  Key = {}
  OverlapPolicy <- AllSerial
  MaxQueueSize <- AllTwo
  MaxConcurrentRuns <- AllTwo
  TenantMax = 2
  MaxRetries <- AllTwo
  FixedDelay = {}
  Once = {j1}
  Broadcast = {}
  Children <- NoChildren
  MaxShards = 1
  MaxRuns = 4
  MaxRoots = 1
  MaxToken = 2
  MaxEdits = 1
  Stalls = TRUE
INVARIANTS OutboxTellsStatus FailureAccounted OneLiveAttempt DispatchedOnce
PROPERTIES ImplementsLogicalRun
CHECK_DEADLOCK FALSE
