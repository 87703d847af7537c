\* A Docker or an HTTP run settles and its Cancel command is delivered, despite a crash, a
\* shutdown and a failing file operation.
SPECIFICATION FairSpec
CONSTANTS
  r1 = r1
  r2 = r2
  Run = {r1, r2}
  KindOf <- DockerAndHTTP
  Slots <- OneSlot
  MaxRecords = 1
  Overtakes = FALSE
  MaxSent = 1
  MaxDrains = 1
  MaxCrashes = 1
  MaxFaults = 1
PROPERTIES AcceptedSettles CommandsDelivered
CHECK_DEADLOCK FALSE
