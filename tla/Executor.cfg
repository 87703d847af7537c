\* Once the runs have settled nothing is left to do.
SPECIFICATION Spec
CONSTANTS
  r1 = r1
  r2 = r2
INVARIANTS AcceptedWorkIsKept CancelHolds RecoverySafe WorkloadIsItsOwn
 
CHECK_DEADLOCK FALSE
