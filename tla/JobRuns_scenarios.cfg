\* Seven configurations of jobs; the rows of each run out, so the system stops.
SPECIFICATION Spec
CONSTANTS
  j1 = j1
  j2 = j2
  NoJob = NoJob
  NoRun = NoRun
INVARIANTS LimitsRespected CancellationQueued DependentsOnce FixedDelayRearmed
 
CHECK_DEADLOCK FALSE
