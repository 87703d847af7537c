-------------------------- MODULE MCJobRunScenarios --------------------------
(***************************************************************************)
(* Small instances of JobRuns side by side.  The configuration of the jobs  *)
(* is constant, so a behaviour picks one of seven scenarios and stays in it:   *)
(*                                                                         *)
(*   capacity    a broadcast and a plain serial job at their claim limits    *)
(*   discard     a once-job with discard_later and an idempotency key        *)
(*   cover       a cover_early job with an idempotency key                   *)
(*   dependents  a serial job that feeds a cover_early broadcast             *)
(*   fixed_delay a fixed_delay broadcast, triggered by hand as well          *)
(*   retries     the same with room for a retry of every shard               *)
(*   edits       a fixed_delay job that is disabled, enabled and edited      *)
(***************************************************************************)
EXTENDS Integers, FiniteSets, Sequences

CONSTANTS j1, j2, NoJob, NoRun

VARIABLES scenario, runs, nextId, events, commands, idem, deps, armed, enabled, work, sent, edits

both == {j1, j2}
all(J, x) == [j \in J |-> x]
none(J) == all(J, <<>>)

Capacity == INSTANCE JobRuns WITH
  Job <- both, Key <- {}, OverlapPolicy <- all(both, "serial"),
  MaxQueueSize <- all(both, 2), MaxConcurrentRuns <- all(both, 1), TenantMax <- 2,
  MaxRetries <- all(both, 0), FixedDelay <- {}, Once <- {}, Broadcast <- {j1}, Children <- none(both),
  MaxShards <- 2, MaxRuns <- 3, MaxRoots <- 3, MaxToken <- 1, MaxEdits <- 0, Stalls <- FALSE

Discard == INSTANCE JobRuns WITH
  Job <- {j1}, Key <- {"a"}, OverlapPolicy <- all({j1}, "discard_later"),
  MaxQueueSize <- all({j1}, 2), MaxConcurrentRuns <- all({j1}, 2), TenantMax <- 2,
  MaxRetries <- all({j1}, 0), FixedDelay <- {}, Once <- {j1}, Broadcast <- {}, Children <- none({j1}),
  MaxShards <- 1, MaxRuns <- 3, MaxRoots <- 3, MaxToken <- 1, MaxEdits <- 0, Stalls <- FALSE

Cover == INSTANCE JobRuns WITH
  Job <- {j1}, Key <- {"a"}, OverlapPolicy <- all({j1}, "cover_early"),
  MaxQueueSize <- all({j1}, 2), MaxConcurrentRuns <- all({j1}, 2), TenantMax <- 2,
  MaxRetries <- all({j1}, 0), FixedDelay <- {}, Once <- {}, Broadcast <- {}, Children <- none({j1}),
  MaxShards <- 1, MaxRuns <- 3, MaxRoots <- 3, MaxToken <- 1, MaxEdits <- 0, Stalls <- FALSE

Dependents == INSTANCE JobRuns WITH
  Job <- both, Key <- {}, OverlapPolicy <- [j \in both |-> IF j = j1 THEN "serial" ELSE "cover_early"],
  MaxQueueSize <- all(both, 2), MaxConcurrentRuns <- all(both, 2), TenantMax <- 3,
  MaxRetries <- all(both, 0), FixedDelay <- {}, Once <- {}, Broadcast <- {j2},
  Children <- [j \in both |-> IF j = j1 THEN <<j2>> ELSE <<>>],
  MaxShards <- 2, MaxRuns <- 5, MaxRoots <- 2, MaxToken <- 1, MaxEdits <- 0, Stalls <- FALSE

FixedDelays == INSTANCE JobRuns WITH
  Job <- {j1}, Key <- {}, OverlapPolicy <- all({j1}, "cover_early"),
  MaxQueueSize <- all({j1}, 2), MaxConcurrentRuns <- all({j1}, 2), TenantMax <- 2,
  MaxRetries <- all({j1}, 1), FixedDelay <- {j1}, Once <- {}, Broadcast <- {j1}, Children <- none({j1}),
  MaxShards <- 2, MaxRuns <- 3, MaxRoots <- 2, MaxToken <- 1, MaxEdits <- 0, Stalls <- FALSE

Retries == INSTANCE JobRuns WITH
  Job <- {j1}, Key <- {}, OverlapPolicy <- all({j1}, "cover_early"),
  MaxQueueSize <- all({j1}, 2), MaxConcurrentRuns <- all({j1}, 2), TenantMax <- 2,
  MaxRetries <- all({j1}, 1), FixedDelay <- {j1}, Once <- {}, Broadcast <- {j1}, Children <- none({j1}),
  MaxShards <- 2, MaxRuns <- 4, MaxRoots <- 1, MaxToken <- 1, MaxEdits <- 0, Stalls <- FALSE

Edits == INSTANCE JobRuns WITH
  Job <- {j1}, Key <- {}, OverlapPolicy <- all({j1}, "serial"),
  MaxQueueSize <- all({j1}, 2), MaxConcurrentRuns <- all({j1}, 2), TenantMax <- 2,
  MaxRetries <- all({j1}, 0), FixedDelay <- {j1}, Once <- {}, Broadcast <- {}, Children <- none({j1}),
  MaxShards <- 1, MaxRuns <- 2, MaxRoots <- 2, MaxToken <- 1, MaxEdits <- 2, Stalls <- FALSE

vars == <<scenario, runs, nextId, events, commands, idem, deps, armed, enabled, work, sent, edits>>

Init ==
  \/ scenario = "capacity" /\ Capacity!Init
  \/ scenario = "discard" /\ Discard!Init
  \/ scenario = "cover" /\ Cover!Init
  \/ scenario = "dependents" /\ Dependents!Init
  \/ scenario = "fixed_delay" /\ FixedDelays!Init
  \/ scenario = "retries" /\ Retries!Init
  \/ scenario = "edits" /\ Edits!Init

Next ==
  /\ scenario' = scenario
  /\ \/ scenario = "capacity" /\ Capacity!Next
     \/ scenario = "discard" /\ Discard!Next
     \/ scenario = "cover" /\ Cover!Next
     \/ scenario = "dependents" /\ Dependents!Next
     \/ scenario = "fixed_delay" /\ FixedDelays!Next
     \/ scenario = "retries" /\ Retries!Next
     \/ scenario = "edits" /\ Edits!Next

Spec == Init /\ [][Next]_vars

-----------------------------------------------------------------------------
(* ClaimRuns keeps to the limits of the tenant and of the jobs, triggers and      *)
(* schedules do not fill a queue beyond max_queue_size, and under discard_later   *)
(* and cover_early one trigger is active at a time (decideBlockAction,            *)
(* applyBlockAction).                                                         *)
LimitsRespected ==
  /\ scenario = "capacity" => Capacity!CapacityRespected /\ Capacity!QueueBounded
  /\ scenario = "discard" => Discard!OneTriggerActive
  /\ scenario = "cover" => Cover!OneTriggerActive

(* A run that is cancelled or covered while an executor may have it leaves a   *)
(* cancel command (enqueueExecutorCancellationTx).                           *)
CancellationQueued ==
  /\ scenario = "discard" => Discard!CancellationQueued
  /\ scenario = "cover" => Cover!CancellationQueued


(* Each success of the parent triggers each child once, and nothing else does  *)
(* (enqueueDependentRuns).                                                   *)
DependentsOnce == scenario = "dependents" => Dependents!DependentsOnce

(* A fixed_delay job has no next instant while a run of its schedule, retry or      *)
(* shard, is unfinished, and an enabled one without a next instant has an           *)
(* unfinished run that will set it, also when the job is edited (rearmFixedDelay,   *)
(* UpdateJob, SetJobEnabled).                                                  *)
FixedDelayRearmed ==
  /\ scenario = "fixed_delay" => FixedDelays!FixedDelayWaits /\ FixedDelays!FixedDelayNotLost
  /\ scenario = "retries" => Retries!FixedDelayWaits /\ Retries!FixedDelayNotLost
  /\ scenario = "edits" => Edits!FixedDelayNotLost
=============================================================================
