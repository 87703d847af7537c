--------------------------- MODULE MCTransactions ---------------------------
(***************************************************************************)
(* The models of overlapping transactions side by side.  A behaviour stays in   *)
(* one scenario and the variables of the others keep their initial values:      *)
(*                                                                         *)
(*   rearm     RearmTx: the shards of a fixed_delay broadcast (cfg)          *)
(*   serial    BlockPolicyTx: two triggers, two schedulers, a retry          *)
(*   discard   BlockPolicyTx: three triggers of discard_later, two retries    *)
(*   cover     BlockPolicyTx: two triggers of cover_early                    *)
(*   claims    ClaimTx: two Cores claim three runs that appear in order          *)
(*   unordered ClaimTx: two Cores claim three runs of a cluster, in any order     *)
(*   graph     DependencyGraph: calls of SetJobDependencies, one at a time    *)
(*   outbox    Notifications: two workers, two channels, one channel operation   *)
(*   channels  Notifications: one worker, two channels, two channel operations   *)
(*   sender    Sender: one notifier, two deliveries, one slot                  *)
(*   history   Retention: the clean-ups beside the runs, one of them late       *)
(***************************************************************************)
EXTENDS RearmTx, TLC

CONSTANTS t1, t2, t3, c1, c2, j1, j2, j3, NoTx, NoJob, Worker, NoWorker

VARIABLES
  scenario,
  status, open, jobQueue, jobRow, failing, retries,   \* BlockPolicyTx
  edges, call,                                        \* DependencyGraph
  runRow, lapsed, claimTx, clusterLock, uncounted, lapses,   \* ClaimTx
  emitted, published, channel, delivery, prep, hold, stop, opened, edits, crashes,
  kind, sdCtx, sdPc, unstarted, stage, age, held, attempts, taken, outcome, backoff,
  history, housed, partition, kept, old, settled, purged, maintPc, overdue, broken

Serial == INSTANCE BlockPolicyTx WITH
  tx <- open, Policy <- "serial", MaxQueue <- 1, Trigger <- {t1, t2}, Scheduler <- {c1, c2},
  MaxRuns <- 5, MaxRetries <- 1

Discard == INSTANCE BlockPolicyTx WITH
  tx <- open, Policy <- "discard_later", MaxQueue <- 1, Trigger <- {t1, t2, t3}, Scheduler <- {},
  MaxRuns <- 5, MaxRetries <- 2

Cover == INSTANCE BlockPolicyTx WITH
  tx <- open, Policy <- "cover_early", MaxQueue <- 1, Trigger <- {t1, t2}, Scheduler <- {},
  MaxRuns <- 5, MaxRetries <- 0

Claims == INSTANCE ClaimTx WITH
  ClaimRun <- 1..3, ClaimCore <- Worker, JobOf <- <<1, 2, 2>>, ClusterOf <- <<1, 1, 0>>,
  JobMax <- <<2, 1>>, ClusterMax <- <<1>>, TenantMax <- 2, ClaimLimit <- 2, InOrder <- TRUE, MaxLapses <- 1

Unordered == INSTANCE ClaimTx WITH
  ClaimRun <- 1..3, ClaimCore <- Worker, JobOf <- <<1, 2, 2>>, ClusterOf <- <<1, 1, 1>>,
  JobMax <- <<2, 1>>, ClusterMax <- <<1>>, TenantMax <- 2, ClaimLimit <- 2, InOrder <- FALSE, MaxLapses <- 1

Graph == INSTANCE DependencyGraph WITH tx <- call, Job <- {j1, j2, j3}, Caller <- {c1}

Outbox == INSTANCE Notifications WITH
  Event <- {"e1"}, Channel <- {"ch1", "ch2"}, Subscribed <- {"e1"} \X {"ch1", "ch2"},
  MaxAttempts <- 2, MaxClaims <- 2, MaxEdits <- 1, MaxCrashes <- 0, Stalls <- TRUE

Stops == INSTANCE Notifications WITH
  Worker <- {"w0"},
  Event <- {"e1"}, Channel <- {"ch1", "ch2"}, Subscribed <- {"e1"} \X {"ch1", "ch2"},
  MaxAttempts <- 2, MaxClaims <- 2, MaxEdits <- 2, MaxCrashes <- 1, Stalls <- TRUE

Notifier == INSTANCE Sender WITH
  Item <- {"d1", "d2"}, Concurrency <- 1, Lease <- 3, MaxAttempts <- 4, Initial <- 2, Maximum <- 5

History == INSTANCE Retention WITH
  OldRun <- {"r1", "r2"}, Late <- {"r2"}, Batch <- 1, Table <- {"dispatches", "commands"}

WorkerSymmetry == Permutations(Worker)

policyVars == <<status, open, jobQueue, jobRow, failing, retries>>
graphVars == <<edges, call>>
outboxVars == <<emitted, published, channel, delivery, prep, hold, stop, opened, edits, crashes>>
senderVars == <<kind, sdCtx, sdPc, unstarted, stage, age, held, attempts, taken, outcome, backoff>>
historyVars == <<history, housed, partition, kept, old, settled, purged, maintPc, overdue, broken>>
claimVars == <<runRow, lapsed, claimTx, clusterLock, uncounted, lapses>>
runVars == <<vars, policyVars, graphVars, claimVars>>
outputVars == <<outboxVars, senderVars, historyVars>>
allVars == <<scenario, runVars, outputVars>>

OutboxAtRest == Outbox!Init /\ \A c \in DOMAIN channel : ~channel[c].enabled
SenderAtRest == Notifier!SenderInit /\ \A d \in DOMAIN kind : kind[d] = "email"
HistoryAtRest == History!RetentionInit /\ broken = {}

MCInit ==
  /\ scenario \in {"rearm", "serial", "discard", "cover", "claims", "unordered", "graph", "outbox",
                  "channels", "sender", "history"}
  /\ Init /\ Graph!Init
  /\ \/ scenario = "discard" /\ Discard!Init
     \/ scenario = "cover" /\ Cover!Init
     \/ scenario \notin {"discard", "cover"} /\ Serial!Init
  /\ IF scenario = "unordered" THEN Unordered!ClaimInit ELSE Claims!ClaimInit
  /\ \/ scenario = "outbox" /\ Outbox!Init
     \/ scenario = "channels" /\ Stops!Init
     \/ scenario \notin {"outbox", "channels"} /\ OutboxAtRest
  /\ IF scenario = "sender" THEN Notifier!SenderInit ELSE SenderAtRest
  /\ IF scenario = "history" THEN History!RetentionInit ELSE HistoryAtRest

PolicyNext ==
  \/ scenario = "serial" /\ Serial!Next
  \/ scenario = "discard" /\ Discard!Next
  \/ scenario = "cover" /\ Cover!Next

RunNext ==
  \/ scenario = "rearm" /\ Next /\ UNCHANGED <<policyVars, graphVars, claimVars>>
  \/ PolicyNext /\ UNCHANGED <<vars, graphVars, claimVars>>
  \/ scenario = "claims" /\ Claims!ClaimNext /\ UNCHANGED <<vars, policyVars, graphVars>>
  \/ scenario = "unordered" /\ Unordered!ClaimNext /\ UNCHANGED <<vars, policyVars, graphVars>>
  \/ scenario = "graph" /\ Graph!Next /\ UNCHANGED <<vars, policyVars, claimVars>>

OutputNext ==
  \/ scenario = "outbox" /\ Outbox!Next /\ UNCHANGED <<senderVars, historyVars>>
  \/ scenario = "channels" /\ Stops!Next /\ UNCHANGED <<senderVars, historyVars>>
  \/ scenario = "sender" /\ Notifier!SenderNext /\ UNCHANGED <<outboxVars, historyVars>>
  \/ scenario = "history" /\ History!RetentionNext /\ UNCHANGED <<outboxVars, senderVars>>

MCNext ==
  /\ scenario' = scenario
  /\ \/ RunNext /\ UNCHANGED outputVars
     \/ OutputNext /\ UNCHANGED runVars

MCSpec == MCInit /\ [][MCNext]_allVars

(* Triggers alone keep one active run under discard_later, whatever FailRuns    *)
(* retry meanwhile, and under cover_early while none does; under serial,        *)
(* triggers, schedulers and retries together exceed max_queue_size by one run    *)
(* and the retries (TriggerJobWithOptions under its advisory lock, EnqueueDue,   *)
(* insertRetryRunTx); overlapping claims keep to every limit while runs appear   *)
(* in order, and to that of a cluster they locked in any order (ClaimRuns);      *)
(* calls of SetJobDependencies that do not overlap leave no directed cycle.      *)
ChecksSerialise ==
  /\ scenario = "discard" => Discard!OneActiveRun
  /\ scenario = "cover" => Cover!OneActiveRun
  /\ scenario = "serial" => Serial!QueueOvershootBounded
  /\ scenario = "claims" => Claims!ClaimsWithinLimits
  /\ scenario = "unordered" => Unordered!LockedIsNotOversold
  /\ Graph!Acyclic

(* A worker that ends a delivery is the one that claimed it last, and a channel    *)
(* that was stopped has nothing left to send, also when an event is being matched  *)
(* to it at that moment (finishNotificationDelivery, DeleteNotificationChannel).  *)
DeliveriesFenced ==
  /\ scenario = "outbox" => Outbox!LatestClaimEnds /\ Outbox!StoppedChannelQuiet
  /\ scenario = "channels" => Stops!LatestClaimEnds /\ Stops!StoppedChannelQuiet

(* An event is published only when its deliveries have ended; one recorded as      *)
(* delivered was taken by its provider; each attempt ends within the lease of its   *)
(* batch, and each retry waits for its backoff (finishNotificationDelivery,       *)
(* deliver, processDeliveries, retryDelay).                                   *)
EventsAreDelivered ==
  /\ scenario = "outbox" => Outbox!PublishedIsSettled
  /\ scenario = "channels" => Stops!PublishedIsSettled
  /\ scenario = "sender" =>
       Notifier!DeliveredWasTaken /\ Notifier!AttemptWithinLease /\ Notifier!RetriesBackOff

(* Clean-ups, purges and dropped partitions take no active run, unpublished event   *)
(* or undelivered command, and a purged run leaves nothing of its own behind        *)
(* (PurgeRunHistory, CleanupAuxiliaryHistory, MaintainRunPartitions).           *)
DeletesOnlyHistory ==
  [][scenario = "history" => History!KeepsWhatIsNeeded /\ History!PurgeIsComplete']_allVars
=============================================================================
