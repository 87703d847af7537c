----------------------------- MODULE MCProgress -----------------------------
(***************************************************************************)
(* What must happen in the end, in four parts that run beside each other, one    *)
(* scenario each; a behaviour stays in one and the other parts are stopped or    *)
(* have nothing to do:                                                        *)
(*                                                                         *)
(*   outbox         Notifications: two workers, two channels, a crash (cfg)      *)
(*   engine         Engine: two runs, one worker slot, the stop                  *)
(*   history        Retention: the maintenance loop and one run                  *)
(*   registrations  Registry: two heartbeats of an executor that goes away        *)
(***************************************************************************)
EXTENDS Notifications

VARIABLES
  scenario,
  ctxDone, loopPc, wake, inHand, row, worker, cut, accepted, unplaceable, loops, poolClosed,
  history, housed, partition, kept, old, settled, purged, maintPc, overdue, broken,
  group, nodeRow, nodeKey, revision, leases, reg, registrar, beat, unregister, crossing, seen, edited

(* Every channel is subscribed to every event.                              *)
AllPairs == Event \X Channel

Loop == INSTANCE Engine WITH Run <- {"r1", "r2"}, Workers <- 1

History == INSTANCE Retention WITH OldRun <- {"r1"}, Late <- {}, Batch <- 1, Table <- {"dispatches"}

Registrations == INSTANCE Registry WITH
  Call <- {"h1", "h2"}, Editor <- {}, Caller <- {}, Body <- {}, MaxVersion <- 2

outboxVars == vars
engineVars == <<ctxDone, loopPc, wake, inHand, row, worker, cut, accepted, unplaceable, loops, poolClosed>>
historyVars == <<history, housed, partition, kept, old, settled, purged, maintPc, overdue, broken>>
registryVars == <<group, nodeRow, nodeKey, revision, leases, reg, registrar, beat, unregister, crossing,
                  seen, edited>>
allVars == <<scenario, outboxVars, engineVars, historyVars, registryVars>>

(* An outbox without events, an engine that has stopped, no executor.          *)
OutboxAtRest == Init /\ \A c \in Channel : ~channel[c].enabled
EngineAtRest ==
  /\ loopPc = "returned" /\ wake = FALSE /\ inHand = {}
  /\ row = [r \in {"r1", "r2"} |-> "due"] /\ worker = [r \in {"r1", "r2"} |-> "none"]
  /\ cut = {} /\ accepted = {} /\ unplaceable = FALSE
  /\ ctxDone = TRUE /\ loops = {} /\ poolClosed = TRUE
HistoryAtRest == History!RetentionInit /\ broken = {}
RegistryAtRest == Registrations!RegistryInit /\ group.version = 0

MCInit ==
  \/ scenario = "outbox" /\ Init /\ EngineAtRest /\ HistoryAtRest /\ RegistryAtRest
  \/ scenario = "engine" /\ OutboxAtRest /\ Loop!EngineInit /\ HistoryAtRest /\ RegistryAtRest
  \/ scenario = "history" /\ OutboxAtRest /\ EngineAtRest /\ History!RetentionInit /\ RegistryAtRest
  \/ scenario = "registrations" /\ OutboxAtRest /\ EngineAtRest /\ HistoryAtRest /\ Registrations!RegistryInit

MCNext ==
  /\ scenario' = scenario
  /\ \/ scenario = "outbox" /\ Next /\ UNCHANGED <<engineVars, historyVars, registryVars>>
     \/ scenario = "engine" /\ Loop!EngineNext /\ UNCHANGED <<outboxVars, historyVars, registryVars>>
     \/ scenario = "history" /\ History!RetentionNext /\ UNCHANGED <<outboxVars, engineVars, registryVars>>
     \/ scenario = "registrations" /\ Registrations!RegistryNext
        /\ UNCHANGED <<outboxVars, engineVars, historyVars>>

(* maintenanceLoop ticks and its statements end; time passes.  Nobody has to      *)
(* end a run or to purge it.                                                  *)
HistoryFairness ==
  /\ WF_historyVars(scenario = "history" /\ History!maintenanceLoop)
  /\ WF_historyVars(scenario = "history" /\ History!maintain)
  /\ WF_historyVars(scenario = "history" /\ History!Age(<<"dispatches", "r1">>))
  /\ \A t \in {"partitions", "auxiliary", "runs"} :
       WF_historyVars(scenario = "history" /\ History!IntervalPasses(t))

MCSpec ==
  /\ MCInit /\ [][MCNext]_allVars
  /\ Fairness /\ Loop!EngineFairness /\ HistoryFairness /\ Registrations!RegistryFairness

(* A pending run is claimed, unless the engine stops, although a broadcast job      *)
(* without nodes may fail ticks, as long as it does not stay without nodes for       *)
(* ever, and a stopped engine ends (loop, tick, EnqueueDue, Wait).                  *)
EngineProgress == Loop!EngineProgress

(* What has ended is forgotten: a terminal run and the rows of a run that a dropped  *)
(* partition took are deleted, whatever happens to the partitions, and an executor    *)
(* that has gone is no longer listed (maintain, RegisterExecutorNode's lease).     *)
EndedIsForgotten == History!HistoryGoes /\ Registrations!GoneIsForgotten
=============================================================================
