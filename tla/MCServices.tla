----------------------------- MODULE MCServices -----------------------------
(***************************************************************************)
(* The parts around the queue of runs, one scenario each; a behaviour stays in  *)
(* one:                                                                      *)
(*                                                                         *)
(*   pool       ConnectionPool: two callers, three targets (cfg)             *)
(*   commands   CommandQueue: two Cores, two cancel commands                  *)
(*   routes     Routing: two Cores that route a job over four nodes, under      *)
(*              every strategy but lru, whose clock is not the commits'         *)
(*   resolver   Discovery: the watch of the API's resolver                     *)
(*   engine     Engine: one Core with three runs and two worker slots           *)
(*   process    Lifecycle: start and stop of the four programs                 *)
(*   probing    Probing: failover and busyover over two nodes                  *)
(***************************************************************************)
EXTENDS ConnectionPool, Sequences

CONSTANTS Core, Cmd, Instance

VARIABLES
  scenario,
  status, available, locked_by, lock, attempts, work, taken,
  strategy, key, live, counter, rowLock, use, last, tx, time, changes, picks,
  registered, rev, compacted, pc, from, missed, published,
  ctxDone, loopPc, wake, inHand, row, worker, cut, accepted, unplaceable, loops, poolClosed,
  mode, phase, served, todo, stopExpired, runCtxDone, listening, calls, loopsUp, storeOpen,
  regPc, lease, sent, liveLeases, listed, granted, withdrawal,
  nodeKind, fits, override, wanted, where, active, picking, refused, picked

Commands == INSTANCE CommandQueue WITH Batch <- 2, MaxAttempts <- 2

Routes == INSTANCE Routing WITH
  Node <- 1..4, Labels <- <<{"gpu"}, {"gpu"}, {"gpu"}, {"gpu", "old"}>>, Required <- {"gpu"}, Excluded <- {"old"},
  Override <- {1, 3}, Ring <- <<{1, 7}, {4}, {2, 9}, {5}>>, Keys <- {3, 8},
  Strategies <- {"first", "last", "round", "random", "hash", "lfu"},
  Dispatch <- Core, MaxBegins <- 4, MaxChanges <- 1, clock <- time, lock <- rowLock

Resolver == INSTANCE Discovery WITH MaxRev <- 6

Loop == INSTANCE Engine WITH Run <- {"r1", "r2", "r3"}, Workers <- 2

Process == INSTANCE Lifecycle WITH MaxLease <- 2, MaxCalls <- 1

Probes == INSTANCE Probing WITH
  Node <- {1, 2}, Kinds <- {<<"grpc", "http">>, <<"sdk", "grpc">>}, Task <- {"t1", "t2"}

poolVars == vars
commandVars == <<status, available, locked_by, lock, attempts, work, taken>>
routeVars == <<strategy, key, live, counter, rowLock, use, last, tx, time, changes, picks>>
resolverVars == <<registered, rev, compacted, pc, from, missed, published>>
engineVars == <<ctxDone, loopPc, wake, inHand, row, worker, cut, accepted, unplaceable, loops, poolClosed>>
processVars == <<mode, phase, served, todo, stopExpired, runCtxDone, listening, calls, loopsUp, storeOpen,
                 regPc, lease, sent, liveLeases, listed, granted, withdrawal>>
probeVars == <<nodeKind, fits, override, wanted, where, active, picking, refused, picked>>
queueVars == <<poolVars, commandVars, routeVars, resolverVars>>
coreVars == <<engineVars, processVars, probeVars>>
allVars == <<scenario, queueVars, coreVars>>

RoutesAtRest == Routes!Init /\ strategy = "first" /\ key = 3 /\ live = {}
QueuesAtRest == Init /\ Commands!Init /\ RoutesAtRest /\ Resolver!Init
EngineAtRest == Loop!EngineInit /\ ~unplaceable
ProcessAtRest == Process!LifecycleInit /\ mode = "api"
ProbesAtRest ==
  Probes!ProbingInit /\ nodeKind[1] = "grpc" /\ fits = {} /\ override = {} /\ wanted = "failover"
CoreAtRest == EngineAtRest /\ ProcessAtRest /\ ProbesAtRest

MCInit ==
  \/ scenario \in {"pool", "commands", "resolver"} /\ QueuesAtRest /\ CoreAtRest
  \/ scenario = "routes" /\ Init /\ Commands!Init /\ Routes!Init /\ Resolver!Init /\ CoreAtRest
     /\ (strategy # "hash" => key = 3)
  \/ scenario = "engine" /\ QueuesAtRest /\ Loop!EngineInit /\ ProcessAtRest /\ ProbesAtRest
  \/ scenario = "process" /\ QueuesAtRest /\ EngineAtRest /\ Process!LifecycleInit /\ ProbesAtRest
  \/ scenario = "probing" /\ QueuesAtRest /\ EngineAtRest /\ ProcessAtRest /\ Probes!ProbingInit

QueueNext ==
  \/ scenario = "pool" /\ Next /\ UNCHANGED <<commandVars, routeVars, resolverVars>>
  \/ scenario = "commands" /\ Commands!Next /\ UNCHANGED <<poolVars, routeVars, resolverVars>>
  \/ scenario = "routes" /\ Routes!Next /\ UNCHANGED <<poolVars, commandVars, resolverVars>>
  \/ scenario = "resolver" /\ Resolver!Next /\ UNCHANGED <<poolVars, commandVars, routeVars>>

CoreNext ==
  \/ scenario = "engine" /\ Loop!EngineNext /\ UNCHANGED <<processVars, probeVars>>
  \/ scenario = "process" /\ Process!LifecycleNext /\ UNCHANGED <<engineVars, probeVars>>
  \/ scenario = "probing" /\ Probes!ProbingNext /\ UNCHANGED <<engineVars, processVars>>

MCNext ==
  /\ scenario' = scenario
  /\ \/ QueueNext /\ UNCHANGED coreVars
     \/ CoreNext /\ UNCHANGED queueVars

MCSpec == MCInit /\ [][MCNext]_allVars

(* The acknowledgements of cancel commands take effect for the Core whose claim    *)
(* is live and for no other (CompleteExecutorCommand, RetryExecutorCommand).     *)
CommandClaimIsKept == [][scenario = "commands" => Commands!ClaimIsKept]_allVars


(* A resolver at rest has published what is registered (etcdResolver.watch).      *)
ResolverIsCurrent == scenario = "resolver" => Resolver!WatchingIsCurrent


(* A process that stops closes its database only after its last user, and an       *)
(* instance that has withdrawn from etcd is not listed again (the OnStop hooks,    *)
(* EtcdRegistrar.Close).                                                      *)
StopIsClean == scenario = "process" => Process!StoreOutlivesUsers /\ Process!StaysWithdrawn
=============================================================================
