------------------------------ MODULE Lifecycle ------------------------------
(* The start and the stop of one process: core, server (standalone, Core and *)
(* API in one process), api, and the script executor.  Stopping runs the     *)
(* OnStop hooks in the reverse order of their registration; a hook is a      *)
(* sequence of steps, todo holds the steps still ahead.  fx itself is        *)
(* external: it runs no further hook once its stop context has expired.      *)
(* The registrar is a goroutine nobody waits for.  The executor is a plain   *)
(* main: its steps are the lines after its select, then its deferred calls.  *)
EXTENDS Naturals, Sequences, SequencesExt

CONSTANTS MaxLease,   \* leases granted to the registrar
          MaxCalls    \* requests served at once by one listener

VARIABLES mode,       \* which of the four programs this is
          phase,      \* "starting", "up", "stopping", "exited"
          served,     \* it has been up
          todo,       \* the steps of the OnStop hooks still ahead
          stopExpired,\* the stop context has ended
          runCtxDone, \* cancel() was called
          listening,  \* the open listeners
          calls,      \* handlers running, by the server that runs them
          loopsUp,    \* goroutines still running: engine, notifier; delivery, registrar
          storeOpen,  \* the connection pool; the executor's connection to the scheduler
          regPc, lease, sent,      \* the registrar goroutine and r.lease
          liveLeases, listed, granted,  \* etcd: leases, the key's lease (0: no key)
          withdrawal  \* what Close found: "no", "ok", "failed"

procVars == <<mode, phase, served, todo, stopExpired, runCtxDone, listening, calls,
              loopsUp, storeOpen>>
registrarVars == <<regPc, lease, sent, liveLeases, listed, granted, withdrawal>>

Server == {"grpc", "http", "inprocess", "work"}  \* "work": executions of the executor
Step(s) == phase = "stopping" /\ todo # <<>> /\ Head(todo) = s
done == todo' = Tail(todo)

\* Constructors have run: the pool is open, nothing listens, and the in-process
\* scheduler of the standalone mode is already served.
LifecycleInit ==
  /\ mode \in {"core", "server", "api", "executor"}
  /\ phase = "starting" /\ served = FALSE /\ todo = <<>>
  /\ stopExpired = FALSE /\ runCtxDone = FALSE
  /\ listening = IF mode = "server" THEN {"inprocess"} ELSE {}
  /\ calls = [s \in Server |-> 0]
  /\ loopsUp = {}
  /\ storeOpen = (mode \in {"core", "server"})
  /\ regPc = "none" /\ lease = 0 /\ sent = 0
  /\ liveLeases = {} /\ listed = 0 /\ granted = 0
  /\ withdrawal = "no"

\* OnStart of the Core: both listeners, then the goroutines.
CoreOnStart ==
  /\ mode = "core"
  /\ listening' = {"grpc", "http"}
  /\ loopsUp' = {"engine", "notifier"}
  /\ regPc' \in {"idle", "noop"}

\* OnStart of the standalone server: no registrar.
ServerOnStart ==
  /\ mode = "server"
  /\ listening' = listening \cup {"grpc", "http"}
  /\ loopsUp' = {"engine", "notifier"}
  /\ regPc' = regPc

\* OnStart of the API server.
ApiOnStart ==
  /\ mode = "api"
  /\ listening' = {"http"}
  /\ loopsUp' = {}
  /\ regPc' \in {"idle", "noop"}

\* The executor's environment, by what Run makes of it: which variables are
\* set, the two switches, and the numbers and durations.
Environment == [given : BOOLEAN, address : {"explicit", "host", "none"}, port : BOOLEAN,
                docker : {"", "true", "maybe"}, kubernetes : {"", "true", "maybe"},
                limit : 0 .. 1, timeout : 0 .. 2, reachable : BOOLEAN]

executorAdvertiseAddress(env) ==
  env.address = "explicit" \/ (env.address = "host" /\ env.port)

positiveIntEnv(value) == value >= 1
durationEnv(value, minimum, maximum) == value \in minimum .. maximum
envOr(value, fallback) == IF value # "" THEN value ELSE fallback

\* Run up to the signal handler: everything is read and built, nothing runs yet.
executorBuilt(env) ==
  /\ executorAdvertiseAddress(env) /\ env.given
  /\ envOr(env.docker, "false") \in {"true", "false"}
  /\ envOr(env.kubernetes, "false") \in {"true", "false"}
  /\ positiveIntEnv(env.limit) /\ durationEnv(env.timeout, 1, 1)
  /\ env.reachable

\* The executor's main: recovery resumes what was under way, then delivery,
\* the listener and the registrar.
ExecutorStart ==
  /\ mode = "executor"
  /\ \E env \in Environment : executorBuilt(env)
  /\ storeOpen' = TRUE
  /\ calls' \in {[calls EXCEPT !["work"] = n] : n \in 0 .. MaxCalls}
  /\ listening' = {"grpc"}
  /\ loopsUp' = {"delivery", "registrar"}
  /\ regPc' = regPc

Start ==
  /\ phase = "starting" /\ phase' = "up" /\ served' = TRUE
  /\ \/ (CoreOnStart \/ ServerOnStart \/ ApiOnStart) /\ UNCHANGED <<calls, storeOpen>>
     \/ ExecutorStart
  /\ UNCHANGED <<mode, todo, stopExpired, runCtxDone, lease,
                 sent, liveLeases, listed, granted, withdrawal>>

\* The hooks registered by the constructors, in the order they are run.
inProcessHook == IF mode = "server" THEN <<"scheduler.Close">> ELSE <<>>
storeHook == IF mode \in {"core", "server"} THEN <<"store.Close">> ELSE <<>>

\* A listener cannot be opened: the first one is closed again and OnStart
\* fails; its own OnStop is not run, those of the constructors are.
StartFails ==
  /\ phase = "starting" /\ phase' = "stopping" /\ mode # "executor"
  /\ todo' = inProcessHook \o <<"fx">> \o storeHook
  /\ UNCHANGED <<mode, served, stopExpired, runCtxDone, listening, calls, loopsUp,
                 storeOpen, registrarVars>>

\* The executor's environment is refused, or recovery fails, or the listener
\* or its credentials cannot be had: the deferred calls run, and executions
\* already resumed are not waited for.
ExecutorStartFails ==
  /\ phase = "starting" /\ phase' = "stopping" /\ mode = "executor"
  /\ \/ /\ \E env \in Environment : ~executorBuilt(env)
        /\ todo' = <<>> /\ UNCHANGED <<calls, loopsUp, storeOpen>>
     \/ /\ todo' = <<"cancelDelivery", "delivery.Wait", "connection.Close">>
        /\ storeOpen' = TRUE
        /\ calls' \in {[calls EXCEPT !["work"] = n] : n \in 0 .. MaxCalls}
        /\ loopsUp' \in {{}, {"delivery"}}
  /\ UNCHANGED <<mode, served, stopExpired, runCtxDone, listening, registrarVars>>

\* OnStop of the Core.
CoreOnStop ==
  <<"cancel", "registrar.Close", "grpc", "grpcWait", "http", "httpWait",
    "engine.Wait", "notifications.Wait">>

\* OnStop of the standalone server.
ServerOnStop ==
  <<"cancel", "grpc", "grpcWait", "http", "httpWait", "engine.Wait",
    "notifications.Wait">>

\* OnStop of the API server.
ApiOnStop == <<"cancel", "registrar.Close", "http", "httpWait">>

\* The end of the executor's main.  After an error it does not wait for the
\* registrar.
executorEnd(err) ==
  <<"cancel", "drain", "workWait", "cancelDelivery", "delivery.Wait", "grpc", "grpcWait">>
  \o (IF err THEN <<>> ELSE <<"registrar.Wait">>) \o <<"connection.Close">>

\* A signal, or its server failed.
StopExecutor ==
  /\ phase = "up" /\ phase' = "stopping" /\ mode = "executor"
  /\ \E err \in BOOLEAN :
       /\ todo' = executorEnd(err)
       /\ listening' = IF err THEN {} ELSE listening
  /\ UNCHANGED <<mode, served, stopExpired, runCtxDone, calls, loopsUp, storeOpen, registrarVars>>

\* Drain refuses dispatches from here on; cancelDelivery ends the delivery loop.
DrainOrCancel ==
  /\ Step("drain") \/ Step("cancelDelivery")
  /\ done
  /\ UNCHANGED <<mode, phase, served, stopExpired, runCtxDone, listening, calls, loopsUp,
                 storeOpen, registrarVars>>

\* The deferred connection.Close.
CloseConnection ==
  /\ Step("connection.Close") /\ done
  /\ storeOpen' = FALSE
  /\ UNCHANGED <<mode, phase, served, stopExpired, runCtxDone, listening, calls, loopsUp,
                 registrarVars>>

\* The process is asked to stop.  "fx" stands for the check between two hooks.
StopProcess ==
  /\ phase = "up" /\ phase' = "stopping" /\ mode # "executor"
  /\ todo' = (CASE mode = "core" -> CoreOnStop
                [] mode = "server" -> ServerOnStop
                [] OTHER -> ApiOnStop)
             \o <<"fx">> \o inProcessHook \o <<"fx">> \o storeHook
  /\ UNCHANGED <<mode, served, stopExpired, runCtxDone, listening, calls, loopsUp,
                 storeOpen, registrarVars>>

StopTimeout ==
  /\ phase = "stopping" /\ ~stopExpired /\ (mode = "executor" => Step("workWait"))
  /\ stopExpired' = TRUE
  /\ UNCHANGED <<mode, phase, served, todo, runCtxDone, listening, calls, loopsUp,
                 storeOpen, registrarVars>>

cancel ==
  /\ Step("cancel") /\ done
  /\ runCtxDone' = TRUE
  /\ UNCHANGED <<mode, phase, served, stopExpired, listening, calls, loopsUp, storeOpen,
                 registrarVars>>

\* GracefulStop and Shutdown close their listener first.
CloseListener(s) ==
  /\ Step(s) /\ done
  /\ listening' = listening \ {s}
  /\ UNCHANGED <<mode, phase, served, stopExpired, runCtxDone, calls, loopsUp,
                 storeOpen, registrarVars>>

\* ... and wait for the handlers.  Shutdown, the Core's GracefulStop, and Drain
\* give up when the context ends; the GracefulStop of the standalone server
\* and of the executor has no deadline.
HandlersDone(s) ==
  /\ Step(s \o "Wait") /\ done
  /\ calls[s] = 0 \/ (stopExpired /\ ~(s = "grpc" /\ mode \in {"server", "executor"}))
  /\ UNCHANGED <<mode, phase, served, stopExpired, runCtxDone, listening, calls,
                 loopsUp, storeOpen, registrarVars>>

\* engine.Wait, notifications.Wait, WaitCompletionDelivery, and five seconds at
\* most for the executor's registrar.
LoopsDone ==
  /\ \/ Step("engine.Wait") /\ "engine" \notin loopsUp
     \/ Step("notifications.Wait") /\ "notifier" \notin loopsUp
     \/ Step("delivery.Wait") /\ "delivery" \notin loopsUp
     \/ Step("registrar.Wait")
  /\ done
  /\ UNCHANGED <<mode, phase, served, stopExpired, runCtxDone, listening, calls,
                 loopsUp, storeOpen, registrarVars>>

\* Mutant: Close stops the in-process server at once.
StopInProcess ==
  /\ Step("scheduler.Close") /\ done
  /\ listening' = listening \ {"inprocess"}
  /\ UNCHANGED <<mode, phase, served, stopExpired, runCtxDone, calls, loopsUp,
                 storeOpen, registrarVars>>

\* InProcessScheduler.Close: GracefulStop, or Stop when the context ends.
CloseInProcess ==
  /\ Step("scheduler.Close") /\ done
  /\ calls["inprocess"] = 0 \/ stopExpired
  /\ listening' = listening \ {"inprocess"}
  /\ UNCHANGED <<mode, phase, served, stopExpired, runCtxDone, calls, loopsUp,
                 storeOpen, registrarVars>>

\* fx between two hooks.
fx ==
  /\ Step("fx")
  /\ todo' = IF stopExpired THEN <<>> ELSE Tail(todo)
  /\ UNCHANGED <<mode, phase, served, stopExpired, runCtxDone, listening, calls,
                 loopsUp, storeOpen, registrarVars>>

\* OpenStore's hook.
CloseStore ==
  /\ Step("store.Close") /\ done
  /\ storeOpen' = FALSE
  /\ UNCHANGED <<mode, phase, served, stopExpired, runCtxDone, listening, calls,
                 loopsUp, registrarVars>>

\* All hooks have run, or fx gave up: the process ends and with it everything
\* that ran in it.
Exit ==
  /\ phase = "stopping" /\ todo = <<>> /\ phase' = "exited"
  /\ listening' = {} /\ calls' = [s \in Server |-> 0] /\ loopsUp' = {}
  /\ regPc' = "returned"
  /\ UNCHANGED <<mode, served, todo, stopExpired, runCtxDone, storeOpen, lease, sent,
                 liveLeases, listed, granted, withdrawal>>

\* A dispatch of the executor starts an execution, unless it is draining.
dispatches == calls["grpc"] > 0 /\ mode = "executor" /\ (phase = "up" \/ Contains(todo, "drain"))

\* A request reaches a handler.  An HTTP request of the standalone server is
\* answered through the in-process scheduler, whose handler may outlive it, as
\* an execution outlives the dispatch that started it.
Serve(s) ==
  /\ phase \in {"up", "stopping"} /\ calls[s] < MaxCalls
  /\ s \in listening \/ (s = "work" /\ dispatches)
  /\ s = "inprocess" => calls["http"] > 0
  /\ calls' = [calls EXCEPT ![s] = @ + 1]
  /\ UNCHANGED <<mode, phase, served, todo, stopExpired, runCtxDone, listening, loopsUp,
                 storeOpen, registrarVars>>

Answer(s) ==
  /\ calls[s] > 0
  /\ calls' = [calls EXCEPT ![s] = @ - 1]
  /\ UNCHANGED <<mode, phase, served, todo, stopExpired, runCtxDone, listening, loopsUp,
                 storeOpen, registrarVars>>

\* A goroutine returns once its context ends; delivery has one of its own.
LoopEnds(l) ==
  /\ l \in loopsUp
  /\ IF l = "delivery" THEN phase = "stopping" /\ ~Contains(todo, "cancelDelivery") ELSE runCtxDone
  /\ loopsUp' = loopsUp \ {l}
  /\ UNCHANGED <<mode, phase, served, todo, stopExpired, runCtxDone, listening, calls,
                 storeOpen, registrarVars>>
-----------------------------------------------------------------------------
\* NoopRegistrar.Run: returns with its context.
NoopRun ==
  /\ regPc = "noop" /\ runCtxDone /\ regPc' = "returned"
  /\ UNCHANGED <<procVars, lease, sent, liveLeases, listed, granted, withdrawal>>

\* register: the lease is granted, kept in r.lease, and the key is put under it.
Grant ==
  /\ regPc = "idle" /\ ~runCtxDone /\ granted < MaxLease
  /\ granted' = granted + 1
  /\ liveLeases' = liveLeases \cup {granted + 1}
  /\ regPc' = "granted"
  /\ UNCHANGED <<procVars, lease, sent, listed, withdrawal>>

\* A call with an ended context is not sent.
Put ==
  /\ regPc = "granted"
  /\ lease' = granted
  /\ IF runCtxDone THEN regPc' = "failed" /\ UNCHANGED sent
     ELSE regPc' = "putting" /\ sent' = granted
  /\ UNCHANGED <<procVars, liveLeases, listed, granted, withdrawal>>

\* etcd takes a put whose lease is alive, whether or not the caller still waits.
PutArrives ==
  /\ sent # 0 /\ sent' = 0
  /\ IF sent \in liveLeases
     THEN listed' = sent /\ regPc' = IF regPc = "putting" THEN "kept" ELSE regPc
     ELSE listed' = listed /\ regPc' = IF regPc = "putting" THEN "failed" ELSE regPc
  /\ UNCHANGED <<procVars, lease, liveLeases, granted, withdrawal>>

\* The put is given up, or the keep-alive channel closes, or the context ends.
register ==
  /\ regPc \in {"putting", "kept"} /\ regPc' = "failed"
  /\ UNCHANGED <<procVars, lease, sent, liveLeases, listed, granted, withdrawal>>

\* Run: a second later, unless the context has ended; when both are ready
\* select takes either, and the next Grant fails.
Run ==
  /\ regPc \in {"failed", "idle"}
  /\ \/ runCtxDone /\ regPc' = "returned"
     \/ regPc = "failed" /\ regPc' = "idle"
  /\ UNCHANGED <<procVars, lease, sent, liveLeases, listed, granted, withdrawal>>

\* Registrar.Close: revokes the lease it finds; the call may fail or time out.
Close ==
  /\ Step("registrar.Close") /\ done
  /\ \/ lease = 0 /\ withdrawal' = "ok" /\ UNCHANGED <<liveLeases, listed>>
     \/ /\ lease # 0 /\ withdrawal' = "ok"
        /\ liveLeases' = liveLeases \ {lease}
        /\ listed' = IF listed = lease THEN 0 ELSE listed
     \/ lease # 0 /\ withdrawal' = "failed" /\ UNCHANGED <<liveLeases, listed>>
  /\ UNCHANGED <<mode, phase, served, stopExpired, runCtxDone, listening, calls,
                 loopsUp, storeOpen, regPc, lease, sent, granted>>

\* A lease nobody renews ends, and its key with it.
LeaseExpires(l) ==
  /\ l \in liveLeases /\ ~(regPc \in {"granted", "putting", "kept"} /\ l = granted)
  /\ liveLeases' = liveLeases \ {l}
  /\ listed' = IF listed = l THEN 0 ELSE listed
  /\ UNCHANGED <<procVars, regPc, lease, sent, granted, withdrawal>>

RegistrarNext ==
  \/ NoopRun \/ Grant \/ Put \/ PutArrives \/ register \/ Run \/ Close
  \/ \E l \in 1 .. MaxLease : LeaseExpires(l)

LifecycleNext ==
  \/ Start \/ StartFails \/ ExecutorStartFails
  \/ StopProcess \/ StopExecutor \/ StopTimeout \/ cancel \/ DrainOrCancel
  \/ \E s \in {"grpc", "http"} : CloseListener(s)
  \/ \E s \in {"grpc", "http", "work"} : HandlersDone(s)
  \/ \E s \in Server : Serve(s) \/ Answer(s)
  \/ \E l \in {"engine", "notifier", "delivery", "registrar"} : LoopEnds(l)
  \/ LoopsDone \/ CloseInProcess \/ fx \/ CloseStore \/ CloseConnection \/ Exit
  \/ RegistrarNext
-----------------------------------------------------------------------------
\* The pool is closed only when nothing of the process uses it any more: no
\* handler of any server, neither the engine nor the notifier, whatever was
\* under way when the stop began and wherever its deadline fell.  The executor
\* closes its connection after delivery has ended, every dispatch is answered
\* and every execution is over, unless the shutdown timeout cut the wait short
\* or it never came up; its registrar is only given five seconds.
StoreOutlivesUsers ==
  /\ ~storeOpen /\ mode \in {"core", "server"} => loopsUp = {} /\ \A s \in Server : calls[s] = 0
  /\ ~storeOpen /\ mode = "executor" =>
       /\ loopsUp \subseteq {"registrar"} /\ calls["grpc"] = 0
       /\ calls["work"] = 0 \/ stopExpired \/ ~served

\* An instance whose registration was withdrawn does not come back: once Close
\* has revoked the lease, no retry of Run and no put of the last registration
\* lists it again.  Only a put given up by an earlier registration may still
\* arrive; its lease is older than the revoked one and nobody renews it.
StaysWithdrawn == withdrawal = "ok" => listed = 0 \/ listed < lease
=============================================================================
