------------------------------- MODULE Engine -------------------------------
(***************************************************************************)
(* One Core's engine: the loop that ticks and dispatches, its worker slots    *)
(* and wake-up channel, a worker's life with the watcher beside it, the       *)
(* stop (internal/core/engine*.go).                                           *)
(*                                                                         *)
(* Database statements are atomic.  Those made with the engine's context      *)
(* fail once it is done; persistWrite detaches the terminal ones from it.     *)
(***************************************************************************)
EXTENDS Integers, FiniteSets, FiniteSetsExt, FiniteSetTheorems, TLAPS

CONSTANTS Run,         \* rows of job_runs
          Workers      \* cap(sem)

VARIABLES
  ctxDone,      \* the engine's context is cancelled
  loopPc,       \* where loop is
  wake,         \* dispatchWake holds its one token
  inHand,       \* claimed by dispatch, no worker yet
  row,          \* status of each run in job_runs; the terminal ones are "ended"
  worker,       \* where each run's execute is, "none" when it has no worker
  cut,          \* runs whose own context was cancelled
  accepted,     \* runs an executor has accepted
  unplaceable,  \* a broadcast job without live nodes is due
  loops,        \* goroutines of Run that have not returned
  poolClosed    \* Wait has returned

loopVars == <<loopPc, wake, inHand>>
workVars == <<worker, cut, accepted>>
stopVars == <<ctxDone, loops, poolClosed>>
engineVars == <<loopVars, row, workVars, unplaceable, stopVars>>

Loop == {"loop", "maintenance", "commands"}
busy == {r \in Run : worker[r] # "none"}
pending == {r \in Run : row[r] = "pending"}
availableWorkerSlots == Workers - Cardinality(busy)

\* NewEngine and Run: an empty wake-up channel of one token, three goroutines;
\* the loop starts with a tick.
EngineInit ==
  /\ loopPc = "enqueue" /\ wake = FALSE /\ inHand = {}
  /\ row = [r \in Run |-> "due"]
  /\ worker = [r \in Run |-> "none"] /\ cut = {} /\ accepted = {}
  /\ unplaceable \in BOOLEAN
  /\ ctxDone = FALSE /\ loops = Loop /\ poolClosed = FALSE

-----------------------------------------------------------------------------
\* The loop

\* The loop, were an error of EnqueueDue its end.
EnqueueDueOrReturn ==
  /\ loopPc = "enqueue"
  /\ IF unplaceable
     THEN loopPc' = "returned" /\ UNCHANGED row
     ELSE /\ loopPc' = "expire"
          /\ row' = [r \in Run |-> IF row[r] = "due" THEN "pending" ELSE row[r]]
  /\ UNCHANGED <<wake, inHand, workVars, unplaceable, stopVars>>

\* A tick's first statement.  EnqueueDue returns an error when a due broadcast
\* job has no live node, and its transaction with all the other due jobs is
\* rolled back; the tick ends there.
EnqueueDue ==
  /\ loopPc = "enqueue"
  /\ IF ctxDone \/ unplaceable
     THEN loopPc' = "select" /\ UNCHANGED row
     ELSE /\ loopPc' = "expire"
          /\ row' = [r \in Run |-> IF row[r] = "due" THEN "pending" ELSE row[r]]
  /\ UNCHANGED <<wake, inHand, workVars, unplaceable, stopVars>>

\* A tick's second statement: any set of the runs that wait for a callback has
\* passed its deadline.  Without a free slot the tick ends.
ExpireCallbacks(late) ==
  /\ loopPc = "expire"
  /\ late \subseteq {r \in Run : row[r] = "waiting_callback" /\ ~ctxDone}
  /\ row' = [r \in Run |-> IF r \in late THEN "ended" ELSE row[r]]
  /\ loopPc' = IF ctxDone \/ availableWorkerSlots = 0 THEN "select" ELSE "dispatch"
  /\ UNCHANGED <<wake, inHand, workVars, unplaceable, stopVars>>

\* dispatch claims as many runs as there are free slots.
Claim(S) ==
  /\ loopPc = "dispatch"
  /\ S \subseteq pending
  /\ Cardinality(S) = IF ctxDone THEN 0
                      ELSE Min({availableWorkerSlots, Cardinality(pending)})
  /\ row' = [r \in Run |-> IF r \in S THEN "running" ELSE row[r]]
  /\ inHand' = S /\ loopPc' = "start"
  /\ UNCHANGED <<wake, workVars, unplaceable, stopVars>>

\* One iteration of dispatch: take a slot and start the worker.
StartWorker(r) ==
  /\ loopPc = "start" /\ r \in inHand
  /\ Cardinality(busy) < Workers
  /\ worker' = [worker EXCEPT ![r] = "routing"]
  /\ inHand' = inHand \ {r}
  /\ cut' = IF ctxDone THEN cut \cup {r} ELSE cut
  /\ UNCHANGED <<loopPc, wake, row, accepted, unplaceable, stopVars>>

\* dispatch returns: every claimed run has its worker, or the engine stops and
\* the others are left to the expiry of their leases.
DispatchReturns ==
  /\ loopPc = "start"
  /\ inHand = {} \/ ctxDone
  /\ inHand' = {} /\ loopPc' = "select"
  /\ UNCHANGED <<wake, row, workVars, unplaceable, stopVars>>

\* The cases of loop's select: the ticker and the wake-up token.
Tick ==
  /\ loopPc = "select" /\ loopPc' = "enqueue"
  /\ UNCHANGED <<wake, inHand, row, workVars, unplaceable, stopVars>>

Woken ==
  /\ loopPc = "select" /\ wake
  /\ wake' = FALSE /\ loopPc' = "dispatch"
  /\ UNCHANGED <<inHand, row, workVars, unplaceable, stopVars>>

-----------------------------------------------------------------------------
\* A worker (execute) and its watcher

shouldWakeDispatcher(active) ==
  active = 0 \/ Workers - active >= Max({Workers \div 4, 1})

\* The deferred part of a worker: its slot, then perhaps a wake-up.
releaseWorker(r) ==
  /\ worker' = [worker EXCEPT ![r] = "none"]
  /\ wake' = (wake \/ shouldWakeDispatcher(Cardinality(busy) - 1))

\* execute up to PrepareClaimedExecutorDispatch.  A routing or preparation that
\* fails, the cancelled context included, ends in FailRun, which counts only
\* while the run is still running.
Prepare(r, routed) ==
  /\ worker[r] = "routing"
  /\ IF routed /\ r \notin cut /\ row[r] = "running"
     THEN /\ row' = [row EXCEPT ![r] = "waiting_callback"]
          /\ worker' = [worker EXCEPT ![r] = "dispatching"]
          /\ UNCHANGED wake
     ELSE /\ row' = [row EXCEPT ![r] = IF row[r] = "running" THEN "ended" ELSE row[r]]
          /\ releaseWorker(r)
  /\ UNCHANGED <<loopPc, inHand, cut, accepted, unplaceable, stopVars>>

\* The Dispatch call reaches the executor, which accepts the run.
ExecutorAccepts(r) ==
  /\ worker[r] = "dispatching" /\ r \notin accepted
  /\ accepted' = accepted \cup {r}
  /\ UNCHANGED <<loopVars, row, worker, cut, unplaceable, stopVars>>


\* The call returns.  It succeeds only if the executor accepted and the
\* context lived; a failure is written as a failed callback on a detached
\* context.
DispatchEnds(r, ok) ==
  /\ worker[r] = "dispatching"
  /\ ok => r \in accepted /\ r \notin cut
  /\ row' = [row EXCEPT ![r] =
       IF ~ok /\ row[r] = "waiting_callback" THEN "ended" ELSE row[r]]
  /\ releaseWorker(r)
  /\ UNCHANGED <<loopPc, inHand, cut, accepted, unplaceable, stopVars>>

IsRunRunning(r) == row[r] = "running"

\* watchCancellation polls while execute runs, and cancels the worker's context
\* when the run is not running; a run that waits for its callback is not.
watchCancellation(r) ==
  /\ worker[r] # "none" /\ r \notin cut
  /\ ~IsRunRunning(r)
  /\ cut' = cut \cup {r}
  /\ UNCHANGED <<loopVars, row, worker, accepted, unplaceable, stopVars>>

\* The job's timeout ends the worker's context.
Timeout(r) ==
  /\ worker[r] # "none" /\ r \notin cut
  /\ cut' = cut \cup {r}
  /\ UNCHANGED <<loopVars, row, worker, accepted, unplaceable, stopVars>>

-----------------------------------------------------------------------------
\* Requests handled by this Core, and the nodes

WakeDispatch == wake' = TRUE

\* RunService.CompleteCallback ends with WakeDispatch.
CompleteCallback(r) ==
  /\ row[r] = "waiting_callback" /\ r \in accepted
  /\ row' = [row EXCEPT ![r] = "ended"] /\ WakeDispatch
  /\ UNCHANGED <<loopPc, inHand, workVars, unplaceable, stopVars>>

CancelRun(r) ==
  /\ row[r] \in {"pending", "running", "waiting_callback"}
  /\ row' = [row EXCEPT ![r] = "ended"]
  /\ UNCHANGED <<loopVars, workVars, unplaceable, stopVars>>

\* The nodes of the broadcast job come and go.
NodesChange ==
  /\ unplaceable' = ~unplaceable
  /\ UNCHANGED <<loopVars, row, workVars, stopVars>>

-----------------------------------------------------------------------------
\* The stop

\* The context of the engine, and with it every worker's, is cancelled.
Stop ==
  /\ ~ctxDone /\ ctxDone' = TRUE /\ cut' = cut \cup busy
  /\ UNCHANGED <<loopVars, row, worker, accepted, unplaceable, loops, poolClosed>>

\* A loop sees the end of the context in its select.
LoopReturns(l) ==
  /\ ctxDone /\ l \in loops
  /\ l = "loop" => loopPc = "select"
  /\ loops' = loops \ {l}
  /\ loopPc' = IF l = "loop" THEN "returned" ELSE loopPc
  /\ UNCHANGED <<wake, inHand, row, workVars, unplaceable, ctxDone, poolClosed>>

\* Wait: the group counts the loops and the workers; then the pool closes.
Wait ==
  /\ ctxDone /\ ~poolClosed /\ loops = {} /\ busy = {}
  /\ poolClosed' = TRUE
  /\ UNCHANGED <<loopVars, row, workVars, unplaceable, ctxDone, loops>>

-----------------------------------------------------------------------------
LoopStep ==
  \/ EnqueueDue \/ DispatchReturns
  \/ \E S \in SUBSET Run : ExpireCallbacks(S) \/ Claim(S)
  \/ \E r \in Run : StartWorker(r)

WorkerEnds(r) == \E b \in BOOLEAN : Prepare(r, b) \/ DispatchEnds(r, b)

EngineNext ==
  \/ LoopStep \/ Tick \/ Woken
  \/ \E r \in Run :
       \/ WorkerEnds(r) \/ ExecutorAccepts(r)
       \/ watchCancellation(r) \/ Timeout(r)
       \/ CompleteCallback(r) \/ CancelRun(r)
  \/ NodesChange \/ Stop \/ Wait
  \/ \E l \in Loop : LoopReturns(l)

\* The engine's goroutines run on, its select takes a case that stays ready
\* or comes back again and again, and a call whose context has ended returns.
\* No request, executor, node or stop is ever assumed.
EngineFairness ==
  /\ WF_engineVars(LoopStep) /\ SF_engineVars(Tick) /\ WF_engineVars(Wait)
  /\ \A r \in Run : WF_engineVars(Timeout(r)) /\ WF_engineVars(WorkerEnds(r))
  /\ \A l \in Loop : SF_engineVars(LoopReturns(l))

EngineSpec == EngineInit /\ [][EngineNext]_engineVars /\ EngineFairness

\* Every run dispatch claims finds a free slot, so the loop never blocks on the
\* semaphore with claimed runs in hand (dispatch, availableWorkerSlots), and
\* once Wait has returned nothing of the engine works on a run any more.
SlotsSuffice ==
  /\ Cardinality(inHand) + Cardinality(busy) <= Workers
  /\ poolClosed => busy = {} /\ inHand = {}

\* A run whose worker has left it waiting for a callback was accepted by an
\* executor, whatever cut the dispatch short: the watcher, the timeout or the
\* stop (execute, watchCancellation, persistWrite).
WaitingIsAccepted ==
  \A r \in Run : row[r] = "waiting_callback" /\ worker[r] = "none" => r \in accepted

\* A pending run is claimed, even while a broadcast job without nodes makes
\* every tick fail, as long as that job does not stay due for ever (tick,
\* EnqueueDue, releaseWorker), and a stopped engine ends (Wait).
EngineProgress ==
  /\ \A r \in Run : <>[]~unplaceable =>
                      ((row[r] = "pending") ~> (row[r] # "pending" \/ ctxDone))
  /\ ctxDone ~> poolClosed
-----------------------------------------------------------------------------
\* What a row says of its worker: a run is claimed before it has a worker, it
\* waits for a callback only once the worker has prepared it, and dispatch has
\* runs in hand only while it starts workers, before the loop returns.
EngineInv ==
  /\ row \in [Run -> {"due", "pending", "running", "waiting_callback", "ended"}]
  /\ worker \in [Run -> {"none", "routing", "dispatching"}]
  /\ inHand \subseteq Run /\ loops \subseteq Loop
  /\ \A r \in Run : row[r] \in {"due", "pending"} => worker[r] = "none" /\ r \notin inHand
  /\ \A r \in inHand : worker[r] = "none" /\ row[r] # "waiting_callback"
  /\ \A r \in Run : worker[r] = "routing" => row[r] # "waiting_callback"
  /\ WaitingIsAccepted
  /\ inHand # {} => loopPc = "start"
  /\ "loop" \in loops <=> loopPc # "returned"
  /\ poolClosed => loops = {} /\ busy = {}

\* Every step of the loop, of a worker, of its watcher and of the stop keeps it.
LEMMA EngineInductive ==
  ASSUME EngineInv, [EngineNext]_engineVars
  PROVE  EngineInv'
<1> USE DEF EngineInv, WaitingIsAccepted, busy, workVars, stopVars, loopVars
<1>1. CASE EnqueueDue
  BY <1>1 DEF EnqueueDue
<1>2. CASE DispatchReturns
  BY <1>2 DEF DispatchReturns
<1>3. ASSUME NEW S \in SUBSET Run, ExpireCallbacks(S) PROVE EngineInv'
  BY <1>3 DEF ExpireCallbacks
<1>4. ASSUME NEW S \in SUBSET Run, Claim(S) PROVE EngineInv'
  BY <1>4 DEF Claim, pending
<1>5. ASSUME NEW r \in Run, StartWorker(r) PROVE EngineInv'
  BY <1>5 DEF StartWorker
<1>6. CASE Tick \/ Woken
  BY <1>6 DEF Tick, Woken
<1>7. ASSUME NEW r \in Run, NEW b \in BOOLEAN, Prepare(r, b) PROVE EngineInv'
  BY <1>7 DEF Prepare, releaseWorker
<1>8. ASSUME NEW r \in Run, NEW b \in BOOLEAN, DispatchEnds(r, b) PROVE EngineInv'
  BY <1>8 DEF DispatchEnds, releaseWorker
<1>9. ASSUME NEW r \in Run, ExecutorAccepts(r) \/ watchCancellation(r) \/ Timeout(r) PROVE EngineInv'
  BY <1>9 DEF ExecutorAccepts, watchCancellation, Timeout
<1>10. ASSUME NEW r \in Run, CompleteCallback(r) \/ CancelRun(r) PROVE EngineInv'
  BY <1>10 DEF CompleteCallback, CancelRun
<1>11. CASE NodesChange \/ Stop \/ Wait
  BY <1>11 DEF NodesChange, Stop, Wait
<1>12. ASSUME NEW l \in Loop, LoopReturns(l) PROVE EngineInv'
  BY <1>12 DEF LoopReturns, Loop
<1>13. CASE UNCHANGED engineVars
  BY <1>13 DEF engineVars
<1> QED
  BY <1>1, <1>2, <1>3, <1>4, <1>5, <1>6, <1>7, <1>8, <1>9, <1>10, <1>11, <1>12, <1>13
     DEF EngineNext, LoopStep, WorkerEnds

\* However many runs and slots there are, a run that is left waiting for its
\* callback was accepted by an executor: the failure of a dispatch is written on
\* a context that neither the watcher nor the stop cancels (persistWrite).
THEOREM WaitingRunsAreAccepted ==
  EngineInit /\ [][EngineNext]_engineVars => []WaitingIsAccepted
<1>1. EngineInit => EngineInv
  BY DEF EngineInit, EngineInv, WaitingIsAccepted, busy, Loop
<1>2. EngineInv => WaitingIsAccepted
  BY DEF EngineInv
<1>3. EngineInv /\ [EngineNext]_engineVars => EngineInv'
  BY EngineInductive
<1> QED
  BY <1>1, <1>2, <1>3, PTL
\* The lesser of the free slots and the pending runs is at most the free slots.
LEMMA MinOfTwo ==
  ASSUME NEW a \in Int, NEW b \in Int
  PROVE  Min({a, b}) \in Int /\ Min({a, b}) <= a
<1>1. \E x \in {a, b} : \A y \in {a, b} : x <= y
  OBVIOUS
<1> QED
  BY <1>1 DEF Min

\* Only Claim adds to what is in hand, within the free slots, and StartWorker
\* turns a run in hand into a busy slot.
LEMMA SlotsInductive ==
  ASSUME IsFiniteSet(Run), Workers \in Nat, EngineInv, SlotsSuffice, [EngineNext]_engineVars
  PROVE  SlotsSuffice'
<1>1. EngineInv'
  BY EngineInductive
<1>2. (poolClosed => busy = {} /\ inHand = {})'
  BY <1>1 DEF EngineInv
<1>3. /\ IsFiniteSet(inHand) /\ IsFiniteSet(busy)
      /\ Cardinality(inHand) \in Nat /\ Cardinality(busy) \in Nat
  BY FS_Subset, FS_CardinalityType DEF EngineInv, busy
<1>4. ASSUME inHand' \subseteq inHand, busy' \subseteq busy
      PROVE  Cardinality(inHand') + Cardinality(busy') <= Workers
  <2>1. /\ Cardinality(inHand') <= Cardinality(inHand) /\ Cardinality(busy') <= Cardinality(busy)
        /\ Cardinality(inHand') \in Nat /\ Cardinality(busy') \in Nat
    BY <1>3, <1>4, FS_Subset, FS_CardinalityType
  <2> QED
    BY <1>3, <2>1 DEF SlotsSuffice
<1>5. ASSUME NEW S \in SUBSET Run, Claim(S)
      PROVE  Cardinality(inHand') + Cardinality(busy') <= Workers
  <2>1. busy' = busy /\ inHand' = S
    BY <1>5 DEF Claim, busy, workVars
  <2>2. IsFiniteSet(pending) /\ Cardinality(pending) \in Nat
    BY FS_Subset, FS_CardinalityType DEF pending
  <2>3. availableWorkerSlots \in Int /\ availableWorkerSlots = Workers - Cardinality(busy)
    BY <1>3 DEF availableWorkerSlots
  <2>4. /\ Min({availableWorkerSlots, Cardinality(pending)}) \in Int
        /\ Min({availableWorkerSlots, Cardinality(pending)}) <= availableWorkerSlots
    BY <2>2, <2>3, MinOfTwo
  <2>5. CASE ctxDone
    BY <1>3, <1>5, <2>1, <2>5 DEF Claim, SlotsSuffice
  <2>6. CASE ~ctxDone
    BY <1>3, <1>5, <2>1, <2>3, <2>4, <2>6 DEF Claim
  <2> QED
    BY <2>5, <2>6
<1>6. ASSUME NEW r \in Run, StartWorker(r)
      PROVE  Cardinality(inHand') + Cardinality(busy') <= Workers
  <2>1. inHand' = inHand \ {r} /\ busy' = busy \cup {r} /\ r \in inHand /\ r \notin busy
    BY <1>6 DEF StartWorker, busy, EngineInv
  <2>2. /\ Cardinality(inHand') = Cardinality(inHand) - 1
        /\ Cardinality(busy') = Cardinality(busy) + 1
    BY <1>3, <2>1, FS_RemoveElement, FS_AddElement
  <2> QED
    BY <1>3, <2>2 DEF SlotsSuffice
<1>7. ASSUME ~\E S \in SUBSET Run : Claim(S), ~\E r \in Run : StartWorker(r)
      PROVE  inHand' \subseteq inHand /\ busy' \subseteq busy
  <2> USE DEF workVars, stopVars, loopVars, busy, EngineInv
  <2>1. CASE EnqueueDue \/ DispatchReturns \/ Tick \/ Woken \/ NodesChange \/ Stop \/ Wait
    BY <2>1 DEF EnqueueDue, DispatchReturns, Tick, Woken, NodesChange, Stop, Wait
  <2>2. ASSUME NEW S \in SUBSET Run, ExpireCallbacks(S) PROVE inHand' \subseteq inHand /\ busy' \subseteq busy
    BY <2>2 DEF ExpireCallbacks
  <2>3. ASSUME NEW r \in Run, NEW b \in BOOLEAN, Prepare(r, b) \/ DispatchEnds(r, b)
        PROVE  inHand' \subseteq inHand /\ busy' \subseteq busy
    BY <2>3 DEF Prepare, DispatchEnds, releaseWorker
  <2>4. ASSUME NEW r \in Run, \/ ExecutorAccepts(r) \/ watchCancellation(r) \/ Timeout(r)
                              \/ CompleteCallback(r) \/ CancelRun(r)
        PROVE  inHand' \subseteq inHand /\ busy' \subseteq busy
    BY <2>4 DEF ExecutorAccepts, watchCancellation, Timeout, CompleteCallback, CancelRun
  <2>5. ASSUME NEW l \in Loop, LoopReturns(l) PROVE inHand' \subseteq inHand /\ busy' \subseteq busy
    BY <2>5 DEF LoopReturns
  <2>6. CASE UNCHANGED engineVars
    BY <2>6 DEF engineVars
  <2> QED
    BY <1>7, <2>1, <2>2, <2>3, <2>4, <2>5, <2>6 DEF EngineNext, LoopStep, WorkerEnds
<1> QED
  BY <1>2, <1>4, <1>5, <1>6, <1>7 DEF SlotsSuffice

\* With any number of worker slots the loop never blocks on the semaphore with
\* claimed runs in hand, and once Wait has returned nothing works on a run.
THEOREM ClaimsFindSlots ==
  ASSUME IsFiniteSet(Run), Workers \in Nat
  PROVE  EngineInit /\ [][EngineNext]_engineVars => []SlotsSuffice
<1>1. EngineInit => EngineInv /\ SlotsSuffice
  <2> SUFFICES ASSUME EngineInit PROVE EngineInv /\ SlotsSuffice
    OBVIOUS
  <2>1. EngineInv
    BY DEF EngineInit, EngineInv, WaitingIsAccepted, busy, Loop
  <2>2. busy = {} /\ inHand = {} /\ ~poolClosed
    BY DEF EngineInit, busy
  <2> QED
    BY <2>1, <2>2, FS_EmptySet DEF SlotsSuffice
<1>2. (EngineInv /\ SlotsSuffice) /\ [EngineNext]_engineVars => (EngineInv /\ SlotsSuffice)'
  BY EngineInductive, SlotsInductive
<1> QED
  BY <1>1, <1>2, PTL
=============================================================================
