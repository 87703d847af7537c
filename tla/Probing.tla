------------------------------- MODULE Probing --------------------------------
(* Active routing: the Core asks the executors of a job, one after the other, *)
(* whether they are healthy (failover) or free of the job (busyover), while   *)
(* the executors accept and finish tasks.  One job; nodes are numbered in the *)
(* order of their ids.  "grpc" and "sdk" are the two servers of pkg/executor,  *)
(* "http" an executor that serves the HTTP protocol of the README.            *)
EXTENDS Naturals, FiniteSets

CONSTANTS Node,      \* a set of naturals
          Kinds,     \* how the nodes may be reached: functions on Node
          Task       \* run requests

VARIABLES nodeKind,  \* how each node is reached
          fits,      \* the nodes whose labels satisfy the job's
          override,  \* addresses given with the trigger, {} if none
          wanted,    \* the group's strategy
          where,     \* [Task -> [node, state]]
          active,    \* the counter of the job at each node
          picking,   \* the selection under way: [pc, nodes]
          refused,   \* nodes that did not answer well in this selection
          picked     \* [node, free]: the choice, and whether it was free

probingVars == <<nodeKind, fits, override, wanted, where, active, picking, refused, picked>>
routeVars == <<nodeKind, fits, override, wanted>>
taskVars == <<where, active>>
pickVars == <<picking, refused, picked>>

NoPick == [node |-> 0, free |-> FALSE]
NotPicking == [pc |-> "idle", nodes |-> {}]
At(n, states) == {t \in Task : where[t].node = n /\ where[t].state \in states}
First(S) == CHOOSE n \in S : \A k \in S : n <= k

ProbingInit ==
  /\ nodeKind \in Kinds
  /\ fits \in SUBSET Node /\ override \in {{}, {First(Node)}}
  /\ wanted \in {"failover", "busyover"}
  /\ where = [t \in Task |-> [node |-> 0, state |-> "new"]]
  /\ active = [n \in Node |-> 0]
  /\ picking = NotPicking /\ refused = {} /\ picked = NoPick
-----------------------------------------------------------------------------
\* Server.run: a request that is malformed, names no handler or gives another
\* scheduler's addresses is refused.  An asynchronous handler is answered 202
\* before its goroutine counts it.
run(t, n, valid, async) ==
  /\ where[t].state = "new"
  /\ valid \in BOOLEAN /\ async \in BOOLEAN
  /\ where' = [where EXCEPT ![t] = [node |-> n, state |->
                 IF ~valid THEN "refused" ELSE IF async THEN "accepted" ELSE "called"]]
  /\ UNCHANGED <<active, routeVars, pickVars>>

\* markActive(+1): the first step of execute.
markActive(t) ==
  /\ where[t].state \in {"accepted", "called"}
  /\ where' = [where EXCEPT ![t].state = IF @ = "accepted" THEN "async" ELSE "sync"]
  /\ active' = [active EXCEPT ![where[t].node] = @ + 1]
  /\ UNCHANGED <<routeVars, pickVars>>

\* invokeHandler returns, a panic turned into an error; the deferred
\* markActive(-1) runs in either case.
invokeHandler(t, outcome) ==
  /\ where[t].state \in {"async", "sync"} /\ outcome \in {"ok", "error", "panic"}
  /\ where' = [where EXCEPT ![t].state = IF @ = "async" THEN "callback" ELSE "answered"]
  /\ active' = [active EXCEPT ![where[t].node] = IF @ <= 1 THEN 0 ELSE @ - 1]
  /\ UNCHANGED <<routeVars, pickVars>>

\* callback: one POST, whose failure is ignored.
callback(t, ok) ==
  /\ where[t].state = "callback" /\ ok \in BOOLEAN
  /\ where' = [where EXCEPT ![t].state = IF ok THEN "answered" ELSE "unheard"]
  /\ UNCHANGED <<active, routeVars, pickVars>>

\* jobBusy, what Inspect answers and what Server.idle answers to a GET.
jobBusy(n) == active[n] > 0

\* The SDK routes GET /idle only: the Core's POST is answered 405.
idle(n) == nodeKind[n] # "sdk" /\ ~jobBusy(n)

\* probeHTTPExecutor and the pool's probe.  A probe may also fail or time out.
probeExecutor(n) == wanted = "failover" \/ (wanted = "busyover" /\ idle(n))
-----------------------------------------------------------------------------
\* ExecutorRouteCandidates: the live nodes whose labels fit, unless the trigger
\* names addresses, which bypass the labels.
ExecutorRouteCandidates ==
  \E live \in SUBSET Node :
    /\ picking.pc = "idle"
    /\ LET nodes == IF override # {} THEN override ELSE live \cap fits IN
         picking' = [pc |-> IF nodes = {} THEN "failed" ELSE "probing", nodes |-> nodes]
    /\ refused' = {} /\ picked' = NoPick
    /\ UNCHANGED <<routeVars, taskVars>>

\* selectActiveExecutor: one probe of its loop.
selectActiveExecutor(n, reached) ==
  /\ picking.pc = "probing" /\ n = First(picking.nodes \ refused) /\ reached \in BOOLEAN
  /\ IF reached /\ probeExecutor(n)
     THEN /\ picked' = [node |-> n, free |-> At(n, {"async", "sync"}) = {}]
          /\ picking' = [picking EXCEPT !.pc = "idle"] /\ UNCHANGED refused
     ELSE /\ refused' = refused \cup {n} /\ UNCHANGED picked
          /\ picking' = [picking EXCEPT !.pc = IF picking.nodes = refused' THEN "failed" ELSE @]
  /\ UNCHANGED <<routeVars, taskVars>>

\* The context ends between two probes, or the run is given up: the next
\* selection starts from the first node.
SelectionEnds ==
  /\ picking.pc \in {"probing", "failed"}
  /\ picking' = NotPicking /\ refused' = {} /\ UNCHANGED <<picked, routeVars, taskVars>>

ProbingNext ==
  \/ \E t \in Task, n \in Node, valid, async \in BOOLEAN : run(t, n, valid, async)
  \/ \E t \in Task : markActive(t) \/ \E ok \in BOOLEAN : callback(t, ok)
  \/ \E t \in Task, outcome \in {"ok", "error", "panic"} : invokeHandler(t, outcome)
  \/ ExecutorRouteCandidates \/ SelectionEnds
  \/ \E n \in Node, reached \in BOOLEAN : selectActiveExecutor(n, reached)
-----------------------------------------------------------------------------
\* The counter that jobBusy reads is the number of handlers that are running,
\* also after panics.  A node that busyover picked was running none when it
\* answered; every candidate before the one picked had refused or failed; and
\* without an override its labels fit.
PickIsFree ==
  /\ \A n \in Node : active[n] = Cardinality(At(n, {"async", "sync"}))
  /\ picked # NoPick =>
       /\ wanted = "busyover" => picked.free
       /\ picking.pc = "idle" => {n \in picking.nodes : n < picked.node} \subseteq refused
       /\ override = {} => picked.node \in fits
=============================================================================
