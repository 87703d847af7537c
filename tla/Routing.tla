------------------------------- MODULE Routing -------------------------------
(***************************************************************************)
(* The choice of an executor node for the runs of one job                      *)
(* (internal/core/engine_dispatch.go, routing.go; internal/store/executor.go).  *)
(* Several dispatches of several Cores route at the same time; the row of        *)
(* executor_job_route_counters makes their transactions wait for each other.     *)
(*                                                                         *)
(* Nodes are numbers in the order of their ids.  The MD5 ring of hash is the      *)
(* constant Ring.  now() in a transaction is the time it began.                 *)
(***************************************************************************)
EXTENDS Integers, Sequences, FiniteSets, FiniteSetsExt

CONSTANTS
  Node,        \* a set of numbers
  Labels,      \* [Node -> SUBSET label]
  Required, Excluded,   \* the labels of the job
  Override,    \* the addresses a manual trigger may pin, as nodes
  Ring,        \* [Node -> SUBSET Nat]: the hashes of its virtual nodes
  Strategies,  \* the strategies the group may have
  Keys,        \* the hashes the job may have
  Dispatch,    \* dispatches that route at the same time
  MaxBegins, MaxChanges, \* bounds on the transactions and on the changes of live
  Nil

VARIABLES
  strategy, key,  \* of the group; the hash of the job
  live,           \* the nodes that are static or whose TTL has not run out
  counter,        \* route_count; -1: no row
  lock,           \* the dispatch whose transaction holds the row of the counter
  use, last,      \* use[p][n], last[p][n]: the route state; p: pinned or not
  tx,             \* tx[d]: [pc, pinned, began, cursor]
  clock,          \* one more than the transactions so far
  changes,        \* of live so far
  picks           \* the routes in the order of their commits: [node, list, pinned]

vars == <<strategy, key, live, counter, lock, use, last, tx, clock, changes, picks>>

FilterExecutorNodes(nodes) ==
  {n \in nodes : Required \subseteq Labels[n] /\ Excluded \cap Labels[n] = {}}

\* The list of a route: the pinned addresses, or the live nodes the labels allow.
Candidates(pinned) == IF pinned THEN Override ELSE FilterExecutorNodes(live)

Idle == [pc |-> "idle", pinned |-> FALSE, began |-> 0, cursor |-> 0]

Init ==
  /\ strategy \in Strategies /\ key \in Keys
  /\ live \in SUBSET Node
  /\ counter = -1 /\ lock = Nil
  /\ use = [p \in BOOLEAN |-> [n \in Node |-> 0]]
  /\ last = [p \in BOOLEAN |-> [n \in Node |-> 0]]
  /\ tx = [d \in Dispatch |-> Idle]
  /\ clock = 1 /\ changes = 0
  /\ picks = <<>>

(***************************************************************************)
(* selectExecutorNode.                                                     *)
(***************************************************************************)

AtPosition(nodes, i) == CHOOSE n \in nodes : Cardinality({m \in nodes : m < n}) = i

\* sortAndFirst: the least by f, and by id among those.
LeastBy(nodes, f) ==
  CHOOSE n \in nodes : \A m \in nodes : f[n] < f[m] \/ (f[n] = f[m] /\ n <= m)

consistentHashExecutor(nodes) ==
  LET points == UNION {Ring[n] : n \in nodes}
      after == {h \in points : h >= key}
      point == IF after # {} THEN Min(after) ELSE Min(points)
  IN CHOOSE n \in nodes : point \in Ring[n]

selectExecutorNode(nodes, cursor, counts, times) ==
  CASE strategy = "first" -> {Min(nodes)}
    [] strategy = "last" -> {Max(nodes)}
    [] strategy = "round" -> {AtPosition(nodes, cursor % Cardinality(nodes))}
    [] strategy = "random" -> nodes
    [] strategy = "hash" -> {consistentHashExecutor(nodes)}
    [] strategy = "lfu" -> {LeastBy(nodes, counts)}
    [] strategy = "lru" -> {LeastBy(nodes, times)}

(***************************************************************************)
(* routeClaimedExecutor and the transaction of ReserveExecutorRoute or of       *)
(* ReserveExecutorOverrideRoute.                                            *)
(***************************************************************************)

\* The candidates are not one (a single one is taken without a transaction, which changes
\* nothing): the transaction begins and reads the strategy.
Begin(d, pinned) ==
  /\ tx[d].pc = "idle" /\ clock <= MaxBegins
  /\ Cardinality(Candidates(pinned)) # 1
  /\ tx' = [tx EXCEPT ![d] = [pc |-> "begun", pinned |-> pinned, began |-> clock, cursor |-> 0]]
  /\ clock' = clock + 1
  /\ UNCHANGED <<strategy, key, live, counter, lock, use, last, changes, picks>>


\* INSERT .. ON CONFLICT DO UPDATE .. RETURNING route_count: waits for the row, and keeps
\* it to the end of the transaction.  The first route inserts 0.
Count(d) ==
  /\ tx[d].pc = "begun" /\ lock = Nil
  /\ lock' = d
  /\ tx' = [tx EXCEPT ![d].pc = "counted", ![d].cursor = counter + 1]
  /\ UNCHANGED <<strategy, key, live, counter, use, last, clock, changes, picks>>

\* The selector, the record of the use and the commit; a list without a node is an error.
Route(d, p, list) ==
  /\ tx[d].pc = "counted" /\ tx[d].pinned = p /\ list # {}
  /\ \E n \in selectExecutorNode(list, tx[d].cursor, use[p], last[p]) :
       /\ use' = [use EXCEPT ![p][n] = @ + 1]
       /\ last' = [last EXCEPT ![p][n] = tx[d].began]
       /\ picks' = Append(picks, [node |-> n, list |-> list, pinned |-> p])
  /\ counter' = tx[d].cursor
  /\ lock' = Nil
  /\ tx' = [tx EXCEPT ![d] = Idle]
  /\ UNCHANGED <<strategy, key, live, clock, changes>>

\* ReserveExecutorRoute reads the nodes again, after the counter.
Select(d) == Route(d, FALSE, FilterExecutorNodes(live))

\* ReserveExecutorOverrideRoute keeps a state of its own, by address.
SelectPinned(d) == Route(d, TRUE, Override)

\* No node is left, the context ends or the Core dies: the counter falls back.
Rollback(d) ==
  /\ tx[d].pc # "idle"
  /\ lock' = IF lock = d THEN Nil ELSE lock
  /\ tx' = [tx EXCEPT ![d] = Idle]
  /\ UNCHANGED <<strategy, key, live, counter, use, last, clock, changes, picks>>

\* A registration, a heartbeat after a lapse, an unregistration or the end of a TTL.
NodesChange ==
  /\ changes < MaxChanges /\ changes' = changes + 1
  /\ \E n \in Node : live' = IF n \in live THEN live \ {n} ELSE live \cup {n}
  /\ UNCHANGED <<strategy, key, counter, lock, use, last, tx, clock, picks>>

Next ==
  \/ \E d \in Dispatch : \E pinned \in BOOLEAN : Begin(d, pinned)
  \/ \E d \in Dispatch : Count(d) \/ Select(d) \/ SelectPinned(d) \/ Rollback(d)
  \/ NodesChange

Spec == Init /\ [][Next]_vars

-----------------------------------------------------------------------------
\* The routes directly before the next one that had the same list as p.
SameListBefore(p) ==
  {i \in DOMAIN picks :
     \A j \in i..Len(picks) : picks[j].list = p.list /\ picks[j].pinned = p.pinned}

\* The place of the latest route to n, 0 when there is none.
LatestUse(n, pinned) ==
  Max({0} \cup {i \in DOMAIN picks : picks[i].node = n /\ picks[i].pinned = pinned})

(* What the strategies promise of the sequence of routes that all Cores share:    *)
(* as long as the list stays the same, round gives no node a second run before     *)
(* every other one has had its turn; lfu gives the run to a node with the fewest    *)
(* runs; hash moves the job only away from a node that is gone or to a node that    *)
(* is new; lru gives it to a node no other one has waited longer than               *)
(* (ReserveExecutorRoute, selectExecutorNode).                                *)
RouteFollowsStrategy ==
  picks' # picks =>
    LET p == picks'[Len(picks')]
        size == Cardinality(p.list)
        turn == {picks[i].node : i \in {i \in SameListBefore(p) : i > Len(picks) + 1 - size}}
        used(n) == Cardinality({i \in DOMAIN picks : picks[i].node = n /\ picks[i].pinned = p.pinned})
        before == {i \in DOMAIN picks : picks[i].pinned = p.pinned}
    IN /\ strategy = "round" => p.node \notin turn
       /\ strategy = "lfu" => \A n \in p.list : used(p.node) <= used(n)
       /\ strategy = "lru" =>
            \A n \in p.list : LatestUse(p.node, p.pinned) <= LatestUse(n, p.pinned)
       /\ strategy = "hash" /\ before # {} =>
            LET q == picks[Max(before)]
            IN p.node # q.node => q.node \notin p.list \/ p.node \notin q.list
=============================================================================
