-------------------------- MODULE DependencyGraph --------------------------
(***************************************************************************)
(* SetJobDependencies (internal/store/job_dependencies.go): replace the      *)
(* children of a job by a list, in one transaction that refuses a list       *)
(* closing a cycle.  No lock covers the graph: the transaction reads it      *)
(* statement by statement under READ COMMITTED, so two callers may each      *)
(* check a graph without the other's edges.  Each statement is a step here.  *)
(***************************************************************************)
EXTENDS Naturals, FiniteSets

CONSTANTS
  Job,      \* the jobs of a tenant
  Caller,   \* concurrent calls of SetJobDependencies
  NoJob     \* a caller that is not in a call

VARIABLES
  edges,   \* committed rows <<parent_job_id, child_job_id>>
  tx       \* [Caller -> its open transaction]

vars == <<edges, tx>>

Idle == [at |-> "idle", parent |-> NoJob, list |-> {}, seen |-> {}, deleted |-> {}, added |-> {}]

Edge == Job \X Job

TypeOK ==
  /\ edges \subseteq Edge
  /\ tx \in [Caller -> [at : {"idle", "deleting", "inserting"}, parent : Job \cup {NoJob},
                        list : SUBSET Job, seen : SUBSET Edge,
                        deleted : SUBSET Edge, added : SUBSET Edge]]
  /\ \A c \in Caller :
       /\ tx[c].at = "idle" <=> tx[c].parent = NoJob
       /\ tx[c].added \subseteq {tx[c].parent} \X tx[c].list

Init ==
  /\ edges = {}
  /\ tx = [c \in Caller |-> Idle]

(* What a statement of the transaction reads: the committed rows and its own *)
(* writes.                                                                  *)
Visible(c) == (edges \ tx[c].deleted) \cup tx[c].added

(* The recursive query: jobs reachable from the child, after at most one     *)
(* round of the join per job.                                               *)
Successors(E, S) == {e[2] : e \in {f \in E : f[1] \in S}}
Descendants(E, j) ==
  LET reach[n \in 0 .. Cardinality(Job)] ==
        IF n = 0 THEN Successors(E, {j})
        ELSE reach[n - 1] \cup Successors(E, reach[n - 1])
  IN reach[Cardinality(Job)]

(* The inserted row.                                                         *)
newEdge(c, j) == <<tx[c].parent, j>>

closesCycle(c, j) == j = tx[c].parent \/ tx[c].parent \in Descendants(Visible(c), j)

oldChildren(p) == {e \in edges : e[1] = p}

(* The parent and the listed jobs exist (SELECT count); the DELETE starts on *)
(* the rows of the parent it sees.                                          *)
Begin(c) ==
  /\ tx[c].at = "idle"
  /\ \E p \in Job, L \in SUBSET Job :
       tx' = [tx EXCEPT ![c] = [Idle EXCEPT !.at = "deleting", !.parent = p, !.list = L,
                                            !.seen = oldChildren(p)]]
  /\ UNCHANGED edges

(* It waits for rows another transaction is deleting and skips the ones that *)
(* are gone afterwards.                                                     *)
Delete(c) ==
  /\ tx[c].at = "deleting"
  /\ \A d \in Caller \ {c} : tx[d].deleted \cap tx[c].seen = {}
  /\ tx' = [tx EXCEPT ![c].at = "inserting", ![c].deleted = tx[c].seen \cap edges]
  /\ UNCHANGED edges

Todo(c) == {j \in tx[c].list : newEdge(c, j) \notin tx[c].added}

(* One child: the cycle check and the INSERT.  ErrDependencyCycle, and the   *)
(* primary key when another call has committed the same edge, roll back; an  *)
(* uncommitted row with the same key makes the INSERT wait.                  *)
InsertChild(c, j) ==
  /\ tx[c].at = "inserting"
  /\ j \in Todo(c)
  /\ \A d \in Caller \ {c} : newEdge(c, j) \notin tx[d].added
  /\ tx' = IF closesCycle(c, j) \/ newEdge(c, j) \in edges \ tx[c].deleted
           THEN [tx EXCEPT ![c] = Idle]
           ELSE [tx EXCEPT ![c].added = @ \cup {newEdge(c, j)}]
  /\ UNCHANGED edges

Commit(c) ==
  /\ tx[c].at = "inserting"
  /\ Todo(c) = {}
  /\ edges' = Visible(c)
  /\ tx' = [tx EXCEPT ![c] = Idle]

(* A failed statement or a lost connection.                                  *)
Rollback(c) ==
  /\ tx[c].at # "idle"
  /\ tx' = [tx EXCEPT ![c] = Idle]
  /\ UNCHANGED edges

Next ==
  \E c \in Caller :
    Begin(c) \/ Delete(c) \/ (\E j \in Job : InsertChild(c, j)) \/ Commit(c) \/ Rollback(c)

Spec == Init /\ [][Next]_vars

-----------------------------------------------------------------------------
(* README.md:261 "拒绝自依赖和有向环": the committed graph has no directed     *)
(* cycle, so a success never triggers the job it came from again.            *)
Acyclic == \A j \in Job : j \notin Descendants(edges, j)
=============================================================================
