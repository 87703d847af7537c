------------------------------ MODULE ClaimTx ------------------------------
(***************************************************************************)
(* ClaimRuns of several Cores, statement by statement (internal/store/          *)
(* scheduler.go).  A claim is BEGIN, which fixes now(), a statement that locks   *)
(* the Kubernetes clusters with due runs, a statement that counts, ranks and     *)
(* claims, and COMMIT; each statement sees what was committed when it starts.    *)
(*                                                                         *)
(* Runs are numbered by (available_at, id).  available_at is the start of the    *)
(* transaction that inserts the run, so runs may become visible in another       *)
(* order.  Only the limits of the job, the tenant and the cluster matter here;    *)
(* what ends a run is in JobRuns.                                             *)
(***************************************************************************)
EXTENDS Naturals, FiniteSets, FiniteSetsExt

CONSTANTS
  ClaimRun,          \* runs, numbers in the order of (available_at, id)
  ClaimCore,
  JobOf, ClusterOf,  \* [ClaimRun -> job], [ClaimRun -> cluster or 0]
  JobMax,            \* [job -> jobs.max_concurrent_runs]
  ClusterMax,        \* [cluster -> kubernetes_clusters.max_concurrent_jobs]
  TenantMax,         \* tenants.max_concurrent_runs
  ClaimLimit,        \* LIMIT $1
  InOrder,           \* runs become visible in the order of available_at
  MaxLapses          \* bound: leases that run out

VARIABLES
  runRow,      \* [ClaimRun -> its committed row]
  lapsed,      \* running rows with lease_until in the past
  claimTx,     \* [ClaimCore -> its transaction]
  clusterLock, \* [cluster -> the Cores that hold its row: one or none]
  uncounted,   \* history: runs claimed without the lock of their cluster or dispatched too late
  lapses

claimVars == <<runRow, lapsed, claimTx, clusterLock, uncounted, lapses>>

Cluster == DOMAIN ClusterMax
NoClaim == [at |-> "idle", now |-> {}, past |-> {}, wants |-> {}, takes |-> {}]

ClaimInit ==
  /\ runRow = [r \in ClaimRun |-> "absent"]
  /\ lapsed = {} /\ uncounted = {} /\ lapses = 0
  /\ claimTx = [c \in ClaimCore |-> NoClaim]
  /\ clusterLock = [k \in Cluster |-> {}]

RowLocked(r) == \E c \in ClaimCore : r \in claimTx[c].takes

-----------------------------------------------------------------------------
(* A transaction that will insert a run begins, which fixes available_at ...       *)
OpenRun(r) ==
  /\ runRow[r] = "absent"
  /\ \A q \in ClaimRun : q < r => runRow[q] # "absent"
  /\ runRow' = [runRow EXCEPT ![r] = "open"]
  /\ UNCHANGED <<lapsed, claimTx, clusterLock, uncounted, lapses>>

(* ... and commits.                                                          *)
InsertRun(r) ==
  /\ runRow[r] = "open"
  /\ InOrder => \A q \in ClaimRun : q < r => runRow[q] # "open"
  /\ runRow' = [runRow EXCEPT ![r] = "pending"]
  /\ UNCHANGED <<lapsed, claimTx, clusterLock, uncounted, lapses>>

(* A worker prepares the dispatch.  The statement asks for the lease_token and not   *)
(* for lease_until.                                                          *)
PrepareDispatch(r) ==
  /\ runRow[r] = "running" /\ ~RowLocked(r)
  /\ runRow' = [runRow EXCEPT ![r] = "waiting_callback"]
  /\ lapsed' = lapsed \ {r}
  /\ uncounted' = uncounted \cup (lapsed \cap {r})
  /\ UNCHANGED <<claimTx, clusterLock, lapses>>

EndRun(r) ==
  /\ runRow[r] \in {"pending", "running", "waiting_callback"} /\ ~RowLocked(r)
  /\ runRow' = [runRow EXCEPT ![r] = "ended"]
  /\ lapsed' = lapsed \ {r}
  /\ UNCHANGED <<claimTx, clusterLock, uncounted, lapses>>

LeasePasses(r) ==
  /\ runRow[r] = "running" /\ r \notin lapsed /\ lapses < MaxLapses
  /\ lapsed' = lapsed \cup {r}
  /\ lapses' = lapses + 1
  /\ UNCHANGED <<runRow, claimTx, clusterLock, uncounted>>

-----------------------------------------------------------------------------
(* BEGIN: now() decides for both statements which instants have passed.             *)
BeginClaim(c) ==
  /\ claimTx[c].at = "idle"
  /\ claimTx' = [claimTx EXCEPT ![c] =
       [NoClaim EXCEPT !.at = "begun", !.now = {r \in ClaimRun : runRow[r] \in {"open", "pending"}},
                       !.past = lapsed]]
  /\ UNCHANGED <<runRow, lapsed, clusterLock, uncounted, lapses>>

(* status='pending' AND available_at<=now(), or status='running' AND                *)
(* lease_until<now(); a row claimed since then has a lease of its own.               *)
candidates(c) ==
  {r \in ClaimRun : \/ runRow[r] = "pending" /\ r \in claimTx[c].now
                    \/ runRow[r] = "running" /\ r \in claimTx[c].past \cap lapsed}

active(c) ==
  {r \in ClaimRun : \/ runRow[r] = "running" /\ r \notin claimTx[c].past \cap lapsed
                    \/ runRow[r] = "waiting_callback"}

(* lockKubernetesClaimCapacitySQL: the clusters are chosen from one snapshot ...     *)
ChooseClusters(c) ==
  /\ claimTx[c].at = "begun"
  /\ claimTx' = [claimTx EXCEPT ![c].at = "locking",
                                ![c].wants = {ClusterOf[r] : r \in candidates(c)} \ {0}]
  /\ UNCHANGED <<runRow, lapsed, clusterLock, uncounted, lapses>>

(* FOR UPDATE OF kc waits for the Core that holds the row.                          *)
clusterIsFree(k) == clusterLock[k] = {}

(* ... and locked in the order of their ids.                                       *)
LockCluster(c) ==
  /\ claimTx[c].at = "locking" /\ claimTx[c].wants # {}
  /\ LET k == Min(claimTx[c].wants) IN
       /\ clusterIsFree(k)
       /\ clusterLock' = [clusterLock EXCEPT ![k] = @ \cup {c}]
       /\ claimTx' = [claimTx EXCEPT ![c].wants = @ \ {k}]
  /\ UNCHANGED <<runRow, lapsed, uncounted, lapses>>

(* r is among the first Max - active of its partition of the candidates.            *)
WithinRank(c, r, Part, max) ==
  LET free == max - Cardinality(active(c) \cap Part) IN
  Cardinality({q \in candidates(c) \cap Part : q <= r}) <= free

sameJob(r) == {q \in ClaimRun : JobOf[q] = JobOf[r]}
sameCluster(r) == {q \in ClaimRun : ClusterOf[q] = ClusterOf[r]}

\* Mutant: only the runs this claim may take are ranked.
eligibleAfterLock(c) ==
  {r \in candidates(c) :
     /\ ~RowLocked(r)
     /\ LET Free(Part) == {q \in Part : ~RowLocked(q)} IN
          /\ WithinRank(c, r, Free(sameJob(r)), JobMax[JobOf[r]])
          /\ WithinRank(c, r, Free(ClaimRun), TenantMax)
          /\ ClusterOf[r] # 0 => WithinRank(c, r, Free(sameCluster(r)), ClusterMax[ClusterOf[r]])}

(* The ranks count the rows that are then skipped because another claim has them.     *)
eligible(c) ==
  {r \in candidates(c) :
     /\ ~RowLocked(r)
     /\ WithinRank(c, r, sameJob(r), JobMax[JobOf[r]])
     /\ WithinRank(c, r, ClaimRun, TenantMax)
     /\ ClusterOf[r] # 0 => WithinRank(c, r, sameCluster(r), ClusterMax[ClusterOf[r]])}

(* claimRunsSQL: ORDER BY available_at,id ... SKIP LOCKED LIMIT.                    *)
ClaimStatement(c) ==
  /\ claimTx[c].at = "locking" /\ claimTx[c].wants = {}
  /\ LET E == eligible(c)
         T == {r \in E : Cardinality({q \in E : q <= r}) <= ClaimLimit} IN
       /\ claimTx' = [claimTx EXCEPT ![c].at = "claimed", ![c].takes = T]
       /\ uncounted' = uncounted \cup {r \in T : ClusterOf[r] # 0 /\ c \notin clusterLock[ClusterOf[r]]}
  /\ UNCHANGED <<runRow, lapsed, clusterLock, lapses>>

Released(c) == [k \in Cluster |-> clusterLock[k] \ {c}]

CommitClaim(c) ==
  /\ claimTx[c].at = "claimed"
  /\ runRow' = [r \in ClaimRun |-> IF r \in claimTx[c].takes THEN "running" ELSE runRow[r]]
  /\ lapsed' = lapsed \ claimTx[c].takes
  /\ claimTx' = [d \in ClaimCore |->
       IF d = c THEN NoClaim ELSE [claimTx[d] EXCEPT !.past = @ \ claimTx[c].takes]]
  /\ clusterLock' = Released(c)
  /\ UNCHANGED <<uncounted, lapses>>

(* A row that cannot be scanned or decrypted, a lost connection: ROLLBACK.           *)
RollBackClaim(c) ==
  /\ claimTx[c].at # "idle"
  /\ claimTx' = [claimTx EXCEPT ![c] = NoClaim]
  /\ clusterLock' = Released(c)
  /\ uncounted' = uncounted \ claimTx[c].takes
  /\ UNCHANGED <<runRow, lapsed, lapses>>

ClaimNext ==
  \/ \E r \in ClaimRun :
       OpenRun(r) \/ InsertRun(r) \/ PrepareDispatch(r) \/ EndRun(r) \/ LeasePasses(r)
  \/ \E c \in ClaimCore :
       \/ BeginClaim(c) \/ ChooseClusters(c) \/ LockCluster(c)
       \/ ClaimStatement(c) \/ CommitClaim(c) \/ RollBackClaim(c)

-----------------------------------------------------------------------------
(* What counts against a limit: running under a live lease or waiting.              *)
Working == {r \in ClaimRun : runRow[r] \in {"running", "waiting_callback"} /\ r \notin lapsed}

(* Overlapping claims take no job, tenant or cluster beyond its limit while runs     *)
(* become visible in the order they are ranked by, although only clusters are         *)
(* locked: a run another claim has taken keeps its rank (claimRunsSQL).            *)
ClaimsWithinLimits ==
  /\ Cardinality(Working) <= TenantMax
  /\ \A r \in ClaimRun : Cardinality(Working \cap sameJob(r)) <= JobMax[JobOf[r]]
  /\ \A k \in Cluster : Cardinality({r \in Working : ClusterOf[r] = k}) <= ClusterMax[k]

(* In whatever order runs become visible, a cluster is oversold at most by the runs   *)
(* that were claimed without its lock, by a Core that saw no due run of the cluster   *)
(* when it chose the clusters to lock, and by those that a worker dispatched after    *)
(* its lease (lockKubernetesClaimCapacitySQL, PrepareClaimedExecutorDispatch).     *)
LockedIsNotOversold ==
  \A k \in Cluster :
    Cardinality({r \in Working \ uncounted : ClusterOf[r] = k}) <= ClusterMax[k]
=============================================================================
