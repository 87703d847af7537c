--------------------------- MODULE BlockPolicyTx ---------------------------
(***************************************************************************)
(* The statements inside the transactions that start and retry the runs of  *)
(* one job: TriggerJobWithOptions (and enqueueDependentRuns, which locks     *)
(* and decides the same way), EnqueueDue and FailRun with a retry.           *)
(*                                                                         *)
(* A trigger takes the job's advisory lock, EnqueueDue the lock of the jobs  *)
(* row, FailRun the lock of the run row it ends, so transactions of          *)
(* different kinds overlap, and under READ COMMITTED each statement sees     *)
(* what was committed when it started.  JobRuns takes each transaction as    *)
(* one step; here the reads, the covering UPDATE and the COMMIT are steps.   *)
(* One run per trigger (no broadcast) and one job.                          *)
(***************************************************************************)
EXTENDS Naturals, FiniteSets, FiniteSetTheorems, TLAPS

CONSTANTS
  Policy,      \* canonical overlap_policy: serial, discard_later or cover_early
  MaxQueue,    \* jobs.max_queue_size
  Trigger,     \* callers of TriggerJobWithOptions and enqueueDependentRuns
  Scheduler,   \* Cores running EnqueueDue
  MaxRuns,     \* bound: rows inserted
  MaxRetries,  \* bound: retries inserted over all runs
  NoTx         \* nobody holds the lock

Actor == Trigger \cup Scheduler
RunId == 1 .. MaxRuns

VARIABLES
  status,    \* [RunId -> committed status]
  tx,        \* [Actor -> its open transaction]
  jobQueue,  \* holder of pg_advisory_xact_lock(hash(job id))
  jobRow,    \* holder of the lock on the jobs row
  failing,   \* run rows locked by an open FailRun that will insert a retry
  retries    \* retries inserted so far

vars == <<status, tx, jobQueue, jobRow, failing, retries>>

Idle == [at |-> "idle", queued |-> 0, hasActive |-> FALSE, covers |-> {}]

TypeOK ==
  /\ status \in [RunId -> {"absent", "pending", "running", "ended", "cancelled", "skipped"}]
  /\ tx \in [Actor -> [at : {"idle", "locked", "looked", "covering"}, queued : 0 .. MaxRuns,
                       hasActive : BOOLEAN, covers : SUBSET RunId]]
  /\ jobQueue \in Trigger \cup {NoTx}
  /\ jobRow \in Scheduler \cup {NoTx}
  /\ failing \subseteq {r \in RunId : status[r] = "running"}
  /\ retries \in 0 .. MaxRetries

Init ==
  /\ status = [r \in RunId |-> "absent"]
  /\ tx = [a \in Actor |-> Idle]
  /\ jobQueue = NoTx
  /\ jobRow = NoTx
  /\ failing = {}
  /\ retries = 0

Active == {r \in RunId : status[r] \in {"pending", "running"}}
Pending == {r \in RunId : status[r] = "pending"}
Fresh(r) == status[r] = "absent" /\ \A q \in RunId : q < r => status[q] # "absent"

(* SELECT pg_advisory_xact_lock waits for the transaction that holds it.     *)
queueIsFree(t) == jobQueue = NoTx

(* FOR UPDATE SKIP LOCKED leaves the job to the pass that holds its row.     *)
rowIsFree(c) == jobRow = NoTx

(* A trigger locks the job's queue and counts the pending runs.              *)
LockQueue(t) ==
  /\ tx[t].at = "idle"
  /\ queueIsFree(t)
  /\ jobQueue' = t
  /\ tx' = [tx EXCEPT ![t].at = "locked", ![t].queued = Cardinality(Pending)]
  /\ UNCHANGED <<status, jobRow, failing, retries>>

(* applyBlockPolicy: a second statement asks whether a run is active.        *)
CheckActive(t) ==
  /\ tx[t].at = "locked"
  /\ tx' = [tx EXCEPT ![t].at = "looked", ![t].hasActive = Active # {}]
  /\ UNCHANGED <<status, jobQueue, jobRow, failing, retries>>

(* EnqueueDue picks the due job ...                                         *)
LockDueJob(c) ==
  /\ tx[c].at = "idle"
  /\ rowIsFree(c)
  /\ jobRow' = c
  /\ tx' = [tx EXCEPT ![c].at = "locked"]
  /\ UNCHANGED <<status, jobQueue, failing, retries>>

(* ... and jobRunQueueState counts and asks in one statement.                *)
QueueState(c) ==
  /\ tx[c].at = "locked"
  /\ tx' = [tx EXCEPT ![c].at = "looked", ![c].queued = Cardinality(Pending),
                      ![c].hasActive = Active # {}]
  /\ UNCHANGED <<status, jobQueue, jobRow, failing, retries>>

decideBlockAction(hasActive) ==
  CASE Policy = "discard_later" /\ hasActive -> "skip"
    [] Policy = "cover_early" /\ hasActive -> "cancel_and_enqueue"
    [] OTHER -> "enqueue"

(* applyBlockAction: the UPDATE that cancels the covered runs works on the   *)
(* rows active when it starts.                                              *)
StartCover(a) ==
  /\ tx[a].at = "looked"
  /\ decideBlockAction(tx[a].hasActive) = "cancel_and_enqueue"
  /\ tx' = [tx EXCEPT ![a].at = "covering", ![a].covers = Active]
  /\ UNCHANGED <<status, jobQueue, jobRow, failing, retries>>

Release(a) ==
  /\ tx' = [tx EXCEPT ![a] = Idle]
  /\ jobQueue' = IF jobQueue = a THEN NoTx ELSE jobQueue
  /\ jobRow' = IF jobRow = a THEN NoTx ELSE jobRow

(* It waits for the rows a FailRun has locked and checks their status again  *)
(* before cancelling them; the new run is inserted and all of it committed.  *)
CommitCover(a) ==
  /\ tx[a].at = "covering"
  /\ tx[a].covers \cap failing = {}
  /\ \E r \in RunId :
       /\ Fresh(r)
       /\ status' = [q \in RunId |-> IF q = r THEN "pending"
                                     ELSE IF q \in tx[a].covers \cap Active THEN "cancelled"
                                     ELSE status[q]]
  /\ Release(a)
  /\ UNCHANGED <<failing, retries>>

(* A full queue: ErrQueueFull rolls a trigger back, EnqueueDue records a     *)
(* skipped run, as both do under discard_later.                             *)
CommitInsert(a) ==
  LET action == decideBlockAction(tx[a].hasActive)
      full == action = "enqueue" /\ tx[a].queued >= MaxQueue
  IN /\ tx[a].at = "looked"
     /\ action # "cancel_and_enqueue"
     /\ \/ full /\ a \in Trigger /\ UNCHANGED status
        \/ /\ ~(full /\ a \in Trigger)
           /\ \E r \in RunId :
                /\ Fresh(r)
                /\ status' = [status EXCEPT ![r] =
                                IF action = "skip" \/ full THEN "skipped" ELSE "pending"]
     /\ Release(a)
     /\ UNCHANGED <<failing, retries>>

(* A claim, and an end without a retry, touch one row and read no other.     *)
Claim(r) ==
  /\ status[r] = "pending"
  /\ status' = [status EXCEPT ![r] = "running"]
  /\ UNCHANGED <<tx, jobQueue, jobRow, failing, retries>>

EndRun(r) ==
  /\ status[r] = "running"
  /\ r \notin failing
  /\ status' = [status EXCEPT ![r] = "ended"]
  /\ UNCHANGED <<tx, jobQueue, jobRow, failing, retries>>

(* FailRun: the UPDATE locks the run row; the COMMIT ends it and brings the  *)
(* retry, a pending row.                                                    *)
StartRetry(r) ==
  /\ status[r] = "running"
  /\ r \notin failing
  /\ retries + Cardinality(failing) < MaxRetries
  /\ failing' = failing \cup {r}
  /\ UNCHANGED <<status, tx, jobQueue, jobRow, retries>>

CommitRetry(r) ==
  /\ r \in failing
  /\ \E q \in RunId :
       /\ Fresh(q)
       /\ status' = [status EXCEPT ![r] = "ended", ![q] = "pending"]
  /\ failing' = failing \ {r}
  /\ retries' = retries + 1
  /\ UNCHANGED <<tx, jobQueue, jobRow>>

(* An error or a lost connection rolls the transaction back.                 *)
Abort(a) ==
  /\ tx[a].at # "idle"
  /\ Release(a)
  /\ UNCHANGED <<status, failing, retries>>

AbortRetry(r) ==
  /\ r \in failing
  /\ failing' = failing \ {r}
  /\ UNCHANGED <<status, tx, jobQueue, jobRow, retries>>

Next ==
  \/ \E t \in Trigger : LockQueue(t) \/ CheckActive(t)
  \/ \E c \in Scheduler : LockDueJob(c) \/ QueueState(c)
  \/ \E a \in Actor : StartCover(a) \/ CommitCover(a) \/ CommitInsert(a) \/ Abort(a)
  \/ \E r \in RunId : Claim(r) \/ EndRun(r) \/ StartRetry(r) \/ CommitRetry(r) \/ AbortRetry(r)

Spec == Init /\ [][Next]_vars

-----------------------------------------------------------------------------
(* README.md:257: under discard_later a new trigger is skipped while a run   *)
(* is active or queued, and under cover_early it takes the place of the old  *)
(* runs and of the queue; either way one run of the job is active at a time, *)
(* whatever transactions start runs and retries at once.                    *)
OneActiveRun == Policy # "serial" => Cardinality(Active) <= 1

(* Under serial the queue exceeds max_queue_size by at most the one run that *)
(* EnqueueDue inserts next to a trigger that has counted already, and by     *)
(* the retries, which are inserted without counting.                        *)
QueueOvershootBounded ==
  Policy = "serial" => Cardinality(Pending) <= MaxQueue + 1 + retries
-----------------------------------------------------------------------------
(* Triggers without EnqueueDue beside them: whose policy skips, or whose      *)
(* policy covers while no run is retried.                                    *)
TriggersOnly ==
  /\ Scheduler = {} /\ NoTx \notin Trigger
  /\ \/ Policy = "discard_later"
     \/ Policy = "cover_early" /\ MaxRetries = 0

(* The holder of the advisory lock is the only open trigger; what it has      *)
(* read stays true until it commits, since only it inserts runs and a retry   *)
(* replaces a run that was active.                                           *)
TxRecord == [at : {"idle", "locked", "looked", "covering"}, queued : Nat,
             hasActive : BOOLEAN, covers : SUBSET RunId]

TriggerInv ==
  /\ status \in [RunId -> {"absent", "pending", "running", "ended", "cancelled", "skipped"}]
  /\ tx \in [Trigger -> TxRecord]
  /\ failing \subseteq {r \in RunId : status[r] = "running"}
  /\ retries \in Nat
  /\ Policy = "cover_early" => failing = {}
  /\ \A q, r \in Active : q = r
  /\ \A t \in Trigger : tx[t].at # "idle" => jobQueue = t
  /\ \A t \in Trigger : tx[t].at = "looked" /\ ~tx[t].hasActive => Active = {}
  /\ \A t \in Trigger : tx[t].at = "covering" =>
       Policy = "cover_early" /\ Active \subseteq tx[t].covers

(* A set without two different elements has at most one.                     *)
LEMMA AtMostOneElement ==
  ASSUME NEW S, \A q, r \in S : q = r
  PROVE  IsFiniteSet(S) /\ Cardinality(S) <= 1
<1>1. CASE S = {}
  BY <1>1, FS_EmptySet
<1>2. CASE S # {}
  <2> PICK x \in S : TRUE
    BY <1>2
  <2>1. S = {x}
    OBVIOUS
  <2>2. IsFiniteSet(S) /\ Cardinality(S) = 1
    BY <2>1, FS_Singleton, Zenon
  <2> QED
    BY <2>2
<1> QED
  BY <1>1, <1>2

(* Every statement of a trigger and of FailRun preserves the invariant.       *)
LEMMA TriggerInductive ==
  ASSUME TriggersOnly, TriggerInv, [Next]_vars
  PROVE  TriggerInv'
<1> USE DEF TriggersOnly, TriggerInv, TxRecord
<1>0. Actor = Trigger
  BY DEF Actor
<1>1. ASSUME NEW t \in Trigger, LockQueue(t) PROVE TriggerInv'
  <2>1. IsFiniteSet(Pending) /\ Cardinality(Pending) \in Nat
    <3>1. Pending \subseteq Active
      BY DEF Pending, Active
    <3>2. IsFiniteSet(Active)
      BY AtMostOneElement
    <3> QED
      BY <3>1, <3>2, FS_Subset, FS_CardinalityType
  <2>2. \A u \in Trigger : tx[u].at = "idle"
    BY <1>1 DEF LockQueue, queueIsFree
  <2>3. /\ tx' \in [Trigger -> TxRecord]
        /\ \A u \in Trigger : u # t => tx'[u].at = "idle"
        /\ tx'[t].at = "locked"
    <3>1. PICK n \in Nat : n = Cardinality(Pending)
      BY <2>1
    <3>2. tx' = [tx EXCEPT ![t].at = "locked", ![t].queued = n]
      BY <1>1, <3>1 DEF LockQueue
    <3>3. tx' \in [Trigger -> TxRecord]
      <4>1. tx \in [Trigger -> TxRecord] /\ t \in Trigger
        OBVIOUS
      <4> HIDE DEF TriggerInv, TriggersOnly
      <4>2. [tx[t] EXCEPT !.at = "locked", !.queued = n] \in TxRecord
        BY <4>1
      <4>3. tx' = [tx EXCEPT ![t] = [tx[t] EXCEPT !.at = "locked", !.queued = n]]
        BY <3>2, <4>1
      <4> QED
        BY <4>1, <4>2, <4>3
    <3>4. tx'[t].at = "locked" /\ \A u \in Trigger : u # t => tx'[u] = tx[u]
      BY <3>2
    <3> QED
      BY <2>2, <3>3, <3>4
  <2>4. Active' = Active /\ UNCHANGED <<status, failing, retries>> /\ jobQueue' = t
    BY <1>1 DEF LockQueue, Active
  <2> QED
    BY <2>3, <2>4
<1>2. ASSUME NEW t \in Trigger, CheckActive(t) PROVE TriggerInv'
  <2>1. /\ Active' = Active /\ UNCHANGED <<status, failing, retries, jobQueue>>
        /\ tx[t].at = "locked"
    BY <1>2 DEF CheckActive, Active
  <2>2. \A u \in Trigger : u # t => tx[u].at = "idle"
    BY <2>1
  <2>3. CASE Active = {}
    <3>1. tx' = [tx EXCEPT ![t].at = "looked", ![t].hasActive = FALSE]
      BY <1>2, <2>3 DEF CheckActive
    <3>2. /\ tx' \in [Trigger -> TxRecord]
          /\ \A u \in Trigger : u # t => tx'[u] = tx[u]
          /\ tx'[t].at = "looked"
      BY <3>1
    <3> QED
      BY <2>1, <2>2, <2>3, <3>2
  <2>4. CASE Active # {}
    <3>1. tx' = [tx EXCEPT ![t].at = "looked", ![t].hasActive = TRUE]
      BY <1>2, <2>4 DEF CheckActive
    <3>2. /\ tx' \in [Trigger -> TxRecord]
          /\ \A u \in Trigger : u # t => tx'[u] = tx[u]
          /\ tx'[t].at = "looked" /\ tx'[t].hasActive
      BY <3>1
    <3> QED
      BY <2>1, <2>2, <3>2
  <2> QED
    BY <2>3, <2>4
<1>3. ASSUME NEW t \in Trigger, StartCover(t) PROVE TriggerInv'
  <2>1. /\ Active' = Active /\ UNCHANGED <<status, failing, retries, jobQueue>>
        /\ tx[t].at = "looked"
        /\ tx' = [tx EXCEPT ![t].at = "covering", ![t].covers = Active]
    BY <1>3 DEF StartCover, Active
  <2>2. Active \subseteq RunId
    BY DEF Active
  <2>3. /\ tx' \in [Trigger -> TxRecord]
        /\ \A u \in Trigger : u # t => tx'[u] = tx[u]
        /\ tx'[t].at = "covering" /\ tx'[t].covers = Active
    BY <2>1, <2>2
  <2>4. Policy = "cover_early"
    BY <1>3 DEF StartCover, decideBlockAction
  <2> QED
    BY <2>1, <2>3, <2>4
<1>4. ASSUME NEW t \in Trigger, CommitCover(t) PROVE TriggerInv'
  BY <1>0, <1>4 DEF CommitCover, Release, Idle, Active, Fresh
<1>5. ASSUME NEW t \in Trigger, CommitInsert(t) PROVE TriggerInv'
  BY <1>0, <1>5 DEF CommitInsert, decideBlockAction, Release, Idle, Active, Fresh
<1>6. ASSUME NEW t \in Trigger, Abort(t) PROVE TriggerInv'
  BY <1>0, <1>6 DEF Abort, Release, Idle, Active
<1>7. ASSUME NEW r \in RunId, Claim(r) PROVE TriggerInv'
  BY <1>7 DEF Claim, Active
<1>8. ASSUME NEW r \in RunId, EndRun(r) PROVE TriggerInv'
  BY <1>8 DEF EndRun, Active
<1>9. ASSUME NEW r \in RunId, StartRetry(r) PROVE TriggerInv'
  <2>1. CASE Policy = "cover_early"
    <3>1. Cardinality(failing) = 0
      BY <2>1, FS_EmptySet
    <3> QED
      BY <1>9, <2>1, <3>1 DEF StartRetry
  <2>2. CASE Policy # "cover_early"
    <3>1. Active' = Active
      BY <1>9 DEF StartRetry, Active
    <3> QED
      BY <1>9, <2>2, <3>1 DEF StartRetry
  <2> QED
    BY <2>1, <2>2
<1>10. ASSUME NEW r \in RunId, CommitRetry(r) PROVE TriggerInv'
  <2>1. PICK q \in RunId : Fresh(q) /\ status' = [status EXCEPT ![r] = "ended", ![q] = "pending"]
    BY <1>10 DEF CommitRetry
  <2>2. r \in RunId /\ status[r] = "running" /\ status[q] = "absent" /\ r # q
    BY <1>10, <2>1 DEF CommitRetry, Fresh
  <2>3. Active = {r} /\ Active' = {q}
    <3>1. Active = {r}
      BY <2>2 DEF Active
    <3>2. \A p \in RunId : status'[p] = IF p = q THEN "pending" ELSE IF p = r THEN "ended" ELSE status[p]
      BY <2>1, <2>2
    <3> QED
      BY <3>1, <3>2, <2>2 DEF Active
  <2>4. Policy = "discard_later" /\ UNCHANGED <<tx, jobQueue>> /\ retries' = retries + 1
    BY <1>10 DEF CommitRetry
  <2>5. failing' = {} /\ status' \in [RunId -> {"absent", "pending", "running", "ended", "cancelled", "skipped"}]
    <3>1. failing \subseteq Active
      BY DEF Active
    <3> QED
      BY <1>10, <2>1, <2>3, <3>1 DEF CommitRetry
  <2>6. \A u \in Trigger : tx[u].at # "covering"
    BY <2>4
  <2> QED
    BY <2>3, <2>4, <2>5, <2>6
<1>11. ASSUME NEW r \in RunId, AbortRetry(r) PROVE TriggerInv'
  BY <1>11 DEF AbortRetry, Active
<1>12. CASE UNCHANGED vars
  BY <1>12 DEF vars, Active
<1> QED
  BY <1>0, <1>1, <1>2, <1>3, <1>4, <1>5, <1>6, <1>7, <1>8, <1>9, <1>10, <1>11, <1>12 DEF Next

(* Any number of concurrent triggers under discard_later, with any number of  *)
(* retries beside them, or under cover_early without, leave one active run:   *)
(* TriggerJobWithOptions decides under its advisory lock.                    *)
THEOREM TriggersKeepOneRun ==
  ASSUME TriggersOnly
  PROVE  Spec => []OneActiveRun
<1>1. Init => TriggerInv
  BY DEF TriggersOnly, Init, TriggerInv, TxRecord, Idle, Actor, Active
<1>2. TriggerInv => OneActiveRun
  <2> SUFFICES ASSUME TriggerInv PROVE Cardinality(Active) <= 1
    BY DEF OneActiveRun
  <2> QED
    BY AtMostOneElement DEF TriggerInv
<1>3. TriggerInv /\ [Next]_vars => TriggerInv'
  BY TriggerInductive
<1> QED
  BY <1>1, <1>2, <1>3, PTL DEF Spec
=============================================================================
