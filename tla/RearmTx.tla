------------------------------ MODULE RearmTx ------------------------------
(***************************************************************************)
(* The statements inside the transactions that end the shards of one       *)
(* fixed_delay broadcast (rearmFixedDelay, internal/store/run_state.go).    *)
(*                                                                         *)
(* JobRuns takes a transaction as one step.  Its row lock serialises the    *)
(* transactions that end ONE run, but the shards of a broadcast are         *)
(* different rows: two of them end in transactions that overlap, and under  *)
(* READ COMMITTED neither sees what the other has written before it         *)
(* commits.  Here every statement is a step: the UPDATE that ends the run,  *)
(* the SELECT EXISTS over the group, the SELECT .. FOR UPDATE of the job    *)
(* with the UPDATE of next_run_at, and the COMMIT.                          *)
(*                                                                         *)
(* A shard that is retried keeps its place in the group, so a shard stands  *)
(* for its whole chain: its current attempt is "active" until one ends      *)
(* without a retry.  ended and armed are the committed values.              *)
(***************************************************************************)
EXTENDS Naturals, FiniteSets, TLAPS

CONSTANTS
  Shard,        \* the shards of the broadcast group
  MaxRetries,   \* jobs.max_retries
  NoShard       \* nobody holds the lock of the job row

ASSUME ShardAssumption == Shard # {} /\ IsFiniteSet(Shard)
ASSUME RetryAssumption == MaxRetries \in Nat
ASSUME LockAssumption == NoShard \notin Shard

VARIABLES
  ended,     \* [Shard -> BOOLEAN]: the last attempt of the shard has ended
  attempt,   \* [Shard -> 1..MaxRetries+1]: attempt of the shard's live run
  armed,     \* jobs.next_run_at IS NOT NULL
  tx,        \* [Shard -> phase of the transaction that ends its run]
  jobLock    \* holder of the row lock on the job

vars == <<ended, attempt, armed, tx, jobLock>>

(* idle: none open; updated: the run row is terminal in this transaction;  *)
(* alone: the SELECT found no unfinished run of the group; rearmed: next_   *)
(* run_at is set in this transaction; done: rearmFixedDelay returned        *)
(* without touching the job.                                               *)
Phase == {"idle", "updated", "alone", "rearmed", "done"}

TypeOK ==
  /\ ended \in [Shard -> BOOLEAN]
  /\ attempt \in [Shard -> 1 .. (MaxRetries + 1)]
  /\ armed \in BOOLEAN
  /\ tx \in [Shard -> Phase]
  /\ jobLock \in Shard \cup {NoShard}

(* The group has just been enqueued and next_run_at is NULL until its end. *)
Init ==
  /\ ended = [s \in Shard |-> FALSE]
  /\ attempt = [s \in Shard |-> 1]
  /\ armed = FALSE
  /\ tx = [s \in Shard |-> "idle"]
  /\ jobLock = NoShard

(* A failed attempt with budget left: one transaction ends it and inserts   *)
(* the retry, which carries the group and the flag; the job is not touched. *)
shouldRetry(s) == attempt[s] <= MaxRetries

InsertRetry(s) ==
  /\ ~ended[s]
  /\ tx[s] = "idle"
  /\ shouldRetry(s)
  /\ attempt' = [attempt EXCEPT ![s] = @ + 1]
  /\ UNCHANGED <<ended, armed, tx, jobLock>>

(* UPDATE job_runs SET status=<terminal> of the shard's last attempt.       *)
EndRun(s) ==
  /\ ~ended[s]
  /\ tx[s] = "idle"
  /\ tx' = [tx EXCEPT ![s] = "updated"]
  /\ UNCHANGED <<ended, attempt, armed, jobLock>>

(* Mutant: the group is not looked at.                                      *)
unfinishedIgnored(s) == FALSE

(* SELECT EXISTS(.. broadcast_group_id=$1 .. status IN ('pending', ..)): a   *)
(* READ COMMITTED statement sees its own transaction's row as terminal and   *)
(* the others as they were committed.                                       *)
unfinished(s) == \E t \in Shard \ {s} : ~ended[t]

CheckGroup(s) ==
  /\ tx[s] = "updated"
  /\ tx' = [tx EXCEPT ![s] = IF unfinished(s) THEN "done" ELSE "alone"]
  /\ UNCHANGED <<ended, attempt, armed, jobLock>>

(* SELECT .. FROM jobs .. FOR UPDATE waits for the row lock and reads the    *)
(* committed next_run_at; the UPDATE sets it when it was NULL.              *)
LockJob(s) ==
  /\ tx[s] = "alone"
  /\ jobLock = NoShard
  /\ jobLock' = s
  /\ tx' = [tx EXCEPT ![s] = IF armed THEN "done" ELSE "rearmed"]
  /\ UNCHANGED <<ended, attempt, armed>>

Unlocked(s) == IF jobLock = s THEN NoShard ELSE jobLock

Commit(s) ==
  /\ tx[s] \in {"rearmed", "done"}
  /\ ended' = [ended EXCEPT ![s] = TRUE]
  /\ armed' = (armed \/ tx[s] = "rearmed")
  /\ tx' = [tx EXCEPT ![s] = "idle"]
  /\ jobLock' = Unlocked(s)
  /\ UNCHANGED attempt

(* An error or a crash of the Core: the deferred Rollback, or the broken     *)
(* connection, undoes the transaction; the run is still active and a later   *)
(* transaction ends it.                                                     *)
Rollback(s) ==
  /\ tx[s] # "idle"
  /\ tx' = [tx EXCEPT ![s] = "idle"]
  /\ jobLock' = Unlocked(s)
  /\ UNCHANGED <<ended, attempt, armed>>

(* EnqueueDue skips a locked job row; otherwise the next group starts and    *)
(* next_run_at is NULL again.                                               *)
EnqueueDue ==
  /\ armed
  /\ jobLock = NoShard
  /\ ended' = [s \in Shard |-> FALSE]
  /\ attempt' = [s \in Shard |-> 1]
  /\ armed' = FALSE
  /\ UNCHANGED <<tx, jobLock>>

EndTx(s) == EndRun(s) \/ CheckGroup(s) \/ LockJob(s) \/ Commit(s)

Next ==
  \/ EnqueueDue
  \/ \E s \in Shard : InsertRetry(s) \/ EndTx(s) \/ Rollback(s)

Spec == Init /\ [][Next]_vars

-----------------------------------------------------------------------------
(* The next run of a fixed_delay job is only scheduled once every shard of   *)
(* the current one, retries included, has ended (README.md:277), and a shard *)
(* that has ended is not being ended again: whatever the overlap of the      *)
(* transactions, next_run_at is never set while a run of the group is live.  *)
RearmedAfterGroup == armed => \A s \in Shard : ended[s] /\ tx[s] = "idle"

(* Once every shard of a group has ended the next run is scheduled           *)
(* (README.md:277 "等当前计划运行及其全部 retry/广播分片终止后，再从最终完成时刻   *)
(* 计算下一次"); otherwise nothing ever schedules the job again.              *)
GroupIsRescheduled == (\A s \in Shard : ended[s]) => armed

-----------------------------------------------------------------------------
(* An open transaction has not ended its shard yet, and the one that found   *)
(* itself alone is the only one that can still be open for the group: the    *)
(* others have committed their end and only EnqueueDue, which waits for the  *)
(* re-arming, makes a shard live again.                                     *)
IInv ==
  /\ TypeOK
  /\ RearmedAfterGroup
  /\ \A s \in Shard : tx[s] # "idle" => ~ended[s]
  /\ \A s \in Shard : tx[s] \in {"alone", "rearmed"} => \A t \in Shard \ {s} : ended[t]

(* IInv holds initially and every statement preserves it.                    *)
LEMMA RearmInductive == IInv /\ [Next]_vars => IInv'
<1> SUFFICES ASSUME IInv, [Next]_vars PROVE IInv'
  OBVIOUS
<1> USE RetryAssumption, LockAssumption DEF IInv, TypeOK, RearmedAfterGroup, Phase
<1>1. CASE EnqueueDue
  <2>1. ended' \in [Shard -> BOOLEAN]
    BY <1>1, Zenon DEF EnqueueDue
  <2>2. attempt' \in [Shard -> 1 .. (MaxRetries + 1)]
    BY <1>1 DEF EnqueueDue
  <2> QED
    BY <1>1, <2>1, <2>2 DEF EnqueueDue
<1>2. ASSUME NEW s \in Shard, InsertRetry(s) PROVE IInv'
  BY <1>2 DEF InsertRetry, shouldRetry
<1>3. ASSUME NEW s \in Shard, EndRun(s) PROVE IInv'
  BY <1>3 DEF EndRun
<1>4. ASSUME NEW s \in Shard, CheckGroup(s) PROVE IInv'
  BY <1>4 DEF CheckGroup, unfinished
<1>5. ASSUME NEW s \in Shard, LockJob(s) PROVE IInv'
  BY <1>5 DEF LockJob
<1>6. ASSUME NEW s \in Shard, Commit(s) PROVE IInv'
  BY <1>6 DEF Commit, Unlocked
<1>7. ASSUME NEW s \in Shard, Rollback(s) PROVE IInv'
  BY <1>7 DEF Rollback, Unlocked
<1>8. CASE UNCHANGED vars
  BY <1>8 DEF vars
<1> QED
  BY <1>1, <1>2, <1>3, <1>4, <1>5, <1>6, <1>7, <1>8 DEF Next, EndTx

(* For any number of shards and any retry budget a fixed_delay job is not    *)
(* re-armed by rearmFixedDelay while a run of its broadcast is live, however *)
(* the transactions overlap.                                                *)
THEOREM RearmWaits == Spec => []RearmedAfterGroup
<1>1. Init => IInv
  <2> SUFFICES ASSUME Init PROVE IInv
    OBVIOUS
  <2>1. ended \in [Shard -> BOOLEAN]
    BY Zenon DEF Init
  <2>2. attempt \in [Shard -> 1 .. (MaxRetries + 1)]
    BY RetryAssumption DEF Init
  <2> QED
    BY <2>1, <2>2 DEF Init, IInv, TypeOK, RearmedAfterGroup, Phase
<1>2. IInv => RearmedAfterGroup
  BY DEF IInv
<1> QED
  BY <1>1, <1>2, RearmInductive, PTL DEF Spec
=============================================================================
