------------------------------ MODULE JobRuns ------------------------------
(***************************************************************************)
(* The job_runs table of the scheduler and everything that writes to it:   *)
(* the schedule loop, manual triggers, the workers of several Core         *)
(* processes, executor callbacks, callback expiry and cancellation.        *)
(*                                                                         *)
(* Every store operation is one PostgreSQL transaction whose first write   *)
(* is a conditional UPDATE of the run it is about, so transactions on the  *)
(* same run are serialised by its row lock and each is one action here.    *)
(* (Modules RearmTx and BlockPolicyTx split the transactions that read     *)
(* OTHER rows and show what READ COMMITTED adds.)                          *)
(*                                                                         *)
(* A row keeps what the guards and the properties tell apart.  Its three   *)
(* time columns are one flag, due: available_at <= now() for a pending     *)
(* run, lease_until < now() for a running one, callback_deadline <= now()  *)
(* for one waiting.  Its two secrets are one number, token: the lease      *)
(* token of a running run, the callback token of a waiting one; the n-th   *)
(* claim of a run draws token n, and the callback token a worker makes is  *)
(* named after the lease it works under.                                   *)
(***************************************************************************)
EXTENDS Integers, FiniteSets, Sequences

CONSTANTS
    Job, NoJob,
    Key,                 \* idempotency keys of manual triggers
    NoRun,               \* the NULL of run references
    OverlapPolicy,       \* [Job -> overlap_policy]
    MaxQueueSize,        \* [Job -> max_queue_size]
    MaxConcurrentRuns,   \* [Job -> max_concurrent_runs]
    TenantMax,           \* tenants.max_concurrent_runs; all jobs share a tenant
    MaxRetries,          \* [Job -> max_retries]
    FixedDelay, Once,    \* the jobs of these schedule types
    Broadcast,           \* the jobs routed by sharding_broadcast
    Children,            \* [Job -> Seq(Job)], job_dependencies by child id
    MaxShards,           \* most live executor nodes a broadcast meets
    MaxRuns,             \* bound: rows ever inserted
    MaxRoots,            \* bound: rows inserted by schedules and triggers
    MaxToken,            \* bound: claims of one run
    MaxEdits,            \* bound: SetJobEnabled and UpdateJob calls
    Stalls               \* whether a live worker may outlive its lease

RunId == 1 .. MaxRuns

ASSUME RunsAssumption == MaxRuns \in Nat \ {0} /\ NoRun \notin RunId
ASSUME JobAssumption == NoJob \notin Job
ASSUME ConfigAssumption ==
    /\ MaxRetries \in [Job -> Nat]
    /\ MaxQueueSize \in [Job -> Nat]
    /\ MaxConcurrentRuns \in [Job -> Nat]
    /\ OverlapPolicy \in
         [Job -> {"serial", "discard_later", "cover_early", "parallel"}]
    /\ FixedDelay \subseteq Job /\ Once \subseteq Job \ FixedDelay
    /\ Broadcast \subseteq Job
    /\ Children \in [Job -> Seq(Job)]
    /\ \A j \in Job : \A i \in DOMAIN Children[j] : Children[j][i] # j
    /\ MaxShards \in Nat \ {0} /\ TenantMax \in Nat
    /\ MaxRoots \in Nat /\ MaxToken \in Nat /\ MaxEdits \in Nat
    /\ Stalls \in BOOLEAN

VARIABLES
    runs,       \* [RunId -> row], rows not yet inserted are "absent"
    nextId,     \* the id the next inserted row gets
    events,     \* outbox_events: how often each kind was emitted for a run
    commands,   \* runs with a 'cancel' row in executor_commands
    idem,       \* job_run_idempotency: the run a job and a key stand for
    deps,       \* job_dependency_dispatches: <<parent run, child job>>
    armed,      \* jobs.next_run_at IS NOT NULL
    enabled,    \* jobs.enabled
    work,       \* executions of Engine.execute in some Core process
    sent,       \* dispatches that left a Core: <<run, callback token>>
    edits       \* counts SetJobEnabled and UpdateJob against MaxEdits

db == <<runs, nextId, events, commands, deps, armed>>
vars == <<db, idem, enabled, work, sent, edits>>

ActiveStates == {"pending", "running", "waiting_callback"}
TerminalStates == {"succeeded", "failed", "timed_out", "cancelled", "skipped"}
Kind == ActiveStates \cup TerminalStates \cup {"exhausted"}

Row == [job : Job \cup {NoJob},
        status : ActiveStates \cup TerminalStates \cup {"absent"},
        due : BOOLEAN, token : Nat, attempt : Nat,
        root : RunId \cup {NoRun},      \* ghost: the chain's first attempt
        retryOf : RunId \cup {NoRun}, parent : RunId \cup {NoRun},
        group : RunId \cup {NoRun}, total : Nat,
        ext : RunId \cup {NoRun},       \* external_execution_id
        resched : BOOLEAN, addr : BOOLEAN]

AbsentRow == [job |-> NoJob, status |-> "absent", due |-> FALSE, token |-> 0,
              attempt |-> 0, root |-> NoRun, retryOf |-> NoRun,
              parent |-> NoRun, group |-> NoRun, total |-> 0, ext |-> NoRun,
              resched |-> FALSE, addr |-> FALSE]

Init ==
    /\ runs = [r \in RunId |-> AbsentRow]
    /\ nextId = 1
    /\ events = [r \in RunId |-> [k \in Kind |-> 0]]
    /\ commands = {}
    /\ idem = [j \in Job |-> [k \in Key |-> NoRun]]
    /\ deps = {}
    /\ armed = [j \in Job |-> TRUE]
    /\ enabled = [j \in Job |-> TRUE]
    /\ work = {}
    /\ sent = {}
    /\ edits = 0

-----------------------------------------------------------------------------
(* What one transaction writes: the rows it changes or inserts, the events *)
(* it adds to the outbox and the cancel commands it queues.                *)

IsActive(r) == runs[r].status \in ActiveStates
ActiveRuns(j) == {r \in RunId : runs[r].job = j /\ IsActive(r)}
PendingRuns(j) == {r \in RunId : runs[r].job = j /\ runs[r].status = "pending"}

Write(rows) ==
    runs' = [r \in RunId |-> IF r \in DOMAIN rows THEN rows[r] ELSE runs[r]]

Emit(E) ==
    events' = [r \in RunId |-> [k \in Kind |->
                 events[r][k] + (IF <<r, k>> \in E THEN 1 ELSE 0)]]

NewIds(n) == {r \in RunId : nextId <= r /\ r < nextId + n}
HasRoom(n) == nextId + n <= MaxRuns + 1

Finished(r, s) ==
    [runs[r] EXCEPT !.status = s, !.due = FALSE, !.token = 0]

Inserted(r, j, s, n, head, parent, resched) ==
    LET shard == j \in Broadcast /\ s = "pending"
    IN  [AbsentRow EXCEPT !.job = j, !.status = s, !.due = (s = "pending"),
                          !.attempt = 1, !.root = r, !.ext = r,
                          !.parent = parent,
                          !.group = IF shard THEN head ELSE NoRun,
                          !.total = IF shard THEN n ELSE 0,
                          !.resched = resched, !.addr = shard]

(* The copy insertRetryRunTx makes of a failed attempt; it waits for its   *)
(* backoff before it can be claimed.                                       *)
insertRetryRunTx(r) ==
    [runs[r] EXCEPT !.status = "pending", !.due = FALSE, !.token = 0,
                    !.attempt = @ + 1, !.retryOf = r, !.ext = nextId]

(* Mutant: one attempt beyond the budget. *)
shouldRetryOnceMore(r) == runs[r].attempt <= MaxRetries[runs[r].job] + 1

shouldRetry(r) == runs[r].attempt <= MaxRetries[runs[r].job]

(* Mutant: the other shards are not looked at. *)
rearmEveryShard(r, gone) ==
    /\ runs[r].resched
    /\ runs[r].job \in FixedDelay
    /\ enabled[runs[r].job]

(* Whether the end of run r makes its fixed_delay job due again; gone are  *)
(* the runs this transaction has ended.                                    *)
rearmFixedDelay(r, gone) ==
    /\ runs[r].resched
    /\ runs[r].group # NoRun =>
         ~ \E s \in RunId \ gone : /\ runs[s].group = runs[r].group
                                   /\ runs[s].resched
                                   /\ IsActive(s)
    /\ runs[r].job \in FixedDelay
    /\ enabled[runs[r].job]

Rearmed(ended) ==
    [j \in Job |-> armed[j] \/ \E r \in ended : /\ runs[r].job = j
                                                /\ rearmFixedDelay(r, ended)]

-----------------------------------------------------------------------------
(* Block policies *)

decideBlockAction(policy, hasActive) ==
    CASE hasActive /\ policy = "discard_later" -> "skip"
      [] hasActive /\ policy = "cover_early" -> "cancel_and_enqueue"
      [] OTHER -> "enqueue"

Action(j) == decideBlockAction(OverlapPolicy[j], ActiveRuns(j) # {})

QueueFull(j, n) ==
    /\ Action(j) = "enqueue"
    /\ Cardinality(PendingRuns(j)) + n > MaxQueueSize[j]

(* The status a trigger of job j gets when n executor nodes are live, and  *)
(* how many rows it inserts.                                               *)
Outcome(j, n) ==
    IF Action(j) = "skip" \/ QueueFull(j, n) THEN "skipped" ELSE "pending"
Width(j, s, n) == IF j \in Broadcast /\ s = "pending" THEN n ELSE 1
LiveNodes(j) == IF j \in Broadcast THEN 1 .. MaxShards ELSE {1}

(* The runs applyBlockAction cancels before job j's newest trigger, the    *)
(* events and the executor commands of that cancellation.                  *)
applyBlockAction(j) ==
    IF Action(j) = "cancel_and_enqueue" THEN ActiveRuns(j) ELSE {}
Cancelled(C) == {<<r, "cancelled">> : r \in C}
(* Mutant: waiting runs get no command. *)
cancelOnlyRunning(C) ==
    {r \in C : runs[r].addr /\ runs[r].status = "running"}

enqueueExecutorCancellationTx(C) == {r \in C : runs[r].addr}

Roots == {r \in RunId : runs[r].status # "absent" /\ runs[r].retryOf = NoRun}

(* One trigger of job j: cover what the policy covers, insert n rows with  *)
(* status s.                                                               *)
InsertTrigger(j, s, n, resched) ==
    LET ids == NewIds(n)
        covered == applyBlockAction(j)
    IN  /\ HasRoom(n) /\ Cardinality(Roots) + n <= MaxRoots
        /\ Write([r \in ids \cup covered |->
                    IF r \in ids
                    THEN Inserted(r, j, s, n, nextId, NoRun, resched)
                    ELSE Finished(r, "cancelled")])
        /\ Emit({<<r, s>> : r \in ids} \cup Cancelled(covered))
        /\ commands' = commands \cup enqueueExecutorCancellationTx(covered)
        /\ nextId' = nextId + n
        /\ deps' = deps

(* EnqueueDue for one due job and one due instant of it.  The parallel     *)
(* fast path asks nothing of the queue.  A broadcast without live nodes    *)
(* rolls the transaction back, which changes nothing.                      *)
EnqueueDue(j) ==
    /\ enabled[j] /\ armed[j]
    /\ \E n \in LiveNodes(j) :
         LET s == IF OverlapPolicy[j] = "parallel" /\ j \notin Broadcast
                  THEN "pending" ELSE Outcome(j, n)
         IN  /\ InsertTrigger(j, s, Width(j, s, n), j \in FixedDelay)
             /\ armed' = [armed EXCEPT ![j] =
                            IF j \in FixedDelay THEN s = "skipped"
                                                ELSE j \notin Once]
    /\ enabled' = [enabled EXCEPT ![j] = j \notin Once]
    /\ UNCHANGED <<idem, work, sent, edits>>

(* A misfire of policy skip: no instant is due any more.  It only shows    *)
(* for once jobs, which it ends; the others move to their next instant.    *)
SkipMisfire(j) ==
    /\ enabled[j] /\ armed[j] /\ j \in Once
    /\ armed' = [armed EXCEPT ![j] = FALSE]
    /\ enabled' = [enabled EXCEPT ![j] = FALSE]
    /\ UNCHANGED <<runs, nextId, events, commands, deps, idem, work, sent,
                   edits>>


(* A manual trigger, with or without an idempotency key.  A key already    *)
(* reserved returns its run; a full queue and a broadcast without nodes    *)
(* roll everything back, the key included.                                 *)
keyIsFree(j, ks) == \A k \in ks : idem[j][k] = NoRun

TriggerJob(j, ks) ==
    /\ keyIsFree(j, ks)
    /\ \E n \in LiveNodes(j) :
         LET s == IF Action(j) = "skip" THEN "skipped" ELSE "pending"
         IN  /\ ~ QueueFull(j, n)
             /\ InsertTrigger(j, s, Width(j, s, n), FALSE)
    /\ armed' = Rearmed(applyBlockAction(j))
    /\ idem' = [idem EXCEPT ![j] =
                  [k \in Key |-> IF k \in ks THEN nextId ELSE @[k]]]
    /\ UNCHANGED <<enabled, work, sent, edits>>

-----------------------------------------------------------------------------
(* Claims *)

(* Mutant: an expired lease is not taken over. *)
claimableWhenPending(r) == runs[r].due /\ runs[r].status = "pending"

Claimable(r) == runs[r].due /\ runs[r].status \in {"pending", "running"}

(* Mutant: waiting runs do not count. *)
countsOnlyRunning(r) == runs[r].status = "running" /\ ~ runs[r].due

(* The runs claimRunsSQL counts against the limits. *)
countsAsActive(r) == \/ runs[r].status = "running" /\ ~ runs[r].due
                     \/ runs[r].status = "waiting_callback"

JobLimit(r) ==
    LET m == MaxConcurrentRuns[runs[r].job]
    IN  IF runs[r].group # NoRun /\ runs[r].total > m THEN runs[r].total ELSE m

(* A claim takes the candidates whose rank fits under the limits.  Ranks   *)
(* follow available_at and id, which the model leaves open: S is possible  *)
(* when some order of the candidates gives each of its runs a small enough *)
(* rank.                                                                   *)
Eligible(S) ==
    /\ \A r \in S :
         LET mine == {s \in S : /\ runs[s].job = runs[r].job
                                /\ JobLimit(s) <= JobLimit(r)}
             active == {s \in RunId : /\ runs[s].job = runs[r].job
                                      /\ countsAsActive(s)}
         IN  Cardinality(mine) + Cardinality(active) <= JobLimit(r)
    /\ Cardinality(S) + Cardinality({s \in RunId : countsAsActive(s)})
         <= TenantMax

Claimed(r) ==
    [runs[r] EXCEPT !.status = "running", !.due = FALSE, !.token = @ + 1]

(* Mutant: every claim is announced, not only the first. *)
emitOnEveryClaim(S) == {<<r, "running">> : r \in S}

(* Only the first claim of a run announces it. *)
emitRunning(S) ==
    {<<r, "running">> : r \in {x \in S : runs[x].status = "pending"}}

ClaimRuns(S) ==
    /\ S # {} /\ \A r \in S : Claimable(r)
    /\ Eligible(S)
    /\ Write([r \in S |-> Claimed(r)])
    /\ Emit(emitRunning(S))
    /\ work' = work \cup {[run |-> r, lease |-> runs[r].token + 1,
                           pc |-> "routing"] : r \in S}
    /\ UNCHANGED <<nextId, commands, deps, armed, idem, enabled, sent, edits>>

-----------------------------------------------------------------------------
(* The end of an attempt *)

(* Run r ends in s, failed or timed_out: a retry while the budget lasts,   *)
(* else the exhausted event and the next fixed_delay instant.              *)
EndFailed(r, s) ==
    IF shouldRetry(r)
    THEN /\ HasRoom(1)
         /\ Write([x \in {r, nextId} |-> IF x = r THEN Finished(r, s)
                                                  ELSE insertRetryRunTx(r)])
         /\ Emit({<<r, s>>, <<nextId, "pending">>})
         /\ nextId' = nextId + 1
         /\ armed' = armed
         /\ UNCHANGED <<commands, deps>>
    ELSE /\ Write([x \in {r} |-> Finished(r, s)])
         /\ Emit({<<r, s>>, <<r, "exhausted">>})
         /\ armed' = Rearmed({r})
         /\ UNCHANGED <<nextId, commands, deps>>

(* Run r succeeds: each child job not yet dispatched for it is triggered   *)
(* under its own block policy, then r's own fixed_delay job is re-armed.   *)
(* live: the executor nodes each child meets; own: the child each new row  *)
(* belongs to; head: its first row.                                        *)
notDispatched(r) ==
    {i \in DOMAIN Children[runs[r].job] :
       <<r, Children[runs[r].job][i]>> \notin deps}

enqueueDependentRuns(r, live, own, head) ==
    LET child(i) == Children[runs[r].job][i]
        todo == notDispatched(r)
        s(i) == Outcome(child(i), live[i])
        rowsOf(i) == {x \in DOMAIN own : own[x] = i}
        n(i) == Width(child(i), s(i), live[i])
        covered == UNION {applyBlockAction(child(i)) : i \in todo}
    IN  /\ \A i \in todo : /\ live[i] \in LiveNodes(child(i))
                           /\ Cardinality(rowsOf(i)) = n(i)
                           /\ own[head[i]] = i
                           /\ \A x \in rowsOf(i) : head[i] <= x
        /\ \A x, y \in DOMAIN own : x <= y => own[x] <= own[y]
        /\ Write([x \in {r} \cup DOMAIN own \cup covered |->
                    IF x = r THEN Finished(r, "succeeded")
                    ELSE IF x \in DOMAIN own
                    THEN Inserted(x, child(own[x]), s(own[x]), n(own[x]),
                                  head[own[x]], r, FALSE)
                    ELSE Finished(x, "cancelled")])
        /\ Emit({<<r, "succeeded">>} \cup Cancelled(covered)
                  \cup {<<x, s(own[x])>> : x \in DOMAIN own})
        /\ commands' = commands \cup enqueueExecutorCancellationTx(covered)
        /\ deps' = deps \cup {<<r, child(i)>> : i \in todo}
        /\ armed' = Rearmed({r} \cup covered)

EndSucceeded(r) ==
    \E k \in 0 .. MaxShards * Len(Children[runs[r].job]) :
      /\ HasRoom(k)
      /\ \E live \in [notDispatched(r) -> 1 .. MaxShards] :
         \E own \in [NewIds(k) -> notDispatched(r)] :
         \E head \in [notDispatched(r) -> NewIds(k)] :
            enqueueDependentRuns(r, live, own, head)
      /\ nextId' = nextId + k

(* Mutant: a callback is taken in whatever status the run is. *)
callbackIgnoresStatus(r, n) == <<r, n>> \in sent

acceptsCallback(r, n) ==
    runs[r].status = "waiting_callback" /\ runs[r].token = n /\ ~ runs[r].due

(* CompleteCallback, called by an executor that was sent the dispatch, at  *)
(* any time and any number of times.  What it does not accept changes      *)
(* nothing (ErrNotFound).                                                  *)
CompleteCallback(r, n, succeeded) ==
    /\ <<r, n>> \in sent
    /\ acceptsCallback(r, n)
    /\ IF succeeded THEN EndSucceeded(r) ELSE EndFailed(r, "failed")
    /\ UNCHANGED <<idem, enabled, work, sent, edits>>

ExpireCallbacks(r) ==
    /\ runs[r].status = "waiting_callback" /\ runs[r].due
    /\ EndFailed(r, "timed_out")
    /\ UNCHANGED <<idem, enabled, work, sent, edits>>

cancellable(r) == IsActive(r)

(* CancelRun ends an active run.  Asked again it only makes sure that the  *)
(* executor command exists.                                                *)
CancelRun(r) ==
    /\ \/ /\ cancellable(r)
          /\ Write([x \in {r} |-> Finished(r, "cancelled")])
          /\ Emit(Cancelled({r}))
          /\ armed' = Rearmed({r})
       \/ /\ runs[r].status = "cancelled"
          /\ UNCHANGED <<runs, events, armed>>
    /\ commands' = commands \cup enqueueExecutorCancellationTx({r})
    /\ UNCHANGED <<nextId, deps, idem, enabled, work, sent, edits>>

-----------------------------------------------------------------------------
(* Workers: Engine.execute for one claimed run.  A worker routes the run   *)
(* to an executor node, marks it waiting for the callback, sends the       *)
(* dispatch and is done when the executor has accepted it.                 *)

(* Mutant: the lease is not compared. *)
holdsUnchecked(w) == runs[w.run].status # "absent"

holdsLease(w) == runs[w.run].status = "running" /\ runs[w.run].token = w.lease

Leave(w) == work' = work \ {w}
Advance(w, pc) == work' = (work \ {w}) \cup {[w EXCEPT !.pc = pc]}

(* Any failure up to and including PrepareClaimedExecutorDispatch (no      *)
(* executor group, no node, the run's timeout, a database error): FailRun, *)
(* which does nothing for a worker whose lease was taken over.             *)
FailRun(w, s) ==
    /\ w.pc = "routing"
    /\ \/ holdsLease(w) /\ EndFailed(w.run, s)
       \/ ~ holdsLease(w) /\ UNCHANGED db
    /\ Leave(w)
    /\ UNCHANGED <<idem, enabled, sent, edits>>

Prepared(r, n) ==
    [runs[r] EXCEPT !.status = "waiting_callback", !.due = FALSE, !.addr = TRUE,
                    !.token = n]

PrepareClaimedExecutorDispatch(w) ==
    /\ w.pc = "routing" /\ holdsLease(w)
    /\ Write([r \in {w.run} |-> Prepared(r, w.lease)])
    /\ Emit({<<w.run, "waiting_callback">>})
    /\ Advance(w, "dispatching")
    /\ UNCHANGED <<nextId, commands, deps, armed, idem, enabled, sent, edits>>

(* The dispatch RPC: the request leaves the Core, then the acknowledgement *)
(* arrives or the call fails, before or after the executor received it.    *)
SendDispatch(w) ==
    /\ w.pc = "dispatching"
    /\ sent' = sent \cup {<<w.run, w.lease>>}
    /\ Advance(w, "sent")
    /\ UNCHANGED <<db, idem, enabled, edits>>

DispatchAccepted(w) ==
    /\ w.pc = "sent"
    /\ Leave(w)
    /\ UNCHANGED <<db, idem, enabled, sent, edits>>

DispatchFailed(w) ==
    /\ w.pc \in {"dispatching", "sent"}
    /\ \/ acceptsCallback(w.run, w.lease) /\ EndFailed(w.run, "failed")
       \/ ~ acceptsCallback(w.run, w.lease) /\ UNCHANGED db
    /\ Leave(w)
    /\ UNCHANGED <<idem, enabled, sent, edits>>

(* A Core that dies, or cannot reach the database, leaves its runs as they *)
(* are.                                                                    *)
WorkerLost(w) ==
    /\ w.pc = "routing" => w.lease < MaxToken
    /\ Leave(w)
    /\ UNCHANGED <<db, idem, enabled, sent, edits>>

(* The time column of an active run passes.  A lease outlasts the run's    *)
(* timeout by at least 30 seconds, so unless a process stalls a worker is  *)
(* gone when its lease runs out.                                           *)
TimePasses(r) ==
    /\ IsActive(r) /\ ~ runs[r].due
    /\ runs[r].status = "running" =>
         /\ runs[r].token < MaxToken
         /\ Stalls \/ \A w \in work : w.run # r
    /\ Write([x \in {r} |-> [runs[r] EXCEPT !.due = TRUE]])
    /\ UNCHANGED <<nextId, events, commands, deps, armed, idem, enabled, work,
                   sent, edits>>

-----------------------------------------------------------------------------
(* Job edits.  Both compute next_run_at afresh from the schedule; a once   *)
(* instant may lie in the past.                                            *)

NextArmed(j, on) == IF on THEN IF j \in Once THEN BOOLEAN ELSE {TRUE}
                          ELSE {FALSE}

SetJobEnabled(j, on) ==
    /\ edits < MaxEdits /\ edits' = edits + 1
    /\ enabled[j] # on
    /\ enabled' = [enabled EXCEPT ![j] = on]
    /\ \E a \in NextArmed(j, on) : armed' = [armed EXCEPT ![j] = a]
    /\ UNCHANGED <<runs, nextId, events, commands, deps, idem, work, sent>>

UpdateJob(j, on) ==
    /\ edits < MaxEdits /\ edits' = edits + 1
    /\ enabled' = [enabled EXCEPT ![j] = on]
    /\ \E a \in NextArmed(j, on) : armed' = [armed EXCEPT ![j] = a]
    /\ UNCHANGED <<runs, nextId, events, commands, deps, idem, work, sent>>

-----------------------------------------------------------------------------
WorkerStep(w) == \/ \E s \in {"failed", "timed_out"} : FailRun(w, s)
                 \/ PrepareClaimedExecutorDispatch(w)
                 \/ SendDispatch(w)
                 \/ DispatchAccepted(w)
                 \/ DispatchFailed(w)

RunStep(r) == ExpireCallbacks(r) \/ CancelRun(r) \/ TimePasses(r)

JobStep(j) == \/ EnqueueDue(j)
              \/ SkipMisfire(j)
              \/ \E ks \in {{}} \cup {{k} : k \in Key} : TriggerJob(j, ks)
              \/ \E on \in BOOLEAN : SetJobEnabled(j, on) \/ UpdateJob(j, on)

Next == \/ \E j \in Job : JobStep(j)
        \/ \E S \in SUBSET {r \in RunId : Claimable(r)} : ClaimRuns(S)
        \/ \E d \in sent, ok \in BOOLEAN : CompleteCallback(d[1], d[2], ok)
        \/ \E r \in RunId : RunStep(r)
        \/ \E w \in work : WorkerStep(w) \/ WorkerLost(w)

Spec == Init /\ [][Next]_vars

(* Scheduling justifies this fairness: the engine's loop ticks for ever    *)
(* (claims, callback expiry), a started worker runs on until its timeout   *)
(* or its Core dies, and time passes.  Claims need strong fairness because *)
(* capacity comes and goes.                                                *)
Fairness ==
    /\ \A r \in RunId : /\ WF_vars(TimePasses(r))
                        /\ WF_vars(ExpireCallbacks(r))
                        /\ SF_vars(ClaimRuns({r}))
    /\ WF_vars(\E w \in work : WorkerStep(w))

FairSpec == Spec /\ Fairness

-----------------------------------------------------------------------------
(* The tables hold rows of their types, ids are handed out in order, and   *)
(* every worker and every dispatch refers to a run that exists.            *)
TypeOK ==
    /\ runs \in [RunId -> Row]
    /\ nextId \in 1 .. MaxRuns + 1
    /\ \A r \in RunId : /\ runs[r].status = "absent" <=> r >= nextId
                        /\ runs[r].status = "absent" <=> runs[r].job = NoJob
    /\ events \in [RunId -> [Kind -> Nat]]
    /\ commands \subseteq RunId
    /\ idem \in [Job -> [Key -> RunId \cup {NoRun}]]
    /\ deps \subseteq RunId \X Job
    /\ armed \in [Job -> BOOLEAN]
    /\ enabled \in [Job -> BOOLEAN]
    /\ work \subseteq [run : RunId, lease : Nat,
                       pc : {"routing", "dispatching", "sent"}]
    /\ sent \subseteq RunId \X Nat
    /\ edits \in 0 .. MaxEdits

Failed(r) == runs[r].status \in {"failed", "timed_out"}
RetriesOf(r) == {s \in RunId : runs[s].retryOf = r}

(* The outbox tells each run's story exactly once: no event is emitted     *)
(* twice however often a run is reclaimed, cancelled or called back, the   *)
(* present status has been announced, and no terminal status other than    *)
(* the run's own ever is (emitRunLifecycleEventTx in every transition).    *)
OutboxTellsStatus ==
    \A r \in RunId :
      /\ \A k \in Kind : events[r][k] <= 1
      /\ runs[r].status # "absent" => events[r][runs[r].status] = 1
      /\ \A k \in TerminalStates \ {runs[r].status} : events[r][k] = 0

(* No failed attempt is forgotten and none is continued twice: a failed or *)
(* timed_out run has either exactly one retry or exactly one exhausted     *)
(* alert, other runs have neither, and a retry carries its predecessor's   *)
(* identity one attempt further, within the budget (FailRun,               *)
(* CompleteCallback, ExpireCallbacks racing for the same run).             *)
FailureAccounted ==
    /\ \A r \in RunId :
         Cardinality(RetriesOf(r)) + events[r]["exhausted"]
           = IF Failed(r) THEN 1 ELSE 0
    /\ \A r \in RunId : runs[r].status # "absent" =>
         runs[r].attempt <= MaxRetries[runs[r].job] + 1
    /\ \A s \in RunId : runs[s].retryOf # NoRun =>
         LET p == runs[runs[s].retryOf]
         IN  /\ runs[s].attempt = p.attempt + 1
             /\ \A f \in {"job", "root", "parent", "group", "total", "resched"} :
                  runs[s][f] = p[f]

(* At any time at most one attempt of a retry chain is alive, whatever     *)
(* crashes, late callbacks and expired leases happened before.             *)
OneLiveAttempt ==
    \A r, s \in RunId :
      IsActive(r) /\ IsActive(s) /\ runs[r].root = runs[s].root => r = s

(* A run is dispatched to an executor at most once, although several       *)
(* workers may have claimed it: the conditional UPDATE of                  *)
(* PrepareClaimedExecutorDispatch lets one of them through to              *)
(* executorGRPC.dispatch.                                                  *)
DispatchedOnce == \A d, e \in sent : d[1] = e[1] => d = e

(* A terminal run never changes again.                                     *)
TerminalIsFinal ==
    [][\A r \in RunId : runs[r].status \in TerminalStates =>
         runs'[r] = runs[r]]_vars

(* Waiting for a callback, or running under a live lease.                  *)
HoldsCapacity(r) == runs[r].status = "waiting_callback"
                      \/ (runs[r].status = "running" /\ ~ runs[r].due)

(* The runs that hold capacity stay within the job's and the tenant's      *)
(* limits (claimRunsSQL by several Cores).  Stalled workers void it: it is *)
(* checked with Stalls FALSE.                                              *)
CapacityRespected ==
    /\ \A j \in Job :
         LET A == {r \in RunId : runs[r].job = j /\ HoldsCapacity(r)}
         IN  \/ Cardinality(A) <= MaxConcurrentRuns[j]
             \/ \E r \in A : Cardinality(A) <= runs[r].total
    /\ Cardinality({r \in RunId : HoldsCapacity(r)}) <= TenantMax

(* Every run the executors may know of and that was cancelled has its      *)
(* cancel command (CancelRun, applyBlockAction).                           *)
CancellationQueued ==
    \A r \in RunId : runs[r].status = "cancelled" /\ runs[r].addr
                       => r \in commands

(* Under discard_later and cover_early the active runs of a job all stem   *)
(* from one trigger: they are one run, or shards of one broadcast.         *)
OneTriggerActive ==
    \A j \in Job : OverlapPolicy[j] \in {"discard_later", "cover_early"} =>
      \A r, s \in ActiveRuns(j) :
        r = s \/ (runs[r].group # NoRun /\ runs[r].group = runs[s].group)

(* The runs that triggers, not retries, put in the queue of a serial or    *)
(* discard_later job never exceed max_queue_size.                          *)
QueueBounded ==
    \A j \in Job : OverlapPolicy[j] \in {"serial", "discard_later"} =>
      Cardinality({r \in PendingRuns(j) : runs[r].retryOf = NoRun})
        <= MaxQueueSize[j]

(* A successful run triggers each child job once, an unsuccessful one      *)
(* never: the rows a parent run has in a child job are one run or the      *)
(* shards of one broadcast, retries apart (enqueueDependentRuns).          *)
DependentsOnce ==
    \A r \in RunId : \A j \in Job :
      LET D == {s \in RunId : /\ runs[s].job = j /\ runs[s].parent = r
                              /\ runs[s].retryOf = NoRun}
      IN  /\ D # {} <=> /\ runs[r].status = "succeeded"
                        /\ \E i \in DOMAIN Children[runs[r].job] :
                             Children[runs[r].job][i] = j
          /\ \A s, t \in D :
               s = t \/ (runs[s].group # NoRun /\ runs[s].group = runs[t].group)

KeysKept ==
    \A j \in Job, k \in Key : idem[j][k] # NoRun =>
      /\ idem'[j][k] = idem[j][k]
      /\ runs[idem[j][k]].job = j
      /\ \A l \in Key : idem[j][l] = idem[j][k] => l = k


(* A fixed_delay job waits for the whole logical execution: while a run of *)
(* its schedule is unfinished, retries and shards included, no next        *)
(* instant is set (rearmFixedDelay).                                       *)
FixedDelayWaits ==
    \A j \in FixedDelay : armed[j] =>
      \A r \in ActiveRuns(j) : ~ runs[r].resched

(* ... and it is never forgotten: an enabled fixed_delay job without a     *)
(* next instant has an unfinished run that will set it.                    *)
FixedDelayNotLost ==
    \A j \in FixedDelay : enabled[j] /\ ~ armed[j] =>
      \E r \in ActiveRuns(j) : runs[r].resched

(* All attempts of a retry chain run under one external execution id, the  *)
(* first run's, so that a retry finds the Kubernetes Job of the attempt    *)
(* before it (README.md:187).                                              *)
ChainKeepsExecutionId ==
    \A r \in RunId : runs[r].status # "absent" => runs[r].ext = runs[r].root

(* Every run settles: no crash, lost dispatch or missing callback leaves   *)
(* one pending, running or waiting for ever.                               *)
EveryRunSettles == \A r \in RunId : IsActive(r) ~> ~ IsActive(r)

-----------------------------------------------------------------------------
(* The logical execution a retry chain makes up: its last attempt decides. *)
Attempts(e) == {r \in RunId : runs[r].root = e}
LastAttempt(e) ==
    CHOOSE r \in Attempts(e) :
      \A s \in Attempts(e) : runs[s].attempt <= runs[r].attempt

OutcomeOf(e) ==
    IF Attempts(e) = {} THEN "none"
    ELSE IF IsActive(LastAttempt(e)) THEN "open"
    ELSE IF Failed(LastAttempt(e)) THEN "exhausted"
    ELSE runs[LastAttempt(e)].status

Logical == INSTANCE LogicalRun WITH
    Execution <- RunId,
    outcome <- [e \in RunId |-> OutcomeOf(e)],
    attempts <- [e \in RunId |-> Cardinality(Attempts(e))],
    owner <- [e \in RunId |-> IF Attempts(e) = {} THEN NoJob
                                                  ELSE runs[e].job]

(* The whole run machinery implements the logical execution: whatever      *)
(* workers, crashes and late callbacks do to its attempts, each execution  *)
(* opens once, uses at most its retry budget and ends once.                *)
ImplementsLogicalRun == Logical!LSpec
=============================================================================
