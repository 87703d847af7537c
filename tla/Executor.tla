------------------------------ MODULE Executor ------------------------------
(***************************************************************************)
(* The executor: GRPCServer (pkg/executor/grpc.go) over the file-backed      *)
(* inbox of accepted executions and outbox of completions                    *)
(* (pkg/executor/completion_store.go), the Docker and Kubernetes handlers and *)
(* cancellers, and the start and stop of cmd/script-executor.  The Core is    *)
(* seen through its calls: Dispatch, Cancel and the answers to Complete.      *)
(*                                                                         *)
(* A step is a section under the server's mutex, one file operation or one    *)
(* call of another system; a crash may fall between any two.  Files and       *)
(* containers survive it, memory does not.  A run is dispatched once (proved  *)
(* in JobRunsProofs); a repeated or refused Dispatch changes nothing here.    *)
(* A container stands for a Docker container or a Kubernetes Job.            *)
(***************************************************************************)
EXTENDS Naturals, FiniteSets

CONSTANTS
  Run,
  KindOf,       \* [Run -> "script" | "http" | "docker" | "kubernetes"]
  Slots,        \* [kind -> concurrent executions]; Kubernetes has no pool
  MaxRecords,   \* EXECUTOR_COMPLETION_MAX_PENDING
  Overtakes,    \* a Cancel may reach the executor before the run's Dispatch
  MaxSent,      \* bound: runs dispatched
  MaxDrains,    \* bound: graceful shutdowns
  MaxCrashes,   \* bound: crashes
  MaxFaults     \* bound: failing file operations

ASSUME KindAssumption == KindOf \in [Run -> {"script", "http", "docker", "kubernetes"}]
ASSUME SlotAssumption == Slots \in [{"script", "http", "docker"} -> Nat]
ASSUME BoundAssumption ==
  /\ MaxRecords \in Nat /\ MaxCrashes \in Nat /\ MaxFaults \in Nat
  /\ MaxSent \in Nat /\ MaxDrains \in Nat /\ Overtakes \in BOOLEAN

VARIABLES
  proc,      \* the process: down, recovering, resuming, serving, draining, cut or failed
  list,      \* inbox entries RecoverExecutions has still to look at
  resume,    \* entries it will dispatch again
  mem,       \* [Run -> state in s.runs, "none" when absent]
  job,       \* [Run -> [at, res]]: the goroutine of execute and finish
  cancel,    \* [Run -> progress of a Cancel call]
  ack,       \* [Run -> progress of deliverPersistedCompletions]
  latched,   \* completionStoreFailed
  inbox,     \* runs with an execution file
  outbox,    \* [Run -> result in the completion file, or "none"]
  container, \* [Run -> "none", "running" or its exit]
  late,      \* runs whose execution deadline has passed
  core,      \* [Run -> what the Core has recorded]
  wire,      \* Dispatch calls on their way
  command,   \* [Run -> row of executor_commands]
  accepted,  \* runs the executor has accepted
  awaits,    \* runs whose HTTP target answered 202 and will call back
  starts,    \* [Run -> containers started]
  crashes, drains, faults

memory == <<mem, job, cancel, ack, latched>>
files == <<inbox, outbox>>
outside == <<container, late>>
corevars == <<core, wire, command>>
ghosts == <<accepted, awaits, starts>>
vars == <<proc, list, resume, memory, files, outside, corevars, ghosts, crashes, drains, faults>>

Idle == [at |-> "none", res |-> "none"]

External(r) == KindOf[r] \in {"docker", "kubernetes"}

TypeOK ==
  /\ proc \in {"down", "recovering", "resuming", "serving", "draining", "cut", "failed"}
  /\ list \subseteq inbox /\ resume \subseteq {r \in Run : External(r)}
  /\ mem \in [Run -> {"none", "running", "succeeded", "failed", "cancelled", "waiting_callback"}]
  /\ job \in [Run -> [at : {"none", "running", "ended", "saving", "saved", "settle", "unsaved", "reporting", "awaiting"},
                      res : {"none", "ok", "error", "await"}]]
  /\ cancel \in [Run -> {"none", "marked", "missed", "removed"}]
  /\ ack \in [Run -> {"none", "acked", "half"}]
  /\ latched \in BOOLEAN
  /\ inbox \subseteq Run
  /\ outbox \in [Run -> {"none", "ok", "error"}]
  /\ Cardinality({r \in Run : outbox[r] # "none"}) <= MaxRecords
  /\ container \in [Run -> {"none", "running", "ok", "error"}] /\ late \subseteq Run
  /\ core \in [Run -> {"idle", "waiting", "ok", "error", "gave_up", "cancelled", "called_back"}]
  /\ wire \subseteq Run /\ command \in [Run -> {"none", "pending", "delivered"}]
  /\ accepted \subseteq Run /\ awaits \subseteq accepted /\ starts \in [Run -> Nat]
  /\ crashes \in 0 .. MaxCrashes /\ drains \in 0 .. MaxDrains /\ faults \in 0 .. MaxFaults

Init ==
  /\ proc = "serving" /\ list = {} /\ resume = {}
  /\ mem = [r \in Run |-> "none"] /\ job = [r \in Run |-> Idle]
  /\ cancel = [r \in Run |-> "none"] /\ ack = [r \in Run |-> "none"] /\ latched = FALSE
  /\ inbox = {} /\ outbox = [r \in Run |-> "none"]
  /\ container = [r \in Run |-> "none"] /\ late = {}
  /\ core = [r \in Run |-> "idle"] /\ wire = {} /\ command = [r \in Run |-> "none"]
  /\ accepted = {} /\ awaits = {} /\ starts = [r \in Run |-> 0]
  /\ crashes = 0 /\ drains = 0 /\ faults = 0

Alive == proc \in {"resuming", "serving", "draining", "cut"}
Listening == proc \in {"serving", "draining"}

(* One failing file operation.                                               *)
Fault == faults < MaxFaults /\ faults' = faults + 1

-----------------------------------------------------------------------------
(* The Core.  PrepareClaimedExecutorDispatch makes the run waiting_callback   *)
(* and the Dispatch call leaves.                                             *)
Send(r) ==
  /\ core[r] = "idle" /\ Cardinality({q \in Run : core[q] # "idle"}) < MaxSent
  /\ core' = [core EXCEPT ![r] = "waiting"]
  /\ wire' = wire \cup {r}
  /\ UNCHANGED <<proc, list, resume, memory, files, outside, command, ghosts, crashes, drains, faults>>

(* The Dispatch fails or its answer is lost, or the callback deadline passes:  *)
(* the Core ends the run by itself.  The call may still arrive.              *)
GiveUp(r) ==
  /\ core[r] = "waiting"
  /\ core' = [core EXCEPT ![r] = "gave_up"]
  /\ UNCHANGED <<proc, list, resume, memory, files, outside, wire, command, ghosts, crashes, drains, faults>>

(* CancelRun with its executor command.                                      *)
CancelRun(r) ==
  /\ core[r] = "waiting"
  /\ core' = [core EXCEPT ![r] = "cancelled"]
  /\ command' = [command EXCEPT ![r] = "pending"]
  /\ UNCHANGED <<proc, list, resume, memory, files, outside, wire, ghosts, crashes, drains, faults>>

(* The target of an HTTP run that answered 202 calls back.                   *)
TargetCallsBack(r) ==
  /\ r \in awaits /\ core[r] = "waiting"
  /\ core' = [core EXCEPT ![r] = "called_back"]
  /\ UNCHANGED <<proc, list, resume, memory, files, outside, wire, command, ghosts, crashes, drains, faults>>

(* CompleteCallback: the first completion decides, later ones are NotFound.   *)
Completed(r, res) == core' = [core EXCEPT ![r] = IF @ = "waiting" THEN res ELSE @]

-----------------------------------------------------------------------------
(* Dispatch.                                                                *)
Used(k) == Cardinality({r \in Run : KindOf[r] = k /\ job[r].at = "running"})
slotFree(r) == KindOf[r] # "kubernetes" => Used(KindOf[r]) < Slots[KindOf[r]]

started(r) ==
  /\ mem' = [mem EXCEPT ![r] = "running"]
  /\ job' = [job EXCEPT ![r] = [at |-> "running", res |-> "none"]]

(* The slot, then SaveExecution, then the acknowledgement.  A SaveExecution    *)
(* whose last directory sync fails has written the file; one whose caller has  *)
(* gone (its context is cancelled) fails too.  Either failure latches.        *)
Dispatch(r) ==
  /\ r \in wire /\ proc = "serving"
  /\ ~latched /\ mem[r] = "none" /\ slotFree(r)
  /\ wire' = wire \ {r}
  /\ \/ /\ inbox' = inbox \cup {r} /\ accepted' = accepted \cup {r}
        /\ started(r)
        /\ UNCHANGED <<latched, faults>>
     \/ /\ latched' = TRUE
        /\ \/ Fault /\ inbox' \in {inbox, inbox \cup {r}}
           \/ core[r] # "waiting" /\ UNCHANGED <<inbox, faults>>
        /\ UNCHANGED <<accepted, mem, job>>
  /\ UNCHANGED <<proc, list, resume, cancel, ack, outbox, outside, core, command, awaits, starts, crashes, drains>>

(* Refused (draining, latched, no slot) or lost on the way.                  *)
DispatchLost(r) ==
  /\ r \in wire
  /\ wire' = wire \ {r}
  /\ UNCHANGED <<proc, list, resume, memory, files, outside, core, command, ghosts, crashes, drains, faults>>

-----------------------------------------------------------------------------
(* The handler.  Its context ends with a Cancel, at the deadline and when a    *)
(* Drain times out.                                                          *)
contextDone(r) == mem[r] # "running" \/ r \in late \/ proc = "cut"

needsContainer(r) == container[r] = "none"

(* docker run, or the creation of the Job, unless the name exists: then the    *)
(* handler waits for that one.  A creation that takes effect after the context  *)
(* of its caller has ended is left out.                                      *)
StartContainer(r) ==
  /\ Alive /\ External(r)
  /\ job[r].at = "running" /\ ~contextDone(r)
  /\ needsContainer(r)
  /\ container' = [container EXCEPT ![r] = "running"]
  /\ starts' = [starts EXCEPT ![r] = @ + 1]
  /\ UNCHANGED <<proc, list, resume, memory, files, late, corevars, accepted, awaits, crashes, drains, faults>>

ContainerExits(r) ==
  /\ container[r] = "running"
  /\ \E res \in {"ok", "error"} : container' = [container EXCEPT ![r] = res]
  /\ UNCHANGED <<proc, list, resume, memory, files, late, corevars, ghosts, crashes, drains, faults>>

DeadlinePasses(r) ==
  /\ r \in accepted \ late
  /\ late' = late \cup {r}
  /\ UNCHANGED <<proc, list, resume, memory, files, container, corevars, ghosts, crashes, drains, faults>>

Returns(r, res) == job' = [job EXCEPT ![r] = [at |-> "ended", res |-> res]]

(* The slot is released as the handler returns.  Process-local work ends in    *)
(* any way; an HTTP target may answer 202.                                   *)
LocalReturns(r) ==
  /\ Alive /\ ~External(r) /\ job[r].at = "running"
  /\ \E res \in {"ok", "error"} \cup (IF KindOf[r] = "http" THEN {"await"} ELSE {}) :
       /\ Returns(r, res)
       /\ awaits' = IF res = "await" THEN awaits \cup {r} ELSE awaits
  /\ UNCHANGED <<proc, list, resume, mem, cancel, ack, latched, files, outside, corevars, accepted, starts, crashes, drains, faults>>

(* A container that has exited gives the result.  Any error on the way (client, *)
(* image, logs, a failed poll of the Job) is a failure.  Docker's handler then  *)
(* tries to remove the container; the Kubernetes one deletes the Job only when  *)
(* its context has ended and it had begun to poll.                            *)
ExternalReturns(r) ==
  /\ Alive /\ External(r) /\ job[r].at = "running"
  /\ \/ container[r] = "ok" /\ Returns(r, "ok")
     \/ Returns(r, "error")
  /\ \/ UNCHANGED container
     \/ /\ KindOf[r] = "docker" \/ contextDone(r)
        /\ container' = [container EXCEPT ![r] = "none"]
  /\ UNCHANGED <<proc, list, resume, mem, cancel, ack, latched, files, late, corevars, ghosts, crashes, drains, faults>>

-----------------------------------------------------------------------------
(* finish.  ErrAwaitingCallback: the state, then the inbox file.              *)
FinishAwaiting(r) ==
  /\ Alive /\ job[r] = [at |-> "ended", res |-> "await"]
  /\ mem' = [mem EXCEPT ![r] = IF @ = "running" THEN "waiting_callback" ELSE @]
  /\ job' = [job EXCEPT ![r].at = "awaiting"]
  /\ UNCHANGED <<proc, list, resume, cancel, ack, latched, files, outside, corevars, ghosts, crashes, drains, faults>>

ForgetAwaiting(r) ==
  /\ Alive /\ job[r].at = "awaiting"
  /\ inbox' \in {inbox \ {r}} \cup (IF faults < MaxFaults THEN {inbox} ELSE {})
  /\ faults' = IF inbox' = inbox /\ r \in inbox THEN faults + 1 ELSE faults
  /\ job' = [job EXCEPT ![r] = Idle]
  /\ UNCHANGED <<proc, list, resume, mem, cancel, ack, latched, outbox, outside, corevars, ghosts, crashes, drains>>

(* A run that was cancelled meanwhile is not reported.                        *)
FinishCheck(r) ==
  /\ Alive /\ job[r].at = "ended" /\ job[r].res \in {"ok", "error"}
  /\ job' = [job EXCEPT ![r] = IF mem[r] = "running" THEN [@ EXCEPT !.at = "saving"] ELSE Idle]
  /\ UNCHANGED <<proc, list, resume, mem, cancel, ack, latched, files, outside, corevars, ghosts, crashes, drains, faults>>

recordsFull == Cardinality({r \in Run : outbox[r] # "none"}) >= MaxRecords

(* completionStore.Save; a failed directory sync leaves the written record.    *)
SaveCompletion(r) ==
  /\ Alive /\ job[r].at = "saving"
  /\ \/ /\ ~recordsFull /\ outbox[r] = "none"
        /\ outbox' = [outbox EXCEPT ![r] = job[r].res]
        /\ \/ job' = [job EXCEPT ![r].at = "saved"] /\ UNCHANGED faults
           \/ Fault /\ job' = [job EXCEPT ![r].at = "unsaved"]
     \/ /\ job' = [job EXCEPT ![r].at = "unsaved"]
        /\ \/ (recordsFull \/ outbox[r] # "none") /\ UNCHANGED faults
           \/ ~recordsFull /\ outbox[r] = "none" /\ Fault
        /\ UNCHANGED outbox
  /\ UNCHANGED <<proc, list, resume, mem, cancel, ack, latched, inbox, outside, corevars, ghosts, crashes, drains>>

(* Mutant: the inbox file is removed while the record is still being saved.   *)
mayForgetEarly(r) == job[r].at \in {"saving", "saved"}
mayForget(r) == job[r].at = "saved"

(* DeleteExecution once the record is safe; its failure latches.             *)
ForgetExecution(r) ==
  /\ Alive /\ mayForget(r)
  /\ \/ inbox' = inbox \ {r} /\ UNCHANGED <<latched, faults>>
     \/ Fault /\ latched' = TRUE /\ UNCHANGED inbox
  /\ job' = [job EXCEPT ![r].at = IF @ = "saved" THEN "settle" ELSE @]
  /\ UNCHANGED <<proc, list, resume, mem, cancel, ack, outbox, outside, corevars, ghosts, crashes, drains>>

(* The final section under the mutex; without a record the completion is       *)
(* reported from memory.                                                     *)
Settle(r) ==
  /\ Alive /\ job[r].at \in {"settle", "unsaved"}
  /\ latched' = (latched \/ job[r].at = "unsaved")
  /\ mem' = [mem EXCEPT ![r] = IF @ # "running" THEN @ ELSE IF job[r].res = "ok" THEN "succeeded" ELSE "failed"]
  /\ job' = [job EXCEPT ![r] = IF job[r].at = "unsaved" /\ mem[r] = "running"
                               THEN [@ EXCEPT !.at = "reporting"] ELSE Idle]
  /\ UNCHANGED <<proc, list, resume, cancel, ack, files, outside, corevars, ghosts, crashes, drains, faults>>

(* reportCompletion: accepted, or given up after its attempts.                *)
ReportFromMemory(r) ==
  /\ Alive /\ job[r].at = "reporting"
  /\ Completed(r, job[r].res) \/ UNCHANGED core
  /\ job' = [job EXCEPT ![r] = Idle]
  /\ UNCHANGED <<proc, list, resume, mem, cancel, ack, latched, files, outside, wire, command, ghosts, crashes, drains, faults>>

-----------------------------------------------------------------------------
(* deliverPersistedCompletions: one report per record and round; the answer    *)
(* may be lost after the Core has taken it.                                  *)
Report(r) ==
  /\ Listening /\ outbox[r] # "none" /\ ack[r] = "none"
  /\ Completed(r, outbox[r])
  /\ ack' \in {ack, [ack EXCEPT ![r] = "acked"]}
  /\ UNCHANGED <<proc, list, resume, mem, job, cancel, latched, files, outside, wire, command, ghosts, crashes, drains, faults>>

(* FileCompletionStore.Delete: the inbox file first, then the record.         *)
DeleteInbox(r) ==
  /\ Alive /\ ack[r] = "acked"
  /\ inbox' = inbox \ {r}
  /\ ack' = [ack EXCEPT ![r] = "half"]
  /\ UNCHANGED <<proc, list, resume, mem, job, cancel, latched, outbox, outside, corevars, ghosts, crashes, drains, faults>>

mayDeleteRecord(r) == ack[r] = "half"

DeleteRecord(r) ==
  /\ Alive /\ mayDeleteRecord(r)
  /\ outbox' = [outbox EXCEPT ![r] = "none"]
  /\ ack' = [ack EXCEPT ![r] = IF @ = "half" THEN "none" ELSE @]
  /\ UNCHANGED <<proc, list, resume, mem, job, cancel, latched, inbox, outside, corevars, ghosts, crashes, drains, faults>>

-----------------------------------------------------------------------------
(* Cancel, sent by processExecutorCommands until it is accepted.  The section  *)
(* under the mutex.                                                          *)
CancelInMemory(r) ==
  /\ command[r] = "pending" /\ Listening /\ cancel[r] = "none"
  /\ Overtakes \/ r \notin wire
  /\ mem' = [mem EXCEPT ![r] = IF @ = "running" THEN "cancelled" ELSE @]
  /\ cancel' = [cancel EXCEPT ![r] = IF mem[r] \in {"running", "cancelled"} THEN "marked" ELSE "missed"]
  /\ UNCHANGED <<proc, list, resume, job, ack, latched, files, outside, corevars, ghosts, crashes, drains, faults>>

(* The canceller removes the container; when it fails the call does.          *)
CancelContainer(r) ==
  /\ Alive /\ External(r) /\ cancel[r] \in {"marked", "missed"}
  /\ \/ container' = [container EXCEPT ![r] = "none"] /\ cancel' = [cancel EXCEPT ![r] = "removed"]
     \/ cancel' = [cancel EXCEPT ![r] = "none"] /\ UNCHANGED container
  /\ UNCHANGED <<proc, list, resume, mem, job, ack, latched, files, late, corevars, ghosts, crashes, drains, faults>>

(* Mutant: the answer depends on the execution being in memory.               *)
cancelAcceptedInMemory(r) == cancel[r] = "removed" /\ mem[r] = "cancelled"

(* The command of an HTTP job names no script_language: the call is accepted   *)
(* only when it met the execution in memory.                                 *)
cancelAccepted(r) ==
  CASE KindOf[r] = "http" -> cancel[r] = "marked"
    [] KindOf[r] = "script" -> cancel[r] \in {"marked", "missed"}
    [] OTHER -> cancel[r] = "removed"

(* Mutant: the execution file stays.                                         *)
forgottenKept(r) == inbox
forgotten(r) == inbox \ {r}

(* deletePersistedExecution, then the answer, which marks the command          *)
(* delivered unless it is lost.  A failed removal latches.                    *)
CancelForget(r) ==
  /\ Alive /\ cancelAccepted(r)
  /\ \/ /\ inbox' = forgotten(r)
        /\ command' \in {command, [command EXCEPT ![r] = "delivered"]}
        /\ UNCHANGED <<latched, faults>>
     \/ Fault /\ latched' = TRUE /\ UNCHANGED <<inbox, command>>
  /\ cancel' = [cancel EXCEPT ![r] = "none"]
  /\ UNCHANGED <<proc, list, resume, mem, job, ack, outbox, outside, core, wire, ghosts, crashes, drains>>

CancelRejected(r) ==
  /\ Alive /\ KindOf[r] = "http" /\ cancel[r] = "missed"
  /\ cancel' = [cancel EXCEPT ![r] = "none"]
  /\ UNCHANGED <<proc, list, resume, mem, job, ack, latched, files, outside, corevars, ghosts, crashes, drains, faults>>

-----------------------------------------------------------------------------
(* The process ends: memory and the calls in progress are gone.               *)
Dies(p) ==
  /\ proc' = p /\ list' = {} /\ resume' = {}
  /\ mem' = [r \in Run |-> "none"] /\ job' = [r \in Run |-> Idle]
  /\ cancel' = [r \in Run |-> "none"] /\ ack' = [r \in Run |-> "none"] /\ latched' = FALSE
  /\ UNCHANGED <<files, outside, corevars, ghosts>>

Crash ==
  /\ proc \notin {"down", "failed"} /\ crashes < MaxCrashes
  /\ crashes' = crashes + 1
  /\ Dies("down") /\ UNCHANGED <<drains, faults>>

(* SIGTERM: Drain refuses dispatches and waits for the executions; when it     *)
(* times out it cancels them and the process ends without waiting for them.    *)
Drain ==
  /\ proc = "serving" /\ drains < MaxDrains
  /\ proc' = "draining" /\ drains' = drains + 1
  /\ UNCHANGED <<list, resume, memory, files, outside, corevars, ghosts, crashes, faults>>

DrainTimesOut ==
  /\ proc = "draining" /\ \E r \in Run : job[r].at # "none"
  /\ proc' = "cut"
  /\ UNCHANGED <<list, resume, memory, files, outside, corevars, ghosts, crashes, drains, faults>>

Exit ==
  /\ proc = "cut" \/ (proc = "draining" /\ \A r \in Run : job[r].at = "none")
  /\ Dies("down") /\ UNCHANGED <<crashes, drains, faults>>

-----------------------------------------------------------------------------
(* RecoverExecutions, before anything is served: the inbox is read ...        *)
Start ==
  /\ proc \in {"down", "failed"}
  /\ proc' = "recovering" /\ list' = inbox
  /\ UNCHANGED <<resume, memory, files, outside, corevars, ghosts, crashes, drains, faults>>

rest(r) == list \ {r}

(* ... entries with a completion are removed ...                              *)
RecoverCompleted(r) ==
  /\ proc = "recovering" /\ r \in list /\ outbox[r] # "none"
  /\ inbox' = inbox \ {r} /\ list' = rest(r)
  /\ UNCHANGED <<proc, resume, memory, outbox, outside, corevars, ghosts, crashes, drains, faults>>

(* ... process-local work, and external work past its deadline once its        *)
(* container is removed, is recorded as failed (RecoverCompleted then removes  *)
(* the entry); without room for the record the start fails ...               *)
RecoverLost(r) ==
  /\ proc = "recovering" /\ r \in list /\ outbox[r] = "none"
  /\ External(r) => r \in late
  /\ IF recordsFull
     THEN /\ proc' = "failed" /\ list' = {} /\ resume' = {} /\ UNCHANGED outbox
     ELSE /\ outbox' = [outbox EXCEPT ![r] = "error"] /\ UNCHANGED <<proc, list, resume>>
  /\ container' = [container EXCEPT ![r] = "none"]
  /\ UNCHANGED <<memory, inbox, late, corevars, ghosts, crashes, drains, faults>>

(* ... other external work is kept for the second pass.                       *)
RecoverExternal(r) ==
  /\ proc = "recovering" /\ r \in list /\ outbox[r] = "none"
  /\ External(r) /\ r \notin late
  /\ list' = rest(r) /\ resume' = resume \cup {r}
  /\ UNCHANGED <<proc, memory, files, outside, corevars, ghosts, crashes, drains, faults>>

RecoverListed ==
  /\ proc = "recovering" /\ list = {}
  /\ proc' = IF resume = {} THEN "serving" ELSE "resuming"
  /\ UNCHANGED <<list, resume, memory, files, outside, corevars, ghosts, crashes, drains, faults>>

(* dispatch(recovered): an error, such as no free slot, ends the process.      *)
Resume(r) ==
  /\ proc = "resuming" /\ r \in resume
  /\ IF slotFree(r) /\ ~latched
     THEN /\ started(r)
          /\ resume' = resume \ {r}
          /\ proc' = IF resume' = {} THEN "serving" ELSE "resuming"
          /\ UNCHANGED <<list, cancel, ack, latched, files, outside, corevars, ghosts>>
     ELSE Dies("failed")
  /\ UNCHANGED <<crashes, drains, faults>>

ServerStep(r) ==
  \/ StartContainer(r) \/ LocalReturns(r) \/ ExternalReturns(r)
  \/ FinishAwaiting(r) \/ ForgetAwaiting(r) \/ FinishCheck(r) \/ SaveCompletion(r)
  \/ ForgetExecution(r) \/ Settle(r) \/ ReportFromMemory(r)
  \/ Report(r) \/ DeleteInbox(r) \/ DeleteRecord(r)
  \/ CancelInMemory(r) \/ CancelContainer(r) \/ CancelForget(r) \/ CancelRejected(r)

RecoveryStep(r) == RecoverCompleted(r) \/ RecoverLost(r) \/ RecoverExternal(r) \/ Resume(r)

Next ==
  \/ \E r \in Run : \/ Send(r) \/ GiveUp(r) \/ CancelRun(r) \/ TargetCallsBack(r)
                    \/ Dispatch(r) \/ DispatchLost(r)
                    \/ ContainerExits(r) \/ DeadlinePasses(r)
                    \/ ServerStep(r) \/ RecoveryStep(r)
  \/ Crash \/ Drain \/ DrainTimesOut \/ Exit \/ Start \/ RecoverListed

Spec == Init /\ [][Next]_vars

(* The handler of a run ends once its context is done or its container has     *)
(* exited.                                                                   *)
HandlerEnds(r) ==
  \/ LocalReturns(r) /\ contextDone(r)
  \/ ExternalReturns(r) /\ (contextDone(r) \/ container[r] \in {"ok", "error"})

(* Goroutines that can proceed do, time passes, a stopped process is started   *)
(* again, and calls repeated for ever get through: the answer of Complete, and  *)
(* Cancel with the container runtime behind it, which a failure starts anew    *)
(* (strong fairness).                                                        *)
Fairness ==
  /\ WF_vars(Start) /\ WF_vars(RecoverListed)
  /\ \A r \in Run :
       /\ WF_vars(RecoveryStep(r)) /\ WF_vars(DeadlinePasses(r)) /\ WF_vars(HandlerEnds(r))
       /\ WF_vars(FinishAwaiting(r)) /\ WF_vars(ForgetAwaiting(r)) /\ WF_vars(FinishCheck(r))
       /\ WF_vars(SaveCompletion(r)) /\ WF_vars(ForgetExecution(r)) /\ WF_vars(Settle(r))
       /\ WF_vars(DispatchLost(r)) /\ WF_vars(DeleteInbox(r)) /\ WF_vars(DeleteRecord(r))
       /\ WF_vars(Report(r) /\ ack'[r] = "acked")
       /\ WF_vars(CancelInMemory(r)) /\ WF_vars(CancelRejected(r))
       /\ External(r) => SF_vars(CancelContainer(r) /\ cancel'[r] = "removed")
       /\ SF_vars(CancelForget(r) /\ command'[r] = "delivered")
  /\ WF_vars(Exit)

FairSpec == Spec /\ Fairness

-----------------------------------------------------------------------------
(* Accepted work is never forgotten while the Core waits for it: the executor  *)
(* has it on disk (dispatch saves before it answers, finish saves the result    *)
(* before it removes the request, Delete follows an answer) or the target has   *)
(* promised a callback.  Holds across crashes and failing file operations.     *)
AcceptedWorkIsKept ==
  \A r \in accepted : core[r] = "waiting" => r \in inbox \/ outbox[r] # "none" \/ r \in awaits

NotResurrected ==
  \A r \in Run : job[r].at # "running" /\ job'[r].at = "running" => core[r] \notin {"ok", "error"}

(* A run whose completion the Core has accepted is not executed again: Delete   *)
(* and RecoverExecutions agree on the order of the two files.                  *)
NoResurrection == [][NotResurrected]_vars

(* Once the Cancel command of a run has been acknowledged nothing of the run    *)
(* remains: no execution file that a restart would resume, no container, no     *)
(* handler that is still to notice.                                          *)
CancelHolds ==
  \A r \in Run : command[r] = "delivered" =>
    /\ r \notin inbox /\ container[r] = "none"
    /\ job[r].at = "running" => contextDone(r)

(* However often the executor restarts, the container of a run that was not     *)
(* cancelled is started once: the handlers reattach to the name they find.     *)
StartedOnce == \A r \in Run : core[r] # "cancelled" => starts[r] <= 1

(* RecoverExecutions never refuses to start the executor.                     *)
RecoverySucceeds == proc # "failed"

(* Accepted work settles while file operations succeed: the Core hears of its    *)
(* end, unless it no longer waits or the target has taken over.               *)
AcceptedSettles ==
  \A r \in Run :
    (r \in accepted /\ core[r] = "waiting") ~> (core[r] # "waiting" \/ r \in awaits \/ faults > 0)

Delivered(r) == (command[r] = "pending") ~> (command[r] = "delivered")

(* The Cancel command of a script, Docker or Kubernetes run is delivered in the  *)
(* end, whatever has become of the run.                                      *)
CommandsDelivered == \A r \in Run : KindOf[r] # "http" => Delivered(r)

(* The Cancel command of an HTTP run is delivered too.                        *)
HTTPCommandsDelivered == \A r \in Run : KindOf[r] = "http" => Delivered(r)
=============================================================================
