------------------------- MODULE MCExecutorScenarios -------------------------
(***************************************************************************)
(* Instances of Executor and its parts side by side; a behaviour stays in one:*)
(*                                                                         *)
(*   job     a Kubernetes run, two crashes and a failing file operation      *)
(*   docker  a Docker run, two crashes and a graceful shutdown               *)
(*   pair    an HTTP and a script run that share one place for completions,   *)
(*           one crash                                                       *)
(*   files     StateFiles: two runs, one completion, two executions           *)
(*   workload  Workload: every kind of task beside what is there already       *)
(***************************************************************************)
EXTENDS Naturals, FiniteSets

CONSTANTS r1, r2

VARIABLES
  scenario, proc, list, resume, mem, job, cancel, ack, latched, inbox, outbox, container, late,
  core, wire, command, accepted, awaits, starts, crashes, drains, faults,
  onDisk, unsynced, temporary, fileOp, counted, storeUp, promised, reported,   \* StateFiles
  task, object, handlerPc, taskCtx, exitCode, result, cancelPc, swept, request,
  squatter, ended                                                              \* Workload

oneSlot == [k \in {"script", "http", "docker"} |-> 1]

Job == INSTANCE Executor WITH
  Run <- {r1}, KindOf <- [r \in {r1} |-> "kubernetes"], Slots <- oneSlot, MaxRecords <- 1,
  Overtakes <- FALSE, MaxSent <- 1, MaxDrains <- 0, MaxCrashes <- 2, MaxFaults <- 1

Docker == INSTANCE Executor WITH
  Run <- {r1}, KindOf <- [r \in {r1} |-> "docker"], Slots <- oneSlot, MaxRecords <- 1,
  Overtakes <- FALSE, MaxSent <- 1, MaxDrains <- 1, MaxCrashes <- 2, MaxFaults <- 0

Pair == INSTANCE Executor WITH
  Run <- {r1, r2}, KindOf <- [r \in {r1, r2} |-> IF r = r1 THEN "http" ELSE "script"],
  Slots <- oneSlot, MaxRecords <- 1,
  Overtakes <- FALSE, MaxSent <- 2, MaxDrains <- 0, MaxCrashes <- 1, MaxFaults <- 0

Files == INSTANCE StateFiles WITH FileRun <- {r1, r2}, MaxRecords <- 1, MaxExecutions <- 2

Definitions ==
  {[image |-> "i", pull |-> "", memory |-> 0, auth |-> "kubeconfig", token |-> ""],
   [image |-> "i", pull |-> "never", memory |-> 0, auth |-> "service_account", token |-> "t"],
   [image |-> "i", pull |-> "x", memory |-> 0, auth |-> "service_account", token |-> ""],
   [image |-> "", pull |-> "", memory |-> 0, auth |-> "kubeconfig", token |-> ""]}

Work == INSTANCE Workload WITH Definition <- Definitions

executorVars == <<proc, list, resume, mem, job, cancel, ack, latched, inbox, outbox, container, late,
                  core, wire, command, accepted, awaits, starts, crashes, drains, faults>>
fileVars == <<onDisk, unsynced, temporary, fileOp, counted, storeUp, promised, reported>>
workVars == <<task, object, handlerPc, taskCtx, exitCode, result, cancelPc, swept, request,
              squatter, ended>>
vars == <<scenario, executorVars, fileVars, workVars>>

FilesAtRest == Files!StateFilesInit /\ \A f \in DOMAIN onDisk : onDisk[f] = "none"
WorkAtRest ==
  /\ Work!WorkloadInit /\ task.kind = "script" /\ task.execution = "" /\ task.definition.pull = "x"

Init ==
  \/ scenario = "job" /\ Job!Init /\ FilesAtRest /\ WorkAtRest
  \/ scenario = "docker" /\ Docker!Init /\ FilesAtRest /\ WorkAtRest
  \/ scenario = "pair" /\ Pair!Init /\ FilesAtRest /\ WorkAtRest
  \/ scenario = "files" /\ Job!Init /\ Files!StateFilesInit /\ WorkAtRest
  \/ scenario = "workload" /\ Job!Init /\ FilesAtRest /\ Work!WorkloadInit

ExecutorNext ==
  \/ scenario = "job" /\ Job!Next
  \/ scenario = "docker" /\ Docker!Next
  \/ scenario = "pair" /\ Pair!Next

Next ==
  /\ scenario' = scenario
  /\ \/ ExecutorNext /\ UNCHANGED <<fileVars, workVars>>
     \/ scenario = "files" /\ Files!StateFilesNext /\ UNCHANGED <<executorVars, workVars>>
     \/ scenario = "workload" /\ Work!WorkloadNext /\ UNCHANGED <<executorVars, fileVars>>

Spec == Init /\ [][Next]_vars

-----------------------------------------------------------------------------
(* Work the executor has accepted and the Core waits for is on disk or has     *)
(* been handed to the target (Dispatch, finish, Delete, RecoverExecutions).    *)
AcceptedWorkIsKept ==
  /\ scenario = "job" => Job!AcceptedWorkIsKept
  /\ scenario = "docker" => Docker!AcceptedWorkIsKept
  /\ scenario = "pair" => Pair!AcceptedWorkIsKept

(* An acknowledged Cancel leaves no file, no container and no handler that      *)
(* has not been told (Cancel, deletePersistedExecution).                      *)
CancelHolds ==
  /\ scenario = "job" => Job!CancelHolds
  /\ scenario = "docker" => Docker!CancelHolds
  /\ scenario = "pair" => Pair!CancelHolds


(* Whatever stops the executor between two file operations, the state           *)
(* directory opens again, keeps what was acknowledged and revives no execution   *)
(* whose completion the Core accepted (FileCompletionStore).                   *)
RecoverySafe == scenario = "files" => Files!RecoverySafe

(* A handler takes only the container or Job of its own execution for its own,   *)
(* reports success only of that one, and leaves none behind but for the named     *)
(* exceptions (DockerHandler, KubernetesHandler, ScriptHandler and cancellers).  *)
WorkloadIsItsOwn == scenario = "workload" => Work!OnlyItsOwn /\ Work!LeavesNothing
=============================================================================
