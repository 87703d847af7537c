------------------------------- MODULE Workload -------------------------------
(* One execution of a script, a Docker image or a Kubernetes Job: what the   *)
(* handler does with the object of its name in the runtime, beside the        *)
(* canceller of the same execution and through a crash and restart of the     *)
(* executor.  Docker and Kubernetes are external; `docker run` creates and     *)
(* starts in one step.  An object of the name that is not ours exists from    *)
(* the beginning or not at all: the name carries the scheduler's prefix.      *)
EXTENDS Naturals

CONSTANTS Definition   \* task definitions to try

VARIABLES task,      \* [kind, run, execution, job, definition]
          object,    \* what the runtime has under the name
          handlerPc, \* where the handler is
          taskCtx,   \* the handler's context has ended
          exitCode,  \* what the handler saw of the workload
          result,    \* "none", "ok", "error"
          cancelPc,  \* the canceller: "idle", "inspected", "done", "failed"
          swept,     \* the handler's removal reached the runtime
          request,   \* a Create that nobody waits for: "none", "flying", "late"
          squatter,  \* the object under the name is not ours
          ended      \* how the workloads of this execution ended by themselves

workloadVars == <<task, object, handlerPc, taskCtx, exitCode, result, cancelPc, swept,
                  request, squatter, ended>>
historyVars == <<request, squatter, ended>>

NoLabels == [managed |-> FALSE, execution |-> "", run |-> "", job |-> ""]
Absent == [state |-> "absent", labels |-> NoLabels]
External == task.kind \in {"docker", "kubernetes"}

\* The identity of an execution, the run's for tasks of an older Core.
executionID == IF task.execution = "" THEN task.run ELSE task.execution

\* parseDockerDefinition.
parseDockerDefinition(d) ==
  /\ d.image # "" /\ d.image # "with space"
  /\ d.pull \in {"", "always", "if_not_present", "never"}
  /\ d.memory \in 0 .. 1048576

\* kubernetesRESTConfig, and the image check of the handler.
kubernetesRESTConfig(d) ==
  /\ d.image # ""
  /\ \/ d.auth = "kubeconfig"
     \/ d.auth = "service_account" /\ d.token # ""

\* The labels dockerRunArguments and the handler give a new container or Job.
dockerRunArguments ==
  [managed |-> TRUE, execution |-> executionID, run |-> task.run, job |-> task.job]

\* Mutant: any container of the scheduler is taken for this execution's.
validateAnyManaged(labels) == labels.managed

\* validateManagedDockerInspection: containers of older versions carry no
\* execution label.
validateManagedDockerInspection(labels) ==
  /\ labels.managed
  /\ labels.execution = executionID \/ (labels.execution = "" /\ labels.run = executionID)
  /\ labels.job = task.job

\* validateManagedKubernetesJob.
validateManagedKubernetesJob(labels) ==
  /\ labels.managed /\ labels.execution = executionID
  /\ labels.job \in {"", task.job}

validateManaged(labels) ==
  IF task.kind = "docker" THEN validateManagedDockerInspection(labels)
  ELSE validateManagedKubernetesJob(labels)

WorkloadInit ==
  /\ \E kind \in {"script", "docker", "kubernetes"}, d \in Definition, x \in {"", "e1"} :
       task = [kind |-> kind, run |-> "r1", execution |-> x, job |-> "j1", definition |-> d]
  /\ object \in {Absent,
                 [state |-> "running", labels |-> NoLabels],
                 [state |-> "running", labels |-> [NoLabels EXCEPT !.managed = TRUE, !.run = "r2", !.execution = "e2", !.job = "j2"]],
                 [state |-> "running", labels |-> [NoLabels EXCEPT !.managed = TRUE, !.run = "r1", !.job = "j1"]]}
  /\ External \/ object = Absent
  /\ object.labels.run = task.run => task.kind = "docker" /\ task.execution = ""
  /\ handlerPc = "begin" /\ taskCtx = FALSE /\ exitCode = "none" /\ result = "none"
  /\ cancelPc = "idle" /\ swept = TRUE
  /\ request = "none" /\ ended = {}
  /\ squatter = (object.state # "absent" /\ object.labels.run # task.run)

Ours == object.state # "absent" /\ validateManaged(object.labels)
Return(r) == handlerPc' = "returned" /\ result' = r
-----------------------------------------------------------------------------
\* DockerHandler, KubernetesHandler: the definition, then what is there already.
inspectManaged ==
  /\ handlerPc = "begin" /\ External
  /\ LET valid == IF task.kind = "docker" THEN parseDockerDefinition(task.definition)
                  ELSE kubernetesRESTConfig(task.definition)
     IN \/ valid /\ object.state = "absent" /\ handlerPc' = "pull" /\ UNCHANGED result
        \/ valid /\ Ours /\ handlerPc' = "resume" /\ UNCHANGED result
        \/ (~valid \/ (object.state # "absent" /\ ~Ours)) /\ Return("error")
        \/ Return("error")
  /\ UNCHANGED <<task, object, taskCtx, exitCode, cancelPc, swept, historyVars>>

\* The image is pulled if the policy says so; then the container runs, or the
\* Job is created.  A Job that appeared meanwhile is inspected again.  A Create
\* cut off by the end of the context may still reach the API server.
Create ==
  /\ handlerPc = "pull"
  /\ \/ /\ Return("error") /\ UNCHANGED <<object, exitCode>>
        /\ request' \in (IF task.kind = "kubernetes" /\ taskCtx THEN {request, "flying"} ELSE {request})
     \/ /\ task.kind = "docker" /\ handlerPc' = "sweep" /\ exitCode' = "unknown"
        /\ object' \in {object, [state |-> "failed", labels |-> dockerRunArguments]}
        /\ UNCHANGED <<result, request>>
     \/ /\ ~taskCtx /\ object.state = "absent"
        /\ object' = [state |-> "running", labels |-> dockerRunArguments]
        /\ handlerPc' = "waiting" /\ UNCHANGED <<result, exitCode, request>>
     \/ /\ task.kind = "kubernetes" /\ object.state # "absent" /\ ~taskCtx
        /\ Ours /\ handlerPc' = "waiting"
        /\ UNCHANGED <<object, result, exitCode, request>>
  /\ UNCHANGED <<task, taskCtx, cancelPc, swept, squatter, ended>>

\* The API server serves the request of a handler that has gone.
LateCreate ==
  /\ request = "flying" /\ object.state = "absent"
  /\ object' = [state |-> "running", labels |-> dockerRunArguments]
  /\ request' = IF handlerPc = "returned" THEN "late" ELSE "none"
  /\ UNCHANGED <<task, handlerPc, taskCtx, exitCode, result, cancelPc, swept, squatter, ended>>

\* resumeDockerContainer and a Job found: only its end is awaited.
Resume ==
  /\ handlerPc = "resume" /\ handlerPc' = "waiting"
  /\ UNCHANGED <<task, object, taskCtx, exitCode, result, cancelPc, swept, historyVars>>

\* ScriptHandler: language and source, the temporary file, the process.
ScriptHandler ==
  /\ handlerPc = "begin" /\ task.kind = "script"
  /\ \/ Return("error") /\ UNCHANGED object
     \/ /\ ~taskCtx /\ task.definition.image # ""
        /\ object' = [state |-> "running", labels |-> dockerRunArguments]
        /\ handlerPc' = "waiting" /\ UNCHANGED result
  /\ UNCHANGED <<task, taskCtx, exitCode, cancelPc, swept, historyVars>>

\* The workload ends by itself.
Exits(code) ==
  /\ object.state = "running"
  /\ object' = [object EXCEPT !.state = code]
  /\ ended' = IF squatter THEN ended ELSE ended \cup {code}
  /\ UNCHANGED <<task, handlerPc, taskCtx, exitCode, result, cancelPc, swept, request, squatter>>

TaskContextEnds ==
  /\ ~taskCtx /\ handlerPc \notin {"returned", "down"} /\ taskCtx' = TRUE
  /\ UNCHANGED <<task, object, handlerPc, exitCode, result, cancelPc, swept, historyVars>>

\* The client, the poll or Wait returns: the exit, an error (a request that
\* fails, an object that is gone), or the end of the context, in which case a
\* script's process group is killed.
awaitExit ==
  /\ handlerPc = "waiting"
  /\ \/ /\ object.state \in {"succeeded", "failed"}
        /\ exitCode' = object.state /\ UNCHANGED object
        /\ handlerPc' = IF task.kind = "kubernetes" /\ object.state = "failed" THEN "sweep" ELSE "logs"
     \/ /\ External /\ exitCode' = "unknown" /\ UNCHANGED object
        /\ handlerPc' = "sweep"
     \/ /\ taskCtx /\ exitCode' = "cut" /\ handlerPc' = "sweep"
        /\ object' = IF task.kind = "script" THEN Absent ELSE object
  /\ UNCHANGED <<task, taskCtx, result, cancelPc, swept, historyVars>>

\* writeScriptOutput, writeKubernetesPodLogs: a log that cannot be delivered,
\* or output beyond the limit, makes the execution fail.
writeOutput ==
  /\ handlerPc = "logs" /\ handlerPc' = "sweep"
  /\ exitCode' \in {exitCode, "unlogged"}
  /\ UNCHANGED <<task, object, taskCtx, result, cancelPc, swept, historyVars>>

\* The deferred cleanup: a container always goes, a Job when the poll failed
\* and the context has ended (cancelManagedKubernetesJob).  The removal may
\* fail; the handler returns what it saw.
Swept == \/ task.kind = "docker"
         \/ task.kind = "kubernetes" /\ taskCtx /\ exitCode \in {"failed", "unknown", "cut"} /\ Ours

cleanup ==
  /\ handlerPc = "sweep"
  /\ \/ Swept /\ object' = Absent /\ swept' = TRUE
     \/ Swept /\ swept' = FALSE /\ UNCHANGED object
     \/ /\ ~Swept /\ swept' = TRUE
        /\ object' = IF task.kind = "script" THEN Absent ELSE object
  /\ Return(IF exitCode = "succeeded" THEN "ok" ELSE "error")
  /\ UNCHANGED <<task, taskCtx, exitCode, cancelPc, historyVars>>
-----------------------------------------------------------------------------
\* DockerCanceller, KubernetesCanceller: looks, and removes what is ours.
InspectToCancel ==
  /\ cancelPc = "idle" /\ External
  /\ \/ object.state = "absent" /\ cancelPc' = "done"
     \/ Ours /\ cancelPc' = "inspected"
     \/ object.state # "absent" /\ ~Ours /\ cancelPc' = "failed"
     \/ cancelPc' = "failed"
  /\ UNCHANGED <<task, object, handlerPc, taskCtx, exitCode, result, swept, historyVars>>

RemoveToCancel ==
  /\ cancelPc = "inspected"
  /\ \/ cancelPc' = "done" /\ object' = Absent
     \/ cancelPc' = "failed" /\ UNCHANGED object
  /\ UNCHANGED <<task, handlerPc, taskCtx, exitCode, result, swept, historyVars>>

\* The executor dies; a script dies with it.  Started again, it resumes the
\* executions of external runtimes only.
Crash ==
  /\ handlerPc \notin {"returned", "down"} /\ handlerPc' = "down"
  /\ object' = IF task.kind = "script" THEN Absent ELSE object
  /\ exitCode' = "none"
  /\ request' = IF task.kind = "kubernetes" /\ handlerPc = "pull" THEN "flying" ELSE request
  /\ UNCHANGED <<task, taskCtx, result, cancelPc, swept, squatter, ended>>

RestartHandler ==
  /\ handlerPc = "down"
  /\ IF External THEN handlerPc' = "begin" /\ taskCtx' = FALSE /\ UNCHANGED result
     ELSE Return("error") /\ UNCHANGED taskCtx
  /\ UNCHANGED <<task, object, exitCode, cancelPc, swept, historyVars>>

WorkloadNext ==
  \/ inspectManaged \/ Create \/ LateCreate \/ Resume \/ ScriptHandler
  \/ \E code \in {"succeeded", "failed"} : Exits(code)
  \/ TaskContextEnds \/ awaitExit \/ writeOutput \/ cleanup
  \/ InspectToCancel \/ RemoveToCancel \/ Crash \/ RestartHandler
-----------------------------------------------------------------------------
\* DockerHandler, KubernetesHandler and ScriptHandler answer success only when
\* the workload of this very execution ended with success, and neither they nor
\* the cancellers remove an object of the same name that is not theirs.
OnlyItsOwn ==
  /\ result = "ok" => "succeeded" \in ended
  /\ squatter => object.state # "absent"

\* A handler that returned after it had a workload leaves none behind, except
\* one whose removal failed, a Job whose context had not ended or that was
\* complete, and a Job created by a request that outlived its handler.
LeavesNothing ==
  handlerPc = "returned" /\ exitCode # "none" /\ swept /\ Ours /\ request # "late" =>
    task.kind = "kubernetes" /\ (~taskCtx \/ exitCode \in {"succeeded", "unlogged"})
=============================================================================
