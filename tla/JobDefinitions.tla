--------------------------- MODULE JobDefinitions ---------------------------
(***************************************************************************)
(* One job as its editors see it: create, read, update, start and stop,       *)
(* delete, and the revisions of its script (internal/api/jobs.go,              *)
(* internal/core/job_service.go, internal/store/jobs.go, script_versions.go).   *)
(* An update may leave out the headers and the registry login; the API server   *)
(* and the service then read the ones to keep before the store's transaction    *)
(* starts, so an update takes up to three reads and writes of the database.     *)
(* A request that is refused changes nothing and is no step here.             *)
(***************************************************************************)
EXTENDS Answers, Sequences

CONSTANTS Client,        \* editors, each with one request at a time
          Body,          \* the definitions they send
          MaxVersion     \* bound on the edits

VARIABLES
  job,        \* row of jobs with its labels; version 0: no such row
  revisions,  \* rows of job_script_versions, by revision
  known,      \* the version each client read last
  req         \* the update each client has in flight

jobVars == <<job, revisions, known, req>>

NoLogin == [user |-> "", password |-> ""]
Omitted == [user |-> "omitted", password |-> ""]   \* a body without a login
Clear == [user |-> "clear", password |-> ""]       \* a body that clears it
NoScript == [language |-> "", source |-> ""]
NoJob == [version |-> 0, script |-> NoScript, handler |-> "", cluster |-> FALSE, headers |-> "",
          login |-> NoLogin, required |-> {}, excluded |-> {}, timeout |-> 0, enabled |-> FALSE]
Idle == [pc |-> "idle", body |-> NoJob, version |-> 0, left |-> {}]

JobInit ==
  /\ job = NoJob /\ revisions = <<>>
  /\ known = [c \in Client |-> 0] /\ req = [c \in Client |-> Idle]

-----------------------------------------------------------------------------
\* What a definition goes through.  A body has the fields of a job; the headers
\* may be "omitted", the login Omitted or Clear.

provided(login) == login \notin {Omitted, Clear}

\* applyDefaults: a missing timeout, and the handler of a plain HTTP job.
applyDefaults(body) ==
  [body EXCEPT !.timeout = IF @ = 0 THEN 30 ELSE @,
               !.handler = IF @ = "" /\ body.script.language = "" THEN "__http__" ELSE @]

expectedHandler(language) ==
  CASE language = "docker" -> "__docker__"
    [] language = "kubernetes" -> "__kubernetes__"
    [] OTHER -> "__script__"

\* The rules that relate two fields, and the bounds of one of the numbers.
validateJobModel(j) ==
  /\ j.handler # ""
  /\ j.script.language # "" => j.handler = expectedHandler(j.script.language)
  /\ (j.script.language = "kubernetes") = j.cluster
  /\ j.login # Omitted => j.script.language = "docker"
  /\ provided(j.login) => j.login.user # ""
  /\ j.required \cap j.excluded = {}
  /\ j.timeout \in 1..3600

\* insertJobScriptVersion: the next number.
insertJobScriptVersion(script) == revisions' = Append(revisions, script)

-----------------------------------------------------------------------------
\* Create.  A login comes with its password.

CreateJob(body) ==
  /\ job' = [body EXCEPT !.version = 1, !.login = IF provided(@) THEN @ ELSE NoLogin,
                         !.headers = IF @ = "omitted" THEN "" ELSE @]
  /\ IF body.script.language # "" THEN insertJobScriptVersion(body.script)
     ELSE UNCHANGED revisions

Create(body) ==
  /\ validateJobModel([body EXCEPT !.login = IF @ = Clear THEN Omitted ELSE @])
  /\ provided(body.login) => body.login.password # ""
  /\ CreateJob(body)

createJob(c, body) ==
  /\ job = NoJob /\ revisions = <<>>
  /\ Create(applyDefaults(body))
  /\ UNCHANGED <<known, req>>

\* getJob and listJobs: a client learns the version.
getJob(c) ==
  /\ req[c] = Idle /\ job.version \notin {0, known[c]}
  /\ known' = [known EXCEPT ![c] = job.version]
  /\ UNCHANGED <<job, revisions, req>>

-----------------------------------------------------------------------------
\* Update, in the steps of the handler, the service and the store.

\* The handler reads the headers that the body leaves out.
updateJob(c, body) ==
  /\ req[c] = Idle
  /\ body.headers = "omitted" => job.version # 0
  /\ LET kept == IF body.headers = "omitted" THEN job.headers ELSE body.headers
     IN req' = [req EXCEPT ![c] = [pc |-> "service", version |-> known[c],
                                   body |-> applyDefaults([body EXCEPT !.headers = kept]),
                                   left |-> (IF body.headers = "omitted" THEN {"headers"} ELSE {})
                                           \cup (IF body.login = Omitted THEN {"login"} ELSE {})]]
  /\ UNCHANGED <<job, revisions, known>>

Answered(c) == req' = [req EXCEPT ![c] = Idle]

\* The service reads the login that the body leaves out, or whose password it
\* leaves out.
Update(c) ==
  LET body == req[c].body
      keep == body.login = Omitted \/ (provided(body.login) /\ body.login.password = "")
      sameUser == provided(body.login) => job.login.user = body.login.user
      login == IF body.login = Clear THEN NoLogin
               ELSE IF keep THEN job.login ELSE body.login
      accepted == validateJobModel(body) /\ (keep => job.version # 0 /\ sameUser)
  IN /\ req[c].pc = "service"
     /\ IF accepted
        THEN req' = [req EXCEPT ![c].pc = "store", ![c].body.login = login]
        ELSE Answered(c)
     /\ UNCHANGED <<job, revisions, known>>

\* An update that does not compare versions.
UpdateAnyVersion(c) ==
  LET body == req[c].body
  IN /\ req[c].pc = "store" /\ Answered(c)
     /\ job.version # 0 /\ job' = [body EXCEPT !.version = job.version + 1]
     /\ IF body.script # job.script /\ body.script.language # ""
        THEN insertJobScriptVersion(body.script) ELSE UNCHANGED revisions
     /\ UNCHANGED known

\* The store's transaction locks the row and compares the version; a changed
\* script is a new revision.
UpdateJob(c) ==
  LET body == req[c].body
  IN /\ req[c].pc = "store" /\ Answered(c)
     /\ IF job.version # 0 /\ req[c].version = job.version
        THEN /\ job' = [body EXCEPT !.version = job.version + 1]
             /\ IF body.script # job.script /\ body.script.language # ""
                THEN insertJobScriptVersion(body.script) ELSE UNCHANGED revisions
        ELSE UNCHANGED <<job, revisions>>
     /\ UNCHANGED known

-----------------------------------------------------------------------------
\* The edits of one step

\* SetJobEnabled: nothing to do, not even a version, if it is so already.
setJobEnabled(c, enabled) ==
  /\ req[c] = Idle /\ job.version # 0 /\ known[c] = job.version
  /\ job.enabled # enabled
  /\ job' = [job EXCEPT !.enabled = enabled, !.version = @ + 1]
  /\ UNCHANGED <<revisions, known, req>>

\* RollbackJobScriptVersion brings back language and source of a revision, and
\* nothing else, as a new revision.
RollbackJobScriptVersion(version, n) ==
  /\ job.version # 0 /\ version = job.version
  /\ n \in DOMAIN revisions
  /\ job' = [job EXCEPT !.script = revisions[n], !.version = @ + 1]
  /\ insertJobScriptVersion(revisions[n])

rollbackJobScriptVersion(c, n) ==
  /\ req[c] = Idle /\ known[c] >= 1
  /\ RollbackJobScriptVersion(known[c], n)
  /\ UNCHANGED <<known, req>>

\* DeleteJob: the revisions go with the row.
deleteJob(c) ==
  /\ req[c] = Idle /\ job.version # 0 /\ known[c] = job.version
  /\ job' = NoJob /\ revisions' = <<NoScript>>   \* not created a second time
  /\ UNCHANGED <<known, req>>

JobNext ==
  \/ \E c \in Client : getJob(c)
  \/ \E c \in Client, caller \in Role, readable \in BOOLEAN :
       /\ requireTenantWrite(caller) = 0 /\ decode(readable) = 0
       /\ \/ \E body \in Body : createJob(c, body)
          \/ job.version < MaxVersion /\ \E body \in Body : updateJob(c, body)
          \/ Update(c) \/ UpdateJob(c)
          \/ job.version < MaxVersion /\ \E enabled \in BOOLEAN : setJobEnabled(c, enabled)
          \/ job.version < MaxVersion /\ \E n \in 1 .. MaxVersion : rollbackJobScriptVersion(c, n)
          \/ deleteJob(c)

JobSpec == JobInit /\ [][JobNext]_jobVars

-----------------------------------------------------------------------------
(* An update that leaves out the headers or the login keeps the ones the job   *)
(* has when it takes effect, although they were read before its transaction     *)
(* (the version that UpdateJob compares).                                     *)
OmittedIsKept ==
  \A c \in Client :
    req[c].pc = "store" /\ req'[c] = Idle /\ job' # job =>
      \A field \in req[c].left : job'[field] = job[field]

(* The latest revision of a job with a script is its script, whatever edits     *)
(* and rollbacks there were (insertJobScriptVersion and who calls it).         *)
LatestRevisionIsScript ==
  job.version # 0 /\ job.script.language # "" => revisions[Len(revisions)] = job.script

\* What a client gets to read: the login without its password, if there is one.
toProto == [job EXCEPT !.login = IF @ = NoLogin THEN Omitted ELSE [@ EXCEPT !.password = ""]]

(* A job can be sent back as it was read: what is stored passes the checks of    *)
(* an update (validateJobModel; RollbackJobScriptVersion brings back a script    *)
(* without the handler and the cluster it needs).                            *)
ReadIsAccepted == job.version # 0 => validateJobModel(applyDefaults(toProto))
=============================================================================
