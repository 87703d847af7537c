---------------------------- MODULE CommandLine ----------------------------
(***************************************************************************)
(* schedulerctl (cmd/schedulerctl/root.go) against the API: a command checks   *)
(* its flags, logs in unless it has a token, asks for the tenants of the       *)
(* account unless it was given one, and sends its request; it ends with the     *)
(* first error.  Memberships change and the account may be disabled in         *)
(* between.  Values of flags that nothing looks at are "any"; `file` and        *)
(* `password` tell where a definition and the password come from, because       *)
(* both may be read from standard input.                                      *)
(***************************************************************************)
EXTENDS ApiServer

CONSTANT
  OperatorKey       \* the login key of the operator's account and address

VARIABLES
  pc,        \* "idle", "login", "me", "send" or "done"
  cli,       \* cliConfig: token, tenant, and the source of the password
  request,   \* what the command will send
  answer     \* what the API said last; code 0 if the command failed by itself

cliVars == <<pc, cli, request, answer>>
commandVars == <<cliVars, apiVars>>

(* Values of flags, on both sides of every bound the code checks. *)
Version == {0, 1}
Limit == {0, 1, 500, 501, 10000, 10001}
Time == {"", "RFC3339", "other"}

api(path) == <<"api", "v1">> \o path
endpoint(path) == ContextPath \o path
NoRequest == [method |-> "", path |-> <<>>, query |-> <<>>, body |-> <<>>]
NoAnswer == Answer(0, "", Nobody)

-----------------------------------------------------------------------------
(* The commands.  Each becomes a request, or ends at a flag it refuses. *)

do(method, path, query, body) ==
  [method |-> method, path |-> path, query |-> query, body |-> body]

refuse == pc' = "done" /\ request' = NoRequest /\ UNCHANGED <<cli, answer>>

runAuthenticated(method, path, query, body) ==
  /\ request' = do(method, api(path), query, body)
  /\ pc' = IF cli.token = "" THEN "login" ELSE IF cli.tenant = "" /\ cli.token # "gsk_" THEN "me" ELSE "send"
  /\ UNCHANGED <<cli, answer>>

read(path) == runAuthenticated("GET", path, <<>>, <<>>)

loginCommand == cli.token = "" /\ request' = NoRequest /\ pc' = "login" /\ UNCHANGED <<cli, answer>>
healthCommand ==
  /\ request' = do("GET", <<"health", "ready">>, <<>>, <<>>)
  /\ pc' = "send" /\ UNCHANGED <<cli, answer>>
dashboardCommand == read(<<"dashboard">>)
reportsCommand == runAuthenticated("GET", <<"reports", "runs">>, [from |-> "any", to |-> "any", timezone |-> "any"], <<>>)

jobScriptVersionsCommand(version) ==
  \/ read(<<"jobs", "id", "script-versions">>)
  \/ runAuthenticated("POST", <<"jobs", "id", "script-versions", "id2", "rollback">>, <<>>,
                      [version |-> version, remark |-> "any"])
previewScheduleCommand(after, count) ==
  IF after \notin {"", "RFC3339"} THEN refuse
  ELSE runAuthenticated("POST", <<"schedules", "preview">>, <<>>,
         [schedule_type |-> "any", schedule_expression |-> "any", timezone |-> "any", after |-> after, count |-> count])
jobDependenciesCommand ==
  \/ read(<<"jobs", "id", "dependencies">>)
  \/ runAuthenticated("PUT", <<"jobs", "id", "dependencies">>, <<>>, [child_job_ids |-> "any"])
lifecycleJobCommand(enabled, version) ==
  runAuthenticated("POST", <<"jobs", "id", IF enabled THEN "start" ELSE "stop">>, <<>>, [version |-> version])
createJobCommand(file) == runAuthenticated("POST", <<"jobs">>, <<>>, [job |-> file])
updateJobCommand(file) == runAuthenticated("PUT", <<"jobs", "id">>, <<>>, [job |-> file])
deleteJobCommand(version) == runAuthenticated("DELETE", <<"jobs", "id">>, <<>>, [version |-> version])
triggerJobCommand ==
  runAuthenticated("POST", <<"jobs", "id", "trigger">>, <<>>,
    [input |-> "any", idempotency_key |-> "any", override_addresses |-> "any"])

jobsCommand ==
  \/ read(<<"jobs">>)
  \/ read(<<"jobs", "id">>)
  \/ \E file \in {"file", "stdin"} : createJobCommand(file) \/ updateJobCommand(file)
  \/ \E enabled \in BOOLEAN, version \in Version : lifecycleJobCommand(enabled, version)
  \/ \E version \in Version : deleteJobCommand(version) \/ jobScriptVersionsCommand(version)
  \/ triggerJobCommand
  \/ \E after \in Time, count \in {-1, 0, 100, 101} : previewScheduleCommand(after, count)
  \/ jobDependenciesCommand

purgeRunsCommand(before, limit) ==
  IF before # "RFC3339" \/ limit \notin 1 .. 10000 THEN refuse
  ELSE runAuthenticated("POST", <<"runs", "purge">>, <<>>, [before |-> before, job_id |-> "uuid", limit |-> limit])
runLogsCommand(after, limit) ==
  IF after < 0 \/ limit \notin 1 .. 500 THEN refuse
  ELSE runAuthenticated("GET", <<"runs", "id", "logs">>, [after |-> after, limit |-> limit], <<>>)
getRunCommand == read(<<"runs", "id">>)
cancelRunCommand == runAuthenticated("POST", <<"runs", "id", "cancel">>, <<>>, [reason |-> "any"])
runsCommand ==
  \/ runAuthenticated("GET", <<"runs">>, [job_id |-> "any", broadcast_group_id |-> "any"], <<>>)
  \/ getRunCommand
  \/ cancelRunCommand
  \/ \E after \in {-1, 0}, limit \in Limit : runLogsCommand(after, limit)
  \/ \E before \in Time, limit \in Limit : purgeRunsCommand(before, limit)

executorsCommand(version) ==
  LET fields == [name |-> "any", route_strategy |-> "any", registration_mode |-> "any", manual_addresses |-> "any"]
  IN \/ read(<<"executor-groups">>)
     \/ runAuthenticated("POST", <<"executor-groups">>, <<>>, fields)
     \/ runAuthenticated("PUT", <<"executor-groups", "id">>, <<>>, [version |-> version] @@ fields)
     \/ runAuthenticated("DELETE", <<"executor-groups", "id">>, [version |-> version], <<>>)
     \/ runAuthenticated("PUT", <<"executor-groups", "id", "nodes", "id2">>, <<>>,
                         [address |-> "any", ttl_seconds |-> "any", labels |-> "any"])
     \/ runAuthenticated("DELETE", <<"executor-groups", "id", "nodes", "id2">>, <<>>, <<>>)
     \/ read(<<"executor-groups", "id", "nodes">>)

(* The files with the kubeconfig and the certificates are read first, and may not be there. *)
kubernetesClustersCommand(version) ==
  LET fields == [name |-> "any", auth_mode |-> "any", api_server |-> "any", namespace |-> "any",
                 kubeconfig |-> "any", token |-> "any", ca_data |-> "any", insecure_skip_tls_verify |-> "any",
                 max_concurrent_jobs |-> "any", version |-> version]
  IN \/ read(<<"kubernetes-clusters">>)
     \/ read(<<"kubernetes-clusters", "id">>)
     \/ refuse
     \/ runAuthenticated("POST", <<"kubernetes-clusters">>, <<>>, fields)
     \/ runAuthenticated("PUT", <<"kubernetes-clusters", "id">>, <<>>, fields)
     \/ runAuthenticated("DELETE", <<"kubernetes-clusters", "id">>, [version |-> version], <<>>)

validateNotificationHistoryFilters(filter, deliveryStatus, limit) ==
  /\ filter \in {"", "uuid"}
  /\ deliveryStatus \in {"", "pending", "delivered", "dead"}
  /\ limit \in 1 .. 500

(* An update without --config leaves the field out; filters that are empty are left out. *)
notificationsCommand ==
  LET fields == [kind |-> "any", name |-> "any", events |-> "any", all_jobs |-> "any", job_ids |-> "any",
                 max_attempts |-> "any", backoff_initial_seconds |-> "any", backoff_max_seconds |-> "any"]
      unlessEmpty(name, value) == IF value = "" THEN <<>> ELSE name :> value
  IN \/ read(<<"notification-channels">>)
     \/ \E config \in {"", "json", "other"} :
          IF config # "json" THEN refuse
          ELSE runAuthenticated("POST", <<"notification-channels">>, <<>>, [config |-> config] @@ fields)
     \/ \E config \in {"", "json", "other"}, version \in Version :
          IF config = "other" THEN refuse
          ELSE runAuthenticated("PUT", <<"notification-channels", "id">>, <<>>,
                                [version |-> version] @@ unlessEmpty("config", config) @@ fields)
     \/ \E version \in Version :
          runAuthenticated("PUT", <<"notification-channels", "id", "enabled">>, <<>>,
                           [enabled |-> "any", version |-> version])
     \/ \E version \in Version :
          runAuthenticated("DELETE", <<"notification-channels", "id">>, [version |-> version], <<>>)
     \/ \E filter \in {"", "uuid", "other"}, deliveryStatus \in {"", "dead", "other"}, limit \in Limit :
          IF ~validateNotificationHistoryFilters(filter, deliveryStatus, limit) THEN refuse
          ELSE runAuthenticated("GET", <<"notification-history">>,
                 [limit |-> limit] @@ unlessEmpty("channel_id", filter) @@ unlessEmpty("job_id", filter)
                   @@ unlessEmpty("status", deliveryStatus), <<>>)

newRootCommand ==
  /\ pc = "idle"
  /\ \/ loginCommand
     \/ healthCommand
     \/ dashboardCommand
     \/ reportsCommand
     \/ jobsCommand
     \/ runsCommand
     \/ \E version \in Version : executorsCommand(version)
     \/ \E version \in Version : kubernetesClustersCommand(version)
     \/ notificationsCommand
  /\ UNCHANGED apiVars

-----------------------------------------------------------------------------
(* What a command does between its flags and its request. *)

fail == pc' = "done" /\ answer' = NoAnswer

(* The request is lost, or its answer: http.Client.Do returns an error. *)
transportError ==
  /\ pc \in {"login", "me", "send"}
  /\ fail /\ UNCHANGED <<cli, request, apiVars>>

(* login: without an email or a password nothing is sent. *)
loginStep(right) ==
  /\ pc = "login"
  /\ IF cli.password = "none"
     THEN fail /\ UNCHANGED <<cli, request, apiVars>>
     ELSE /\ login(OperatorKey, right)
          /\ IF loginAnswer(OperatorKey, right) # 200
             THEN /\ pc' = "done" /\ answer' = Answer(loginAnswer(OperatorKey, right), "login", Nobody)
                  /\ UNCHANGED <<cli, request>>
             ELSE /\ cli' = [cli EXCEPT !.token = "jwt"]
                  /\ pc' = IF request.path = <<>> THEN "done" ELSE IF cli.tenant = "" THEN "me" ELSE "send"
                  /\ answer' = Answer(200, "login", Nobody)
                  /\ UNCHANGED request

send(q) == q @@ [token |-> cli.token, tenant |-> cli.tenant]

(* authenticate: an account without a tenant of its own takes the first one listed. *)
meStep ==
  /\ pc = "me"
  /\ LET q == send(do("GET", endpoint(api(<<"auth", "me">>)), <<>>, <<>>))
         a == Routes(q)
         tenants == me(authenticate(q).by).tenants
     IN IF a.code # 200 THEN pc' = "done" /\ answer' = a /\ UNCHANGED cli
        ELSE IF tenants = <<>> THEN fail /\ UNCHANGED cli
        ELSE cli' = [cli EXCEPT !.tenant = Head(tenants)] /\ pc' = "send" /\ UNCHANGED answer
  /\ UNCHANGED <<request, apiVars>>

(* The body is read only now, after the password was: what login read from standard *)
(* input is gone.                                                             *)
payload(q) ==
  IF q.path = api(<<"jobs">>) \/ q.path = api(<<"jobs", "id">>)
  THEN IF "job" \in DOMAIN q.body /\ q.body.job = "stdin" /\ cli.password = "stdin"
       THEN [q EXCEPT !.body = <<>>] ELSE q
  ELSE q

sendStep ==
  /\ pc = "send"
  /\ pc' = "done"
  /\ answer' = Routes(send([payload(request) EXCEPT !.path = endpoint(@)]))
  /\ UNCHANGED <<cli, request, apiVars>>

(* The process ends; the next one has its own configuration. *)
Configs ==
  [token : {"jwt", "gsk_"}, tenant : {"", TenantNames[Len(TenantNames)]}, password : {"none"}]
  \cup [token : {""}, tenant : {"", TenantNames[Len(TenantNames)]}, password : {"none", "flag", "stdin"}]
exit ==
  /\ pc = "done" /\ pc' = "idle"
  /\ cli' \in Configs /\ request' = NoRequest /\ answer' = NoAnswer
  /\ UNCHANGED apiVars

CommandInit ==
  /\ ApiInit
  /\ pc = "idle" /\ cli \in Configs /\ request = NoRequest /\ answer = NoAnswer

CommandNext ==
  \/ newRootCommand \/ (\E right \in BOOLEAN : loginStep(right)) \/ meStep \/ sendStep \/ exit \/ transportError
  \/ (ChangeMembership \/ DisableAccount) /\ UNCHANGED cliVars

-----------------------------------------------------------------------------
(* The commands and the API, written apart, fit: whatever happens to the account     *)
(* meanwhile, a request of schedulerctl never meets a path or a method the API lacks,  *)
(* never goes out without a tenant, and is malformed only in what the command leaves   *)
(* to the API: a version below 1, a count out of range, a definition expected from the *)
(* standard input the password was read from.  It acts on the tenant the operator     *)
(* named, or the API key's, and changes something only under a role that may         *)
(* (newRootCommand, authenticate, Routes, tenantWriterOnly, tenantAdminOnly).        *)
CommandsAreServed ==
  LET changes == request.method # "GET" /\ answer.handler # "previewSchedule"
      leftToApi == \/ "version" \in DOMAIN request.body /\ request.body.version < 1
                   \/ "version" \in DOMAIN request.query /\ request.query.version < 1
                   \/ "count" \in DOMAIN request.body /\ request.body.count \notin 0 .. 100
                   \/ "job" \in DOMAIN request.body /\ request.body.job = "stdin" /\ cli.password = "stdin"
  IN pc = "done" /\ answer.code # 0 =>
       /\ answer.code \notin {404, 405}
       /\ answer.code = 400 => leftToApi /\ answer.tenant # ""
       /\ answer.code = 200 /\ answer.handler \notin {"login", "ready"} =>
            /\ answer.tenant = (IF cli.token = "gsk_" THEN KeyTenant ELSE cli.tenant)
            /\ changes => answer.role \in {"developer", "admin", "owner"}
            /\ changes /\ request.path[3] = "kubernetes-clusters" => answer.role \in {"admin", "owner"}
=============================================================================
