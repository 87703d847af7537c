----------------------------- MODULE ApiServer -----------------------------
(***************************************************************************)
(* The HTTP server in front of Core (internal/api): which route answers a     *)
(* request, who the caller is, what the route demands of the caller and what  *)
(* its handler demands of the request before it calls Core.  What the calls   *)
(* then do is in the modules of the components; here a request that gets that  *)
(* far is answered 200.  One account, one API key and their roles stand for    *)
(* the callers.  Tokens are abstract: "" is none, "jwt" the account's access   *)
(* token, "gsk_" the API key.  A request is a record of its method, its path   *)
(* (a sequence of segments), the parameters of its query and the fields of its *)
(* body, with their values.                                                  *)
(***************************************************************************)
EXTENDS Integers, Sequences, FiniteSets, Functions, TLC

CONSTANTS
  ContextPath,      \* API_CONTEXT_PATH, as segments
  TenantNames,      \* the tenants, a sequence in the order of their names
  MemberRoles,      \* the roles the account may be given in each tenant
  KeyTenant,        \* the tenant of the API key
  LoginKey,         \* what loginLimitKey makes of an address and an email
  LoginWindow, LoginAttempts, MaxLoginWindows

VARIABLES
  roles,     \* tenant_memberships: role of the account in each tenant, or "none"
  platform,  \* the account is a platform administrator
  accountOff,  \* the account is disabled
  keyRole,   \* role of the API key, "none" once revoked
  windows,   \* loginLimiter.windows: key -> age of the window and attempts in it
  failed     \* history: passwords refused per key and age, since its last success

apiVars == <<roles, platform, accountOff, keyRole, windows, failed>>
Tenant == Range(TenantNames)

Checks == INSTANCE Answers

-----------------------------------------------------------------------------
(* Routes.  "{}" stands for a parameter of the path. *)

Get(path, handler) == [method |-> "GET", path |-> path, handler |-> handler]
Post(path, handler) == [method |-> "POST", path |-> path, handler |-> handler]
Put(path, handler) == [method |-> "PUT", path |-> path, handler |-> handler]
Delete(path, handler) == [method |-> "DELETE", path |-> path, handler |-> handler]
Patch(path, handler) == [method |-> "PATCH", path |-> path, handler |-> handler]

registerPublicRoutes ==
  {Get(<<"health", "live">>, "live"), Get(<<"health", "ready">>, "ready"), Get(<<"metrics">>, "metrics"),
   Post(<<"api", "v1", "callbacks", "{}">>, "completeCallback"),
   Post(<<"api", "v1", "runs", "{}", "logs">>, "appendRunLogs"),
   Post(<<"api", "v1", "auth", "login">>, "login"), Post(<<"api", "v1", "auth", "refresh">>, "refresh"),
   Post(<<"api", "v1", "auth", "logout">>, "logout")}

registerTenantReadRoutes ==
  {Get(<<"jobs">>, "listJobs"), Get(<<"jobs", "{}">>, "getJob"),
   Get(<<"jobs", "{}", "script-versions">>, "listJobScriptVersions"),
   Get(<<"jobs", "{}", "dependencies">>, "getJobDependencies"),
   Get(<<"runs">>, "listRuns"), Get(<<"runs", "{}">>, "getRun"), Get(<<"runs", "{}", "logs">>, "listRunLogs"),
   Get(<<"executor-groups">>, "listExecutorGroups"),
   Get(<<"executor-groups", "{}", "nodes">>, "listExecutorNodes"),
   Get(<<"kubernetes-clusters">>, "listKubernetesClusters"),
   Get(<<"kubernetes-clusters", "{}">>, "getKubernetesCluster"),
   Get(<<"notification-channels">>, "listNotificationChannels"),
   Get(<<"notification-history">>, "listNotificationHistory")}

registerTenantWriteRoutes ==
  {Post(<<"jobs">>, "createJob"), Put(<<"jobs", "{}">>, "updateJob"),
   Post(<<"jobs", "{}", "script-versions", "{}", "rollback">>, "rollbackJobScriptVersion"),
   Post(<<"jobs", "{}", "start">>, "setJobEnabled"), Post(<<"jobs", "{}", "stop">>, "setJobEnabled"),
   Delete(<<"jobs", "{}">>, "deleteJob"), Post(<<"jobs", "{}", "trigger">>, "triggerJob"),
   Put(<<"jobs", "{}", "dependencies">>, "setJobDependencies"),
   Post(<<"runs", "purge">>, "purgeRunHistory"), Post(<<"runs", "{}", "cancel">>, "cancelRun"),
   Post(<<"executor-groups">>, "createExecutorGroup"), Put(<<"executor-groups", "{}">>, "updateExecutorGroup"),
   Delete(<<"executor-groups", "{}">>, "deleteExecutorGroup"),
   Put(<<"executor-groups", "{}", "nodes", "{}">>, "registerExecutorNode"),
   Delete(<<"executor-groups", "{}", "nodes", "{}">>, "unregisterExecutorNode"),
   Post(<<"notification-channels">>, "createNotificationChannel"),
   Put(<<"notification-channels", "{}">>, "updateNotificationChannel"),
   Put(<<"notification-channels", "{}", "enabled">>, "setNotificationChannelEnabled"),
   Delete(<<"notification-channels", "{}">>, "deleteNotificationChannel")}

registerTenantAdminRoutes ==
  {Post(<<"kubernetes-clusters">>, "createKubernetesCluster"),
   Put(<<"kubernetes-clusters", "{}">>, "updateKubernetesCluster"),
   Delete(<<"kubernetes-clusters", "{}">>, "deleteKubernetesCluster"),
   Get(<<"api-keys">>, "listAPIKeys"), Post(<<"api-keys">>, "createAPIKey"),
   Delete(<<"api-keys", "{}">>, "revokeAPIKey")}

registerPlatformAdminRoutes ==
  {Post(<<"platform", "users">>, "createUser"), Get(<<"platform", "users">>, "listUsers"),
   Patch(<<"platform", "users", "{}">>, "patchUser"),
   Post(<<"platform", "tenants">>, "createTenant"), Get(<<"platform", "tenants">>, "listTenants"),
   Get(<<"platform", "instances">>, "listInstances"),
   Put(<<"platform", "tenants", "{}", "members", "{}">>, "putMembership"),
   Get(<<"platform", "tenants", "{}", "members">>, "listMembers"),
   Delete(<<"platform", "tenants", "{}", "members", "{}">>, "deleteMembership")}

registerAuthenticatedRoutes ==
  {Get(<<"auth", "me">>, "me"), Get(<<"dashboard">>, "dashboard"), Get(<<"reports", "runs">>, "runReport"),
   Post(<<"schedules", "preview">>, "previewSchedule")}
  \cup registerTenantReadRoutes \cup registerTenantWriteRoutes \cup registerTenantAdminRoutes
  \cup registerPlatformAdminRoutes

(* chi: a segment of a pattern is literal or a parameter. *)
matches(route, path) ==
  /\ Len(route.path) = Len(path)
  /\ \A i \in DOMAIN path : route.path[i] \in {path[i], "{}"}

-----------------------------------------------------------------------------
(* What a handler demands of a request before, and of its values when, it calls Core. *)

(* decode: exactly one JSON value, without unknown fields. *)
decode(q, fields) == DOMAIN q.body # {} /\ DOMAIN q.body \subseteq fields
given(params, name) == name \in DOMAIN params

createJob(q) == decode(q, {"job"})
setJobEnabled(q) == decode(q, {"version"}) /\ q.body.version >= 1
deleteJob(q) == decode(q, {"version"})
rollbackJobScriptVersion(q) == decode(q, {"version", "remark"}) /\ q.body.version >= 1
triggerJob(q) == decode(q, {"input", "idempotency_key", "override_addresses"})
previewSchedule(q) ==
  /\ decode(q, {"schedule_type", "schedule_expression", "timezone", "after", "count"})
  /\ q.body.after \in {"", "RFC3339"}
schedulePreviewInput(q) == q.body.count \in 0 .. 100
setJobDependencies(q) == decode(q, {"child_job_ids"})
purgeRunHistory(q) == decode(q, {"before", "job_id", "limit"}) /\ q.body.before = "RFC3339"
validatePurgeRunHistoryRequest(q) == q.body.job_id \in {"", "uuid"} /\ q.body.limit \in 0 .. 10000
listRunLogs(q) ==
  /\ given(q.query, "after") => q.query.after >= 0
  /\ given(q.query, "limit") => q.query.limit \in 1 .. 500
cancelRun(q) == decode(q, {"reason"})
createExecutorGroup(q) == decode(q, {"name", "route_strategy", "registration_mode", "manual_addresses"})
updateExecutorGroup(q) ==
  decode(q, {"name", "route_strategy", "registration_mode", "manual_addresses", "version"})
deleteExecutorGroup(q) == given(q.query, "version") /\ q.query.version >= 1
registerExecutorNode(q) == decode(q, {"address", "ttl_seconds", "labels"})
kubernetesClusterRequest ==
  {"name", "auth_mode", "api_server", "namespace", "kubeconfig", "token", "ca_data",
   "insecure_skip_tls_verify", "max_concurrent_jobs", "version"}
deleteKubernetesCluster(q) == given(q.query, "version")
notificationChannelRequest ==
  {"kind", "name", "config", "events", "all_jobs", "job_ids", "max_attempts", "backoff_initial_seconds",
   "backoff_max_seconds", "version"}
setNotificationChannelEnabled(q) == decode(q, {"enabled", "version"})
deleteNotificationChannel(q) == given(q.query, "version") /\ q.query.version >= 1
listNotificationHistory(q) == given(q.query, "limit") => q.query.limit \in 1 .. 500
ListHistory(q) ==
  /\ given(q.query, "channel_id") => q.query.channel_id = "uuid"
  /\ given(q.query, "job_id") => q.query.job_id = "uuid"
  /\ given(q.query, "status") => q.query.status \in {"pending", "delivered", "dead"}

wellFormed(handler, q) ==
  CASE handler \in {"createJob", "updateJob"} -> createJob(q)
    [] handler = "setJobEnabled" -> setJobEnabled(q)
    [] handler = "deleteJob" -> deleteJob(q)
    [] handler = "rollbackJobScriptVersion" -> rollbackJobScriptVersion(q)
    [] handler = "triggerJob" -> triggerJob(q)
    [] handler = "previewSchedule" -> previewSchedule(q) /\ schedulePreviewInput(q)
    [] handler = "setJobDependencies" -> setJobDependencies(q)
    [] handler = "purgeRunHistory" -> purgeRunHistory(q) /\ validatePurgeRunHistoryRequest(q)
    [] handler = "listRunLogs" -> listRunLogs(q)
    [] handler = "cancelRun" -> cancelRun(q)
    [] handler = "createExecutorGroup" -> createExecutorGroup(q)
    [] handler = "updateExecutorGroup" -> updateExecutorGroup(q)
    [] handler = "deleteExecutorGroup" -> deleteExecutorGroup(q)
    [] handler = "registerExecutorNode" -> registerExecutorNode(q)
    [] handler \in {"createKubernetesCluster", "updateKubernetesCluster"} -> decode(q, kubernetesClusterRequest)
    [] handler = "deleteKubernetesCluster" -> deleteKubernetesCluster(q)
    [] handler \in {"createNotificationChannel", "updateNotificationChannel"} ->
         decode(q, notificationChannelRequest)
    [] handler = "setNotificationChannelEnabled" -> setNotificationChannelEnabled(q)
    [] handler = "deleteNotificationChannel" -> deleteNotificationChannel(q)
    [] handler = "listNotificationHistory" -> listNotificationHistory(q) /\ ListHistory(q)
    [] OTHER -> TRUE

-----------------------------------------------------------------------------
(* Who asks, and what the group of the route demands of them. *)

Nobody == [tenant |-> "", user |-> FALSE, role |-> "", platform |-> FALSE]
Answer(code, handler, p) == [code |-> code, handler |-> handler, tenant |-> p.tenant, role |-> p.role]

GetMembershipRole(t) == roles[t]

(* The code the middleware answers with, 200 if it passes the request on, and the caller. *)
authenticate(q) ==
  LET user == [Nobody EXCEPT !.user = TRUE, !.platform = platform]
      member == [user EXCEPT !.tenant = q.tenant, !.role = GetMembershipRole(q.tenant)]
  IN CASE q.token = "" -> [code |-> 401, by |-> Nobody]
       [] q.token = "gsk_" /\ keyRole = "none" -> [code |-> 401, by |-> Nobody]
       [] q.token = "gsk_" /\ keyRole # "none" ->
            [code |-> 200, by |-> [Nobody EXCEPT !.tenant = KeyTenant, !.role = keyRole]]
       [] q.token = "jwt" /\ accountOff -> [code |-> 401, by |-> Nobody]
       [] q.token = "jwt" /\ ~accountOff /\ q.tenant = "" -> [code |-> 200, by |-> user]
       [] q.token = "jwt" /\ ~accountOff /\ q.tenant # "" ->
            IF GetMembershipRole(q.tenant) = "none" THEN [code |-> 403, by |-> Nobody]
            ELSE [code |-> 200, by |-> member]

(* The middleware of a group: 0 lets the request pass. *)
caller(p) == IF p.tenant = "" THEN "none" ELSE p.role
tenantWriterOnly(p) == Checks!requireTenantWrite(caller(p))
tenantAdminOnly(p) == Checks!requireTenantAdmin(caller(p))
platformAdminOnly(p) == Checks!requirePlatformAdmin(p.platform)

refusal(route, p) ==
  CASE route \in registerTenantWriteRoutes -> tenantWriterOnly(p)
    [] route \in registerTenantAdminRoutes -> tenantAdminOnly(p)
    [] route \in registerPlatformAdminRoutes -> platformAdminOnly(p)
    [] route.handler \in {"dashboard", "runReport", "listNotificationChannels", "listNotificationHistory"} ->
         IF p.tenant = "" THEN 400 ELSE 0
    [] OTHER -> 0

(* What an account may choose from: every tenant for a platform administrator. *)
UserTenants == SelectSeq(TenantNames, LAMBDA t : platform \/ roles[t] # "none")

(* An API key is nobody's account: the user it names cannot be read. *)
me(p) ==
  IF p.user THEN [code |-> 200, tenants |-> UserTenants]
  ELSE [code |-> Checks!respond("other", 200), tenants |-> <<>>]

handle(route, q, p) ==
  IF refusal(route, p) # 0 THEN Answer(refusal(route, p), route.handler, p)
  ELSE IF route.handler = "me" THEN Answer(me(p).code, "me", p)
  ELSE Answer(IF wellFormed(route.handler, q) THEN 200 ELSE 400, route.handler, p)

(* The routes of one router that a path fits, and the answer when none has the method. *)
dispatch(routes, q, path, p) ==
  LET fits == {r \in routes : matches(r, path)}
      chosen == {r \in fits : r.method = q.method}
  IN IF chosen # {} THEN handle(CHOOSE r \in chosen : TRUE, q, p)
     ELSE Answer(IF fits = {} THEN 404 ELSE 405, "", p)

(* Routes: the context path, the public routes, then the ones behind authenticate. *)
Routes(q) ==
  LET n == Len(ContextPath)
      path == SubSeq(q.path, n + 1, Len(q.path))
      public == dispatch(registerPublicRoutes, q, path, Nobody)
      inner == authenticate(q)
  IN CASE SubSeq(q.path, 1, n) # ContextPath -> Answer(404, "", Nobody)
       [] SubSeq(q.path, 1, n) = ContextPath /\ public.code \notin {404, 405} -> public
       [] SubSeq(q.path, 1, n) = ContextPath /\ public.code \in {404, 405} ->
            IF SubSeq(path, 1, 2) # <<"api", "v1">> THEN public
            ELSE IF inner.code # 200 THEN Answer(inner.code, "", Nobody)
            ELSE dispatch(registerAuthenticatedRoutes, q, SubSeq(path, 3, Len(path)), inner.by)

-----------------------------------------------------------------------------
(* Logins and the limiter of their attempts. *)

(* allow: whether the password is looked at, and the windows afterwards. *)
allow(k) ==
  LET live == {x \in DOMAIN windows : windows[x].age < LoginWindow}
      full == k \notin DOMAIN windows /\ Cardinality(DOMAIN windows) >= MaxLoginWindows
      kept == IF full THEN live ELSE DOMAIN windows
      open(n) == [x \in kept \cup {k} |-> IF x = k THEN n ELSE windows[x]]
  IN CASE k \in live /\ windows[k].attempts >= LoginAttempts -> [ok |-> FALSE, windows |-> windows]
       [] k \in live /\ windows[k].attempts < LoginAttempts ->
            [ok |-> TRUE, windows |-> [windows EXCEPT ![k].attempts = @ + 1]]
       [] k \notin live /\ Cardinality(kept \ {k}) >= MaxLoginWindows -> [ok |-> FALSE, windows |-> windows]
       [] k \notin live /\ Cardinality(kept \ {k}) < MaxLoginWindows ->
            [ok |-> TRUE, windows |-> open([age |-> 0, attempts |-> 1])]

reset(k, w) == Restrict(w, DOMAIN w \ {k})

loginAnswer(k, right) == IF ~allow(k).ok THEN 429 ELSE IF accountOff \/ ~right THEN 401 ELSE 200

login(k, right) ==
  /\ windows' = IF loginAnswer(k, right) = 200 THEN reset(k, allow(k).windows) ELSE allow(k).windows
  /\ failed' = [failed EXCEPT ![k] =
       CASE loginAnswer(k, right) = 200 -> [a \in DOMAIN @ |-> 0]
         [] loginAnswer(k, right) = 401 -> [@ EXCEPT ![0] = @ + 1]
         [] OTHER -> @]
  /\ UNCHANGED <<roles, platform, accountOff, keyRole>>

(* Time passes for every window; an expired one stays until it is needed. *)
Elapse ==
  /\ windows' = [k \in DOMAIN windows |->
       [windows[k] EXCEPT !.age = IF @ < LoginWindow THEN @ + 1 ELSE @]]
  /\ failed' = [k \in LoginKey |-> [a \in DOMAIN failed[k] |-> IF a = 0 THEN 0 ELSE failed[k][a - 1]]]
  /\ UNCHANGED <<roles, platform, accountOff, keyRole>>

(* An administrator changes a membership or disables the account, in between. *)
ChangeMembership ==
  /\ \E t \in Tenant : \E r \in MemberRoles[t] \ {roles[t]} : roles' = [roles EXCEPT ![t] = r]
  /\ UNCHANGED <<platform, accountOff, keyRole, windows, failed>>
DisableAccount ==
  /\ ~accountOff /\ accountOff' = TRUE
  /\ UNCHANGED <<roles, platform, keyRole, windows, failed>>

ApiInit ==
  /\ roles \in {f \in [Tenant -> UNION Range(MemberRoles)] : \A t \in Tenant : f[t] \in MemberRoles[t]}
  /\ platform \in BOOLEAN /\ accountOff = FALSE
  /\ keyRole \in {"none", "viewer", "developer"}
  /\ windows = <<>> /\ failed = [k \in LoginKey |-> [a \in 0 .. LoginWindow - 1 |-> 0]]

LoginNext == Elapse \/ \E k \in LoginKey, right \in BOOLEAN : login(k, right)

-----------------------------------------------------------------------------
(* Whatever the order of logins of several accounts, the passwords refused for one   *)
(* account and address within any stretch as long as the window, and since its last  *)
(* success, are fewer than twice the attempts of a window, and the table of windows   *)
(* stays within its size (loginLimiter.allow, reset).                              *)
LoginsAreLimited ==
  /\ \A k \in LoginKey : SumFunction(failed[k]) < 2 * LoginAttempts
  /\ Cardinality(DOMAIN windows) <= MaxLoginWindows
=============================================================================
