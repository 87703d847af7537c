-------------------------- MODULE MCAdministration --------------------------
(***************************************************************************)
(* What users, administrators and executors change through the API, one        *)
(* scenario each; a behaviour stays in one:                                   *)
(*                                                                         *)
(*   groups         Registry: two editors of a group, every role and body       *)
(*   registrations  Registry: two heartbeats, one editor that switches modes    *)
(*   jobs           JobDefinitions: two clients and a job                       *)
(*   channels       Channels: two clients and a notification channel            *)
(*   clusters       Clusters: two administrators and a Kubernetes cluster       *)
(*   tenants        Tenancy: two administrators, two users                      *)
(*   deliveries     DeliveryHistory: three deliveries read page by page          *)
(*   log, logs      RunLogs: one sender and a follower, two senders             *)
(*   commands       CommandLine: schedulerctl and the routes of the API          *)
(*   logins         ApiServer: three accounts that log in, two windows           *)
(***************************************************************************)
EXTENDS Naturals

VARIABLES
  scenario,
  group, nodeRow, nodeKey, revision, leases, reg, registrar, beat, unregister, crossing, seen, edited,
  job, revisions, known, req,
  channel, alertJobs, chKnown, chReq,
  cluster, referring, clKnown, clReq, clAnswer,
  tenant, accounts, disabled, role, tenantLock, removal, boot, booted, tnAnswer,
  entry, hsReader, hsFilter, hsCursor, hsShown, hsOwed,
  logRun, logs, drawn, lastId, cursor, printed,
  pc, cli, request, answer, roles, platform, accountOff, keyRole, windows, failed

Groups == INSTANCE Registry WITH
  Call <- {}, Editor <- {"e1", "e2"}, Caller <- {"none", "viewer", "developer"},
  Body <- [mode : {"", "manual", "other"},
           addresses : {{}, {"grpc://a", "grpc://a/"}, {"http://b"}, {"grpc://a", "mailto:c"}}],
  MaxVersion <- 3

Registrations == INSTANCE Registry WITH
  Call <- {"h1", "h2"}, Editor <- {"e1"}, Caller <- {"developer"},
  Body <- {[mode |-> "manual", addresses |-> {"http://b"}], [mode |-> "", addresses |-> {}]},
  MaxVersion <- 2

JobBody(script, handler, headers, login) ==
  [version |-> 0, script |-> script, handler |-> handler, cluster |-> FALSE, headers |-> headers,
   login |-> login, required |-> {}, excluded |-> {}, timeout |-> 0, enabled |-> FALSE]
Script(language, source) == [language |-> language, source |-> source]
Login(user, password) == [user |-> user, password |-> password]
JobBodies ==
  {JobBody(Script("", ""), "", "h1", Login("omitted", "")),
   JobBody(Script("docker", "a"), "__docker__", "omitted", Login("omitted", "")),
   JobBody(Script("docker", "b"), "__docker__", "h2", Login("u", "p")),
   JobBody(Script("docker", "b"), "__docker__", "omitted", Login("u", "")),
   JobBody(Script("docker", "a"), "__docker__", "h2", Login("clear", "")),
   JobBody(Script("shell", "a"), "__script__", "omitted", Login("omitted", "")),
   [JobBody(Script("shell", "a"), "__script__", "h1", Login("omitted", ""))
      EXCEPT !.required = {"gpu"}, !.excluded = {"gpu"}]}

Jobs == INSTANCE JobDefinitions WITH Client <- {"a", "b"}, Body <- JobBodies, MaxVersion <- 3

NoConfig == [url |-> "", auth |-> "", key |-> FALSE, to |-> {}, template |-> ""]
Web == [NoConfig EXCEPT !.url = "https"]
ChannelOf(kind, config, events, all, scope) ==
  [version |-> 0, kind |-> kind, config |-> config, events |-> events, all |-> all, jobs |-> scope,
   max_attempts |-> 0, initial |-> 0, max |-> 0, enabled |-> FALSE, deleted |-> FALSE]
ChannelBodies ==
  {ChannelOf("webhook", Web, {}, FALSE, {}),
   [ChannelOf("webhook", NoConfig, {<<"failed">>, <<"job.run.", "failed">>}, FALSE, {"j1"}) EXCEPT !.max = 86400],
   ChannelOf("webhook", NoConfig, {}, TRUE, {"j1"}),
   ChannelOf("dingtalk", [Web EXCEPT !.auth = "hmac_sha256", !.key = TRUE], {}, FALSE, {"j1", "j2"}),
   ChannelOf("dingtalk", NoConfig, {}, TRUE, {}),
   [ChannelOf("email", [NoConfig EXCEPT !.to = {"a"}], {<<"pending">>}, FALSE, {})
      EXCEPT !.initial = 3600, !.max = 3600],
   [ChannelOf("email", [NoConfig EXCEPT !.to = {"bad"}], {}, FALSE, {}) EXCEPT !.initial = 400]}

Alerts == INSTANCE Channels WITH
  ChannelClient <- {"a", "b"}, ChannelBody <- ChannelBodies, AlertJob <- {"j1", "j2"},
  MaxChannelVersion <- 3

ClusterOf(access, kubeconfig, token, max) ==
  [version |-> 0, mode |-> access, server |-> IF access = "service_account" THEN "https" ELSE "",
   credentials |-> [kubeconfig |-> kubeconfig, token |-> token, ca |-> ""], max_concurrent_jobs |-> max]
ClusterBodies ==
  {ClusterOf("kubeconfig", "k1", "", 0), ClusterOf("kubeconfig", "k2", "", 1),
   ClusterOf("kubeconfig", "", "", 0), ClusterOf("service_account", "", "", 0),
   ClusterOf("service_account", "", "t", 0)}

Kubernetes == INSTANCE Clusters WITH
  ClusterAdmin <- {"a", "b"}, ClusterBody <- ClusterBodies, ClusterJob <- {"j1"}, MaxClusterVersion <- 3

Tenants == INSTANCE Tenancy WITH PlatformAdmin <- {"a1", "a2"}, Account <- {"u1"}, NewAccount <- {"u2"},
  AdminEmail <- "u2"

Deliveries == INSTANCE DeliveryHistory WITH
  DeliveryId <- {1, 2, 3}, Instant <- {3, 4, 5}, DefaultLimit <- 2, MaxLimit <- 2,
  HistoryLimits <- {[given |-> TRUE, n |-> 0], [given |-> TRUE, n |-> 1], [given |-> FALSE, n |-> 0]}

Log == INSTANCE RunLogs WITH
  Sender <- {"s1"}, Entry <- {"x", "y"}, Limit <- 1, MaxId <- 3, Bad <- "bad"
Logs == INSTANCE RunLogs WITH
  Sender <- {"s1", "s2"}, Entry <- {"x", "y"}, Limit <- 1, MaxId <- 3, Bad <- "bad"

Ctl == INSTANCE CommandLine WITH
  ContextPath <- <<"scheduler">>, TenantNames <- <<"A", "B">>, KeyTenant <- "A",
  MemberRoles <- [A |-> {"none", "admin"}, B |-> {"none", "developer"}],
  LoginKey <- {"k1"}, OperatorKey <- "k1", LoginWindow <- 1, LoginAttempts <- 1, MaxLoginWindows <- 1
Logins == INSTANCE CommandLine WITH
  ContextPath <- <<>>, TenantNames <- <<"A", "B">>, KeyTenant <- "A",
  MemberRoles <- [A |-> {"none"}, B |-> {"none"}],
  LoginKey <- {"k1", "k2", "k3"}, OperatorKey <- "k1", LoginWindow <- 2, LoginAttempts <- 2, MaxLoginWindows <- 2

-----------------------------------------------------------------------------
registryVars == <<group, nodeRow, nodeKey, revision, leases, reg, registrar, beat, unregister, crossing,
                  seen, edited>>
jobVars == <<job, revisions, known, req>>
channelVars == <<channel, alertJobs, chKnown, chReq>>
clusterVars == <<cluster, referring, clKnown, clReq, clAnswer>>
tenantVars == <<tenant, accounts, disabled, role, tenantLock, removal, boot, booted, tnAnswer>>
deliveryVars == <<entry, hsReader, hsFilter, hsCursor, hsShown, hsOwed>>
logVars == <<logRun, logs, drawn, lastId, cursor, printed>>
definitionVars == <<registryVars, jobVars, channelVars, clusterVars>>
otherVars == <<tenantVars, deliveryVars, logVars>>
cliVars == <<pc, cli, request, answer>>
callerVars == <<cliVars, roles, platform, accountOff, keyRole, windows, failed>>
allVars == <<scenario, definitionVars, otherVars, callerVars>>

CallerAtRest == ~platform /\ keyRole = "none" /\ cli = [token |-> "jwt", tenant |-> "", password |-> "none"]

MCInit ==
  /\ scenario \in {"groups", "registrations", "jobs", "channels", "clusters", "tenants", "deliveries",
                   "log", "logs", "commands", "logins"}
  /\ \/ scenario = "groups" /\ Groups!RegistryInit
     \/ scenario = "registrations" /\ Registrations!RegistryInit
     \/ scenario \notin {"groups", "registrations"} /\ Groups!RegistryInit /\ group.version = 0
  /\ Jobs!JobInit /\ Alerts!ChannelInit /\ Kubernetes!ClusterInit /\ Tenants!TenancyInit
  /\ Deliveries!HistoryInit
  /\ IF scenario = "logs" THEN Logs!LogInit ELSE Log!LogInit
  /\ IF scenario = "commands" THEN Ctl!CommandInit ELSE Logins!CommandInit /\ CallerAtRest

DefinitionNext ==
  \/ scenario = "groups" /\ Groups!RegistryNext /\ UNCHANGED <<jobVars, channelVars, clusterVars>>
  \/ scenario = "registrations" /\ Registrations!RegistryNext /\ UNCHANGED <<jobVars, channelVars, clusterVars>>
  \/ scenario = "jobs" /\ Jobs!JobNext /\ UNCHANGED <<registryVars, channelVars, clusterVars>>
  \/ scenario = "channels" /\ Alerts!ChannelNext /\ UNCHANGED <<registryVars, jobVars, clusterVars>>
  \/ scenario = "clusters" /\ Kubernetes!ClusterNext /\ UNCHANGED <<registryVars, jobVars, channelVars>>

OtherNext ==
  \/ scenario = "tenants" /\ Tenants!TenancyNext /\ UNCHANGED <<deliveryVars, logVars>>
  \/ scenario = "deliveries" /\ Deliveries!HistoryNext /\ UNCHANGED <<tenantVars, logVars>>
  \/ scenario = "log" /\ Log!LogNext /\ UNCHANGED <<tenantVars, deliveryVars>>
  \/ scenario = "logs" /\ Logs!LogNext /\ UNCHANGED <<tenantVars, deliveryVars>>

CallerNext ==
  \/ scenario = "commands" /\ Ctl!CommandNext
  \/ scenario = "logins" /\ Logins!LoginNext /\ UNCHANGED cliVars

MCNext ==
  /\ scenario' = scenario
  /\ \/ DefinitionNext /\ UNCHANGED <<otherVars, callerVars>>
     \/ OtherNext /\ UNCHANGED <<definitionVars, callerVars>>
     \/ CallerNext /\ UNCHANGED <<definitionVars, otherVars>>

MCSpec == MCInit /\ [][MCNext]_allVars

-----------------------------------------------------------------------------
(* What an update leaves out stays as it is when the update takes effect, although *)
(* it was read before the transaction: the headers and the login of a job, the      *)
(* configuration of a channel, the credentials of a cluster (updateJob,            *)
(* NotificationService.Update, KubernetesClusterService.Update).                 *)
OmittedIsKept ==
  [][ /\ scenario = "jobs" => Jobs!OmittedIsKept
      /\ scenario = "channels" => Alerts!ConfigIsKept
      /\ scenario = "clusters" => Kubernetes!CredentialsAreKept ]_allVars



(* A reader gets what is there: pages of deliveries miss and repeat none, a channel    *)
(* can be saved as it was read, a follower of a log prints every entry once and, as   *)
(* long as appends do not overlap, skips none (ListHistory, ToProto, ListRunLogs).   *)
ReadsAreTrue ==
  /\ scenario = "deliveries" => Deliveries!PagesAreComplete
  /\ scenario = "channels" => Alerts!SavedAsRead
  /\ scenario = "log" => Log!EntriesOnce /\ Log!NothingSkipped
  /\ scenario = "logs" => Logs!EntriesOnce

=============================================================================
