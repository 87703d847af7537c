------------------------------ MODULE Registry ------------------------------
(***************************************************************************)
(* One executor group and one executor that registers with it.  A             *)
(* registration is a key in etcd under a lease and a row in PostgreSQL that    *)
(* expires; ExecutorRegistry writes both, one call after the other             *)
(* (internal/discovery/executor_registry.go, internal/store/executor.go,       *)
(* internal/core/executor_service.go, internal/api/executors.go).  The         *)
(* executor's registrar sends heartbeats and, when it stops, one               *)
(* unregistration (pkg/executor/heartbeat.go, grpc_registrar.go).              *)
(***************************************************************************)
EXTENDS Answers, FiniteSets, Sequences

CONSTANTS Call,        \* the heartbeats the executor sends; each has its lease
          Editor,      \* users of the API that edit the group
          Caller,      \* the roles they have
          Body,        \* the groups they send
          MaxVersion   \* bound on edits

VARIABLES
  group,      \* row of executor_groups with its static nodes; version 0: none
  nodeRow,    \* the executor's row of executor_nodes: "none", "live", "expired"
  nodeKey,    \* the executor's key: lease and ModRevision; revision 0: none
  revision,   \* revision of etcd
  leases,     \* leases that are alive
  reg,        \* calls of Register: where they are and what they read
  registrar,  \* the executor's loop
  beat,       \* the heartbeat it waits for
  unregister, \* its unregistration
  crossing,   \* calls in flight when the unregistration started
  seen,       \* what each editor read last
  edited      \* answer to the latest edit

groupVars == <<group, seen, edited>>
nodeVars == <<nodeRow, nodeKey, revision, leases, reg>>
procVars == <<registrar, beat, unregister, crossing>>
registryVars == <<groupVars, nodeVars, procVars>>

NoCall == "no call"
NoKey == [lease |-> NoCall, rev |-> 0]
NoGroup == [version |-> 0, mode |-> "", static |-> {}]
Deleted == [version |-> 0, mode |-> "deleted", static |-> {}]
InFlight == {c \in Call : reg[c].pc \in {"put", "get", "read", "write"}}

RegistryInit ==
  /\ group \in {NoGroup, [version |-> 1, mode |-> "automatic", static |-> {}]}
  /\ nodeRow = "none" /\ nodeKey = NoKey /\ revision = 0 /\ leases = {}
  /\ reg = [c \in Call |-> [pc |-> "unsent", rev |-> 0, automatic |-> FALSE]]
  /\ registrar = "ticking" /\ beat = NoCall /\ unregister = "none" /\ crossing = {}
  /\ seen = [e \in Editor |-> 0] /\ edited = 0

-----------------------------------------------------------------------------
\* Editing the group

\* Addresses as they are typed, and without spaces and trailing slashes; the
\* one that starts with mailto has no host.
Trimmed(address) == IF address = "grpc://a/" THEN "grpc://a" ELSE address
validExecutorAddress(address) == address # "mailto:c"

\* normalizeExecutorGroupModel: an empty mode means automatic; a manual group
\* needs addresses and an automatic one has none.
normalizeExecutorGroupModel(in) ==
  LET mode == IF in.mode = "" THEN "automatic" ELSE in.mode
      addresses == {Trimmed(a) : a \in in.addresses}
  IN [ok |-> /\ mode \in {"automatic", "manual"}
             /\ \A a \in addresses : validExecutorAddress(a)
             /\ (mode = "manual") = (addresses # {}),
      mode |-> mode, static |-> addresses]

Edited(err, code) == edited' = respond(err, code) /\ UNCHANGED <<group, nodeRow>>

CreateExecutorGroup(in) ==
  /\ group = NoGroup   \* one group: the model holds no second
  /\ group' = [version |-> 1, mode |-> in.mode, static |-> in.static]
  /\ edited' = respond("none", 201) /\ UNCHANGED nodeRow

CreateGroup(in) ==
  LET normal == normalizeExecutorGroupModel(in)
  IN IF normal.ok THEN CreateExecutorGroup(normal) ELSE Edited("validation", 201)

\* One transaction: the row of the version the caller read, the static nodes,
\* and for a manual group the end of all dynamic ones.
UpdateExecutorGroup(in, version) ==
  IF group.version = 0 \/ version # group.version THEN Edited("conflict", 200)
  ELSE /\ group' = [version |-> group.version + 1, mode |-> in.mode, static |-> in.static]
       /\ nodeRow' = IF in.mode = "manual" THEN "none" ELSE nodeRow
       /\ edited' = respond("none", 200)

UpdateGroup(in, version) ==
  LET normal == normalizeExecutorGroupModel(in)
  IN IF normal.ok /\ version >= 1 THEN UpdateExecutorGroup(normal, version)
     ELSE Edited("validation", 200)

\* Nodes are deleted with their group; a job that uses it keeps it.
DeleteExecutorGroup(version, used) ==
  IF group.version = 0 \/ version # group.version THEN Edited("conflict", 204)
  ELSE IF used THEN Edited("inUse", 204)
  ELSE group' = Deleted /\ nodeRow' = "none" /\ edited' = respond("none", 204)

DeleteGroup(version, used) ==
  IF version < 1 THEN Edited("validation", 204) ELSE DeleteExecutorGroup(version, used)

\* The handlers: role, body, service.
Refuse(checks) ==
  /\ FirstRefusal(checks) # 0 /\ edited' = FirstRefusal(checks)
  /\ UNCHANGED <<group, nodeRow>>

createExecutorGroup(caller, readable, in) ==
  \/ Refuse(<<requireTenantWrite(caller), decode(readable)>>)
  \/ canWriteTenant(caller) /\ readable /\ CreateGroup(in)

updateExecutorGroup(caller, readable, in, version) ==
  \/ Refuse(<<requireTenantWrite(caller), decode(readable)>>)
  \/ canWriteTenant(caller) /\ readable /\ UpdateGroup(in, version)

deleteExecutorGroup(caller, version, used) ==
  \/ Refuse(<<requireTenantWrite(caller), IF version < 1 THEN 400 ELSE 0>>)
  \/ canWriteTenant(caller) /\ version >= 1 /\ DeleteGroup(version, used)

\* ListExecutorGroups: an editor reads the version it will edit.
listExecutorGroups(e) ==
  /\ seen[e] # group.version /\ seen' = [seen EXCEPT ![e] = group.version]
  /\ UNCHANGED <<group, nodeRow, edited>>

EditGroup ==
  /\ \E e \in Editor :
       \/ listExecutorGroups(e)
       \/ /\ group.version < MaxVersion /\ UNCHANGED seen
          /\ \E caller \in Caller, readable \in BOOLEAN, in \in Body :
                   \/ createExecutorGroup(caller, readable, in)
                   \/ updateExecutorGroup(caller, readable, in, seen[e])
       \/ /\ UNCHANGED seen
          /\ \E caller \in Caller, used \in BOOLEAN :
                deleteExecutorGroup(caller, seen[e], used)
  /\ UNCHANGED <<nodeKey, revision, leases, reg, procVars>>

-----------------------------------------------------------------------------
\* ExecutorRegistry.RegisterExecutorNode: lease, key, read back, row.  Every
\* call may fail, also because its caller has gone.

Step(c, field, value) == reg' = [reg EXCEPT ![c].pc = value, ![c].rev = field]

\* Revoke ends the lease and the key that is still attached to it.
Revoke(c) ==
  /\ leases' = leases \ {c}
  /\ nodeKey' = IF nodeKey.lease = c THEN NoKey ELSE nodeKey

\* Put: a revision of its own.
Publish(c) ==
  /\ reg[c].pc = "put"
  /\ \/ /\ c \in leases /\ revision' = revision + 1
        /\ nodeKey' = [lease |-> c, rev |-> revision']
        /\ Step(c, 0, "get") /\ UNCHANGED leases
     \/ Revoke(c) /\ Step(c, 0, "failed") /\ UNCHANGED revision
  /\ UNCHANGED nodeRow

\* Get: the revision of whatever the key holds by now.
ReadBack(c) ==
  /\ reg[c].pc = "get"
  /\ \/ /\ nodeKey # NoKey
        /\ Step(c, nodeKey.rev, "read") /\ UNCHANGED <<nodeKey, leases>>
     \/ Revoke(c) /\ Step(c, 0, "failed")
  /\ UNCHANGED <<revision, nodeRow>>

\* The INSERT ... SELECT finds the group automatic, or not, in its snapshot.
ReadGroup(c) ==
  /\ reg[c].pc = "read"
  /\ reg' = [reg EXCEPT ![c].pc = "write", ![c].automatic = group.mode = "automatic"]
  /\ UNCHANGED <<nodeRow, nodeKey, revision, leases>>


\* The transaction that deletes the key if it is still the one that was read,
\* and the end of the lease.
RollBack(c) ==
  /\ leases' = leases \ {c}
  /\ nodeKey' = IF nodeKey.rev = reg[c].rev \/ nodeKey.lease = c THEN NoKey ELSE nodeKey
  /\ Step(c, reg[c].rev, "failed")
  /\ UNCHANGED <<revision, nodeRow>>

\* The row appears if the group is still there (its foreign key).
WriteRow(c) ==
  /\ reg[c].pc = "write"
  /\ \/ /\ reg[c].automatic /\ group.version # 0
        /\ nodeRow' = "live" /\ Step(c, reg[c].rev, "done")
        /\ UNCHANGED <<nodeKey, revision, leases>>
     \/ RollBack(c)

RegisterExecutorNode(c) == Publish(c) \/ ReadBack(c) \/ ReadGroup(c) \/ WriteRow(c)

\* RegisterNode: the schemes it knows are fewer than those of the registrar.
RegisterNode(c, address) ==
  IF address = "grpcs://a" THEN Step(c, 0, "failed") /\ UNCHANGED leases
  ELSE Step(c, 0, "put") /\ leases' = leases \cup {c}   \* Grant

\* The handler asks for a role that may write.
registerExecutorNode(c, caller, address) ==
  IF requireTenantWrite(caller) # 0 THEN Step(c, 0, "failed") /\ UNCHANGED leases
  ELSE RegisterNode(c, address)

\* Time: a lease ends with its key, a row is no longer live.
LeaseExpires(c) == c \in leases /\ Revoke(c) /\ UNCHANGED <<revision, nodeRow, reg>>
RowExpires == nodeRow = "live" /\ nodeRow' = "expired" /\ UNCHANGED <<nodeKey, revision, leases, reg>>

\* ListExecutorNodes: static nodes, stored ones unless only live ones are asked
\* for, and the keys whose lease is alive.
ListExecutorNodes(liveOnly) ==
  group.static
    \cup (IF nodeRow # "none" /\ ~liveOnly THEN {"the executor"} ELSE {})
    \cup (IF nodeKey.lease \in leases THEN {"the executor"} ELSE {})

-----------------------------------------------------------------------------
\* The registrar: one heartbeat after the other, each given up after a while;
\* when its context ends, one unregistration.

heartbeat(c) ==
  /\ registrar = "ticking" /\ reg[c].pc = "unsent"
  /\ \E caller \in {"viewer", "developer"}, address \in {"grpc://a", "grpcs://a"} :
       registerExecutorNode(c, caller, address)
  /\ registrar' = "beating" /\ beat' = c
  /\ UNCHANGED <<nodeRow, nodeKey, revision, unregister, crossing, groupVars>>

\* The answer, or the timeout of the client: the call may still be running.
heartbeatReturns ==
  /\ registrar = "beating"
  /\ registrar' = "ticking" /\ beat' = NoCall
  /\ UNCHANGED <<nodeVars, unregister, crossing, groupVars>>

Stop ==
  /\ registrar \in {"ticking", "beating"}
  /\ registrar' = "leaving" /\ beat' = NoCall
  /\ unregister' = "key" /\ crossing' = InFlight
  /\ UNCHANGED <<nodeVars, groupVars>>

Crash ==
  /\ registrar # "gone" /\ registrar' = "gone" /\ beat' = NoCall
  /\ UNCHANGED <<nodeVars, unregister, crossing, groupVars>>

\* ExecutorRegistry.UnregisterExecutorNode deletes the key first.
UnregisterKey ==
  /\ unregister = "key"
  /\ \/ unregister' = "row" /\ nodeKey' = NoKey
     \/ unregister' = "failed" /\ UNCHANGED nodeKey
  /\ UNCHANGED <<nodeRow, revision, leases, reg, registrar, beat, crossing, groupVars>>

\* Then the store deletes the row, holding the group's, unless the group is
\* manual or gone.
UnregisterExecutorNode ==
  /\ unregister = "row"
  /\ \/ group.mode = "automatic" /\ unregister' = "done" /\ nodeRow' = "none"
     \/ unregister' = "failed" /\ UNCHANGED nodeRow
  /\ UNCHANGED <<nodeKey, revision, leases, reg, registrar, beat, crossing, groupVars>>

Leave ==
  /\ registrar = "leaving" /\ registrar' = "gone"
  /\ UNCHANGED <<nodeVars, beat, unregister, crossing, groupVars>>

RegistryNext ==
  \/ EditGroup
  \/ \E c \in Call :
       \/ heartbeat(c)
       \/ (RegisterExecutorNode(c) \/ LeaseExpires(c)) /\ UNCHANGED <<procVars, groupVars>>
  \/ RowExpires /\ UNCHANGED <<procVars, groupVars>>
  \/ heartbeatReturns \/ Stop \/ Crash
  \/ UnregisterKey \/ UnregisterExecutorNode \/ Leave

RegistrySpec == RegistryInit /\ [][RegistryNext]_registryVars

\* Calls come to an end and time passes.
RegistryFairness ==
  /\ \A c \in Call :
       /\ WF_registryVars(RegisterExecutorNode(c) /\ UNCHANGED <<procVars, groupVars>>)
       /\ WF_registryVars(LeaseExpires(c) /\ UNCHANGED <<procVars, groupVars>>)
  /\ WF_registryVars(RowExpires /\ UNCHANGED <<procVars, groupVars>>)

-----------------------------------------------------------------------------
(* A registration that failed leaves no key behind (the revocations and the   *)
(* transaction of RegisterExecutorNode), and an executor whose unregistration  *)
(* was acknowledged is listed nowhere, unless one of its heartbeats was still   *)
(* in flight when it left (UnregisterExecutorNode of the registry).            *)
RegistrationsAgree ==
  /\ \A c \in Call : reg[c].pc = "failed" => nodeKey.lease # c
  /\ unregister = "done" /\ crossing = {} =>
       ListExecutorNodes(FALSE) = group.static

(* An executor that has gone, with or without an unregistration, is forgotten   *)
(* by etcd and by the routing in the end, also when one of its heartbeats came   *)
(* in late (the lease and expires_at of RegisterExecutorNode).                 *)
GoneIsForgotten == registrar = "gone" ~> [](nodeKey = NoKey /\ nodeRow # "live")

(* An edit that is accepted replaces the version its caller has read, so of     *)
(* two callers that read the same version one is refused (UpdateExecutorGroup,  *)
(* DeleteExecutorGroup).                                                       *)
EditsReplaceWhatWasRead ==
  group' # group /\ group # NoGroup =>
    \E e \in Editor : seen[e] = group.version /\ edited' \in {200, 204}
=============================================================================
