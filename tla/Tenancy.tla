------------------------------- MODULE Tenancy -------------------------------
(* A tenant, its members and its owners, as platform administrators change   *)
(* them at the same time.  DeleteMembership is a transaction of three         *)
(* statements under a lock of the tenant's row; READ COMMITTED lets a role    *)
(* change between two of them.  tnAnswer is the status code of the last       *)
(* request.                                                                   *)
EXTENDS Answers, FiniteSets

CONSTANTS PlatformAdmin,  \* administrators working at the same time
          Account,        \* users that exist from the start
          NewAccount,     \* users that may be created
          AdminEmail      \* ADMIN_EMAIL of the bootstrap, one of the users

VARIABLES tenant,     \* "none", "created"
          accounts,   \* users that exist
          disabled,   \* users that were disabled
          role,       \* the membership of a user, "none" without one
          tenantLock, \* who holds the tenant's row
          removal,    \* admin -> their DeleteMembership
          boot,       \* who runs a bootstrap that found no tenant
          booted,     \* tenants the bootstrap has made
          tnAnswer

bootVars == <<boot, booted>>
tenancyVars == <<tenant, accounts, disabled, role, tenantLock, removal, bootVars, tnAnswer>>

NoAdmin == "nobody"
NoRemoval == [pc |-> "idle", user |-> "nobody", owners |-> 0, demoted |-> FALSE]
Users == Account \cup NewAccount
Owners == {u \in Users : role[u] = "owner"}

TenancyInit ==
  /\ tenant = "none" /\ accounts = Account /\ disabled = {}
  /\ role = [u \in Users |-> "none"]
  /\ tenantLock = NoAdmin
  /\ removal = [a \in PlatformAdmin |-> NoRemoval]
  /\ boot = {} /\ booted = 0
  /\ tnAnswer = 0

\* CreateUser: the e-mail is unique, any failure reads as a user that exists.
CreateUser(u) ==
  /\ accounts' = accounts \cup {u}
  /\ tnAnswer' = IF u \in accounts THEN 409 ELSE 201

createUser(isAdmin, readable, u) ==
  LET refused == FirstRefusal(<<requirePlatformAdmin(isAdmin), decode(readable)>>)
  IN /\ IF refused # 0 THEN tnAnswer' = refused /\ UNCHANGED accounts
        ELSE CreateUser(u)
     /\ UNCHANGED <<tenant, disabled, role, tenantLock, removal, bootVars>>

\* SetUserDisabled: of a user that does not exist it changes nothing.
SetUserDisabled(u, off) ==
  disabled' = (disabled \ {u}) \cup (IF off /\ u \in accounts THEN {u} ELSE {})

patchUser(isAdmin, u, off) ==
  LET refused == requirePlatformAdmin(isAdmin)
  IN /\ IF refused # 0 THEN tnAnswer' = refused /\ UNCHANGED disabled
        ELSE SetUserDisabled(u, off) /\ tnAnswer' = 204
     /\ UNCHANGED <<tenant, accounts, role, tenantLock, removal, bootVars>>

\* AddMembership: inserts the row or replaces its role; the user must exist.
\* Replacing takes no lock on the tenant's row, inserting waits for it (the
\* foreign key).
AddMembership(u, r) ==
  /\ role[u] = "none" => tenantLock = NoAdmin
  /\ role' = [role EXCEPT ![u] = IF u \in accounts THEN r ELSE @]
  /\ removal' = [a \in PlatformAdmin |->
                   [removal[a] EXCEPT !.demoted =
                      @ \/ (removal[a].pc # "idle" /\ role[u] = "owner" /\ r # "owner")]]

\* createTenant: the tenant stays when its owner cannot be added.
createTenant(isAdmin, owner) ==
  /\ tenant = "none"
  /\ \/ /\ requirePlatformAdmin(isAdmin) # 0
        /\ tnAnswer' = 403 /\ UNCHANGED <<tenant, role, removal>>
     \/ /\ requirePlatformAdmin(isAdmin) = 0 /\ tenant' = "created"
        /\ IF owner = "" THEN tnAnswer' = 201 /\ UNCHANGED <<role, removal>>
           ELSE /\ AddMembership(owner, "owner")
                /\ tnAnswer' = IF owner \in accounts THEN 201 ELSE respond("other", 201)
  /\ UNCHANGED <<accounts, disabled, tenantLock, bootVars>>

\* putMembership.
putMembership(isAdmin, u, r) ==
  LET refused == FirstRefusal(<<requirePlatformAdmin(isAdmin),
                                IF r \in Role \ {"none"} THEN 0 ELSE 400>>)
  IN /\ tenant = "created"
     /\ IF refused # 0 THEN tnAnswer' = refused /\ UNCHANGED <<role, removal>>
        ELSE /\ AddMembership(u, r)
             /\ tnAnswer' = IF u \in accounts THEN 204 ELSE respond("other", 204)
     /\ UNCHANGED <<tenant, accounts, disabled, tenantLock, bootVars>>
-----------------------------------------------------------------------------
\* deleteMembership: the handler; the transaction begins.
deleteMembership(isAdmin, a, u) ==
  /\ removal[a].pc = "idle"
  /\ IF requirePlatformAdmin(isAdmin) # 0
     THEN tnAnswer' = 403 /\ UNCHANGED removal
     ELSE /\ removal' = [removal EXCEPT ![a] = [NoRemoval EXCEPT !.pc = "begun", !.user = u]]
          /\ UNCHANGED tnAnswer
  /\ UNCHANGED <<tenant, accounts, disabled, role, tenantLock, bootVars>>


\* The row is locked, then the owners are counted.
CountOwners(a) ==
  /\ removal[a].pc = "begun" /\ tenant = "created" /\ tenantLock = NoAdmin
  /\ tenantLock' = a
  /\ removal' = [removal EXCEPT ![a].pc = "counted", ![a].owners = Cardinality(Owners)]
  /\ UNCHANGED <<tenant, accounts, disabled, role, tnAnswer, bootVars>>

NoTenant(a) ==
  /\ removal[a].pc = "begun" /\ tenant = "none"
  /\ removal' = [removal EXCEPT ![a] = NoRemoval]
  /\ tnAnswer' = respond("notFound", 204)
  /\ UNCHANGED <<tenant, accounts, disabled, role, tenantLock, bootVars>>

\* The member's role is read; the last owner stays; the commit.
DeleteMembership(a) ==
  LET u == removal[a].user
      err == IF role[u] = "none" THEN "notFound"
             ELSE IF role[u] = "owner" /\ removal[a].owners <= 1 THEN "conflict"
             ELSE "none"
  IN /\ removal[a].pc = "counted"
     /\ role' = IF err = "none" THEN [role EXCEPT ![u] = "none"] ELSE role
     /\ tenantLock' = IF tenantLock = a THEN NoAdmin ELSE tenantLock
     /\ removal' = [removal EXCEPT ![a] = NoRemoval]
     /\ tnAnswer' = respond(err, 204)
     /\ UNCHANGED <<tenant, accounts, disabled, bootVars>>

-----------------------------------------------------------------------------
\* The bootstrap program, which every deployment may start again: it looks
\* whether the administrator of ADMIN_EMAIL has a tenant already.
bootstrapChecks(a) ==
  /\ a \notin boot /\ role[AdminEmail] = "none"
  /\ boot' = boot \cup {a}
  /\ UNCHANGED <<tenant, accounts, disabled, role, tenantLock, removal, booted, tnAnswer>>

\* One transaction inserts the tenant, its key, the user and the membership; an
\* e-mail in use undoes it all.  (The model has one tenant, so a bootstrap for a
\* new user is not followed beside another tenant.)
bootstrapCommits(a) ==
  LET taken == AdminEmail \in accounts
  IN /\ a \in boot /\ (tenant = "none" \/ taken)
     /\ boot' = boot \ {a}
     /\ IF taken THEN UNCHANGED <<tenant, accounts, role, booted>>
        ELSE /\ tenant' = "created" /\ accounts' = accounts \cup {AdminEmail}
             /\ role' = [role EXCEPT ![AdminEmail] = "owner"]
             /\ booted' = booted + 1
     /\ UNCHANGED <<disabled, tenantLock, removal, tnAnswer>>

TenancyNext ==
  \/ \E isAdmin \in BOOLEAN, u \in Users :
       \/ createUser(isAdmin, TRUE, u)
       \/ \E off \in BOOLEAN : patchUser(isAdmin, u, off)
       \/ \E owner \in {"", u} : createTenant(isAdmin, owner)
       \/ \E r \in {"owner", "viewer", "other"} : putMembership(isAdmin, u, r)
       \/ \E a \in PlatformAdmin : deleteMembership(isAdmin, a, u)
  \/ \E a \in PlatformAdmin : bootstrapChecks(a) \/ bootstrapCommits(a)
  \/ \E a \in PlatformAdmin : CountOwners(a) \/ NoTenant(a) \/ DeleteMembership(a)
-----------------------------------------------------------------------------
\* Removals made at the same time do not leave the tenant without an owner
\* ("cannot remove the last owner", api/iam.go): one that removes an owner
\* leaves another, unless an owner was given a smaller role while it ran.
LastOwnerStays ==
  \A a \in PlatformAdmin :
    /\ removal[a].pc = "counted" /\ ~removal[a].demoted
    /\ removal'[a].pc = "idle"
    /\ Owners # {}
    => \E u \in Users : role'[u] = "owner"

\* Bootstraps started at the same time, or again after the administrator lost
\* the membership, make one tenant between them, and it has its owner from the
\* start (cmd/bootstrap).
BootstrapsOnce ==
  /\ booted' <= 1
  /\ booted' # booted => \E u \in Users : role'[u] = "owner"
=============================================================================
