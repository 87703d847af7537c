------------------------------ MODULE Answers ------------------------------
(***************************************************************************)
(* How a request of the HTTP API is let in and how an error of the store or   *)
(* of a service comes back as a status code (internal/api/authorization.go     *)
(* and server.go, internal/core/service_errors.go).  A caller is the role in   *)
(* the tenant the request names, "none" when it names no tenant.             *)
(***************************************************************************)
EXTENDS Naturals

Role == {"none", "viewer", "developer", "admin", "owner"}

canWriteTenant(caller) == caller \in {"developer", "admin", "owner"}
canAdministerTenant(caller) == caller \in {"admin", "owner"}

\* The answer of a middleware or a check that lets only some roles through, 0
\* when it lets the request pass.
requireTenantWrite(caller) ==
  IF caller = "none" THEN 400 ELSE IF canWriteTenant(caller) THEN 0 ELSE 403
requireTenantAdmin(caller) ==
  IF caller = "none" THEN 400 ELSE IF canAdministerTenant(caller) THEN 0 ELSE 403
requirePlatformAdmin(isAdmin) == IF isAdmin THEN 0 ELSE 403

\* A body that is not exactly one JSON value of the expected form.
decode(readable) == IF readable THEN 0 ELSE 400

\* toStatus: the errors the services know by name.
toStatus(err) ==
  CASE err = "none" -> "OK"
    [] err \in {"validation", "unregisteredAddress", "scope"} -> "InvalidArgument"
    [] err = "notFound" -> "NotFound"
    [] err = "conflict" -> "Aborted"
    [] err = "queueFull" -> "ResourceExhausted"
    [] err \in {"terminal", "cycle", "manualMode", "inUse", "noGroup"} -> "FailedPrecondition"
    [] OTHER -> "Internal"

\* respond: the code the handler wanted, or the one of the status.
respond(err, code) ==
  LET status == toStatus(err)
  IN CASE status = "OK" -> code
       [] status = "InvalidArgument" -> 400
       [] status = "NotFound" -> 404
       [] status \in {"Aborted", "FailedPrecondition"} -> 409
       [] status = "ResourceExhausted" -> 429
       [] OTHER -> 500

\* The first refusal of a list of checks in the order the handler makes them.
FirstRefusal(checks) ==
  LET refused == {i \in DOMAIN checks : checks[i] # 0}
  IN IF refused = {} THEN 0
     ELSE checks[CHOOSE i \in refused : \A j \in refused : i <= j]
=============================================================================
