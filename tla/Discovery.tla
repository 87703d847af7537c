------------------------------ MODULE Discovery ------------------------------
(***************************************************************************)
(* The gRPC resolver that follows the instances of a service in etcd             *)
(* (internal/discovery/etcd.go): a read of the prefix, a watch from the revision   *)
(* after it, and a new read for every response of the watch.                     *)
(*                                                                         *)
(* etcd numbers the changes of the prefix by revisions and keeps them for          *)
(* watches, until it compacts them.                                          *)
(***************************************************************************)
EXTENDS Integers

CONSTANTS
  Instance,   \* instances of the service
  MaxRev      \* bound on the changes

VARIABLES
  registered,  \* the instances whose key is in etcd
  rev,         \* the revision of the store
  compacted,   \* revisions up to here are gone
  pc,          \* of watch: "get", "open", "watching"
  from,        \* the next revision the watch delivers
  missed,      \* the read for the last response failed
  published    \* the addresses of the last UpdateState

vars == <<registered, rev, compacted, pc, from, missed, published>>

Init ==
  /\ registered = {} /\ rev = 1 /\ compacted = 0
  /\ pc = "get" /\ from = 0 /\ missed = FALSE
  /\ published = {}

\* register: Put under a lease that Run keeps alive, again after the lease was lost.
Register(i) ==
  /\ i \notin registered /\ rev < MaxRev
  /\ registered' = registered \cup {i} /\ rev' = rev + 1
  /\ UNCHANGED <<compacted, pc, from, missed, published>>

\* Close revokes the lease, or it runs out when the keepalives stop.
LeaseEnds(i) ==
  /\ i \in registered /\ rev < MaxRev
  /\ registered' = registered \ {i} /\ rev' = rev + 1
  /\ UNCHANGED <<compacted, pc, from, missed, published>>

Compact ==
  /\ \E r \in (compacted + 1)..rev : compacted' = r
  /\ UNCHANGED <<registered, rev, pc, from, missed, published>>

\* A Get that fails is reported and tried again.
Get ==
  /\ pc = "get"
  /\ published' = registered
  /\ from' = rev + 1
  /\ pc' = "open" /\ missed' = FALSE
  /\ UNCHANGED <<registered, rev, compacted>>

\* Mutant: the watch starts at the present and not after the read.
OpenNow ==
  /\ pc = "open"
  /\ pc' = "watching"
  /\ from' = rev + 1
  /\ UNCHANGED <<registered, rev, compacted, missed, published>>

\* Watch with WithRev; a revision that is compacted by now comes back as an error.
Open ==
  /\ pc = "open"
  /\ pc' = IF from <= compacted THEN "get" ELSE "watching"
  /\ UNCHANGED <<registered, rev, compacted, from, missed, published>>

\* A response holds one or more of the changes that are due.
Event ==
  /\ pc = "watching" /\ from <= rev
  /\ \E r \in from..rev : from' = r + 1
  /\ \/ published' = registered /\ missed' = FALSE
     \/ published' = published /\ missed' = TRUE
  /\ UNCHANGED <<registered, rev, compacted, pc>>

\* The channel is closed or its response is an error.
WatchEnds ==
  /\ pc = "watching"
  /\ pc' = "get"
  /\ UNCHANGED <<registered, rev, compacted, from, missed, published>>

Next ==
  \/ \E i \in Instance : Register(i) \/ LeaseEnds(i)
  \/ Compact \/ Get \/ Open \/ Event \/ WatchEnds

Spec == Init /\ [][Next]_vars

-----------------------------------------------------------------------------
(* A resolver that waits on its watch with nothing left to deliver has published   *)
(* the instances that are registered: no change falls between the read and the      *)
(* watch, and a read that is older than a change is repeated.  The exception is      *)
(* the code's own: a failed read for a response is not tried again before the next   *)
(* one (watch).                                                             *)
WatchingIsCurrent == pc = "watching" /\ from > rev /\ ~missed => published = registered
=============================================================================
