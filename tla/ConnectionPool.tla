--------------------------- MODULE ConnectionPool ---------------------------
(***************************************************************************)
(* The pool of gRPC connections to executors (internal/core/executor_grpc.go). *)
(* Dispatches, cancellations and probes of one Core acquire a connection under *)
(* the mutex, use it outside of it and release it once.                      *)
(*                                                                         *)
(* A connection is open while it is in the pool: eviction and close are the    *)
(* only operations that take one out, and both close it.                     *)
(***************************************************************************)
EXTENDS Integers, FiniteSets

CONSTANTS
  Target,      \* executor addresses
  Conn,        \* identities of connections
  Caller,      \* goroutines
  MaxConns,    \* maxExecutorGRPCConnections
  MaxClock,    \* bound on time
  Nil          \* no connection, no target

ASSUME PoolAssumption ==
  /\ IsFiniteSet(Target) /\ IsFiniteSet(Caller)
  /\ MaxConns \in Nat /\ MaxClock \in Nat
  /\ Nil \notin Conn

VARIABLES
  conns,      \* conns[t]: the connection of t in the map, or Nil
  inUse,      \* of the entry of a connection
  lastUsed,   \* of the entry of a connection
  held,       \* held[c]: the connection a caller has acquired and not released
  heldFor,    \* the target it was acquired for
  clock,
  closed      \* close was called

vars == <<conns, inUse, lastUsed, held, heldFor, clock, closed>>

Pooled == {t \in Target : conns[t] # Nil}
Holders(k) == {c \in Caller : held[c] = k}

\* A connection nobody knows: grpc.NewClient returns a new one.
Fresh == {k \in Conn : Holders(k) = {} /\ \A t \in Target : conns[t] # k}

Init ==
  /\ conns = [t \in Target |-> Nil]
  /\ inUse = [k \in Conn |-> 0]
  /\ lastUsed = [k \in Conn |-> 0]
  /\ held = [c \in Caller |-> Nil]
  /\ heldFor = [c \in Caller |-> Nil]
  /\ clock = 0
  /\ closed = FALSE

Tick == clock < MaxClock /\ clock' = clock + 1

(***************************************************************************)
(* acquireConn.                                                            *)
(***************************************************************************)

AcquirePooled(c, t) ==
  /\ Tick
  /\ held[c] = Nil /\ t \in Pooled
  /\ inUse' = [inUse EXCEPT ![conns[t]] = @ + 1]
  /\ lastUsed' = [lastUsed EXCEPT ![conns[t]] = clock]
  /\ held' = [held EXCEPT ![c] = conns[t]]
  /\ heldFor' = [heldFor EXCEPT ![c] = t]
  /\ UNCHANGED <<conns, closed>>

\* evictIdleLocked: the longest unused of the idle entries.
Evictable(t) ==
  /\ t \in Pooled /\ inUse[conns[t]] = 0
  /\ \A u \in Pooled : inUse[conns[u]] = 0 => lastUsed[conns[t]] <= lastUsed[conns[u]]

\* What is left of the map when there has to be room for one more; a full pool without
\* an idle entry refuses the caller, which changes nothing.
RoomMade(left) ==
  \/ Cardinality(Pooled) < MaxConns /\ left = conns
  \/ /\ Cardinality(Pooled) >= MaxConns
     /\ \E e \in Target : Evictable(e) /\ left = [conns EXCEPT ![e] = Nil]

AcquireNew(c, t) ==
  /\ Tick
  /\ held[c] = Nil /\ t \notin Pooled
  /\ \E left \in {conns} \cup {[conns EXCEPT ![e] = Nil] : e \in Target}, k \in Fresh :
       /\ RoomMade(left)
       /\ conns' = [left EXCEPT ![t] = k]
       /\ inUse' = [inUse EXCEPT ![k] = 1]
       /\ lastUsed' = [lastUsed EXCEPT ![k] = clock]
       /\ held' = [held EXCEPT ![c] = k]
       /\ heldFor' = [heldFor EXCEPT ![c] = t]
  /\ UNCHANGED closed

\* grpc.NewClient fails after the eviction.
AcquireFails(t) ==
  /\ t \notin Pooled
  /\ \E e \in Target :
       /\ Cardinality(Pooled) >= MaxConns /\ Evictable(e)
       /\ conns' = [conns EXCEPT ![e] = Nil]
  /\ UNCHANGED <<inUse, lastUsed, held, heldFor, clock, closed>>

(***************************************************************************)
(* releaseFunc and close.                                                  *)
(***************************************************************************)

\* Mutant: the entry of the target is counted down, whosever it is.
ReleaseAnyEntry(c) ==
  /\ Tick
  /\ held[c] # Nil
  /\ LET k == conns[heldFor[c]]
     IN IF k = Nil \/ inUse[k] = 0 THEN UNCHANGED <<inUse, lastUsed>>
        ELSE /\ inUse' = [inUse EXCEPT ![k] = @ - 1]
             /\ lastUsed' = [lastUsed EXCEPT ![k] = clock]
  /\ held' = [held EXCEPT ![c] = Nil]
  /\ heldFor' = [heldFor EXCEPT ![c] = Nil]
  /\ UNCHANGED <<conns, closed>>

\* The entry of the target may be gone, or be another one by now.
Release(c) ==
  /\ Tick
  /\ held[c] # Nil
  /\ LET k == held[c]
     IN IF conns[heldFor[c]] # k \/ inUse[k] = 0 THEN UNCHANGED <<inUse, lastUsed>>
        ELSE /\ inUse' = [inUse EXCEPT ![k] = @ - 1]
             /\ lastUsed' = [lastUsed EXCEPT ![k] = clock]
  /\ held' = [held EXCEPT ![c] = Nil]
  /\ heldFor' = [heldFor EXCEPT ![c] = Nil]
  /\ UNCHANGED <<conns, closed>>

\* ExecutorController.Close and Engine.Wait share the pool with calls that go on.
Close ==
  /\ conns' = [t \in Target |-> Nil]
  /\ closed' = TRUE
  /\ UNCHANGED <<inUse, lastUsed, held, heldFor, clock>>

Next ==
  \/ \E c \in Caller, t \in Target : AcquirePooled(c, t) \/ AcquireNew(c, t)
  \/ \E t \in Target : AcquireFails(t)
  \/ \E c \in Caller : Release(c)
  \/ Close

Spec == Init /\ [][Next]_vars

-----------------------------------------------------------------------------
TypeOK ==
  /\ conns \in [Target -> Conn \cup {Nil}]
  /\ inUse \in [Conn -> Nat]
  /\ lastUsed \in [Conn -> Nat]
  /\ held \in [Caller -> Conn \cup {Nil}]
  /\ heldFor \in [Caller -> Target \cup {Nil}]
  /\ clock \in Nat
  /\ closed \in BOOLEAN

(* The counter of a pooled entry is the number of calls that use its            *)
(* connection, also when a call releases a connection whose target has got a     *)
(* new entry since (acquireConn, releaseFunc).                                *)
CountsHolders == \A t \in Pooled : inUse[conns[t]] = Cardinality(Holders(conns[t]))

(* A connection that a call has acquired stays open until the call releases it,   *)
(* unless the pool itself is closed (evictIdleLocked, close).                  *)
HeldIsOpen ==
  closed \/ \A c \in Caller : held[c] # Nil => conns[heldFor[c]] = held[c]

(* The pool never has more than maxExecutorGRPCConnections connections, and no    *)
(* two targets share one (acquireConn).                                      *)
PoolBounded ==
  /\ Cardinality(Pooled) <= MaxConns
  /\ \A t, u \in Pooled : conns[t] = conns[u] => t = u

(* The pool under concurrent calls: the counters are right, so that eviction never *)
(* closes a connection in use, and the number of connections stays within the        *)
(* limit (acquireConn, releaseFunc, evictIdleLocked).                          *)
PoolSafe == CountsHolders /\ HeldIsOpen /\ PoolBounded
=============================================================================
