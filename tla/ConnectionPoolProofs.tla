------------------------ MODULE ConnectionPoolProofs ------------------------
(***************************************************************************)
(* The connection pool is safe for every number of executors, callers and      *)
(* pool entries.                                                            *)
(***************************************************************************)
EXTENDS ConnectionPool, FiniteSetTheorems, TLAPS

\* Who holds the connection of an entry has acquired it for the target of the entry.
Linked ==
  /\ \A c \in Caller : held[c] # Nil => heldFor[c] \in Target
  /\ \A c \in Caller, t \in Pooled : held[c] = conns[t] => heldFor[c] = t

IInv == TypeOK /\ Linked /\ PoolSafe

-----------------------------------------------------------------------------
(* The callers that hold a connection, and the targets in the pool, can be        *)
(* counted (acquireConn counts them in inUse and len(p.conns)).                  *)
LEMMA Countable ==
  /\ \A k : IsFiniteSet(Holders(k)) /\ Cardinality(Holders(k)) \in Nat
  /\ IsFiniteSet(Pooled) /\ Cardinality(Pooled) \in Nat
<1>1. \A k : Holders(k) \subseteq Caller
  BY DEF Holders
<1>2. Pooled \subseteq Target
  BY DEF Pooled
<1> QED
  BY <1>1, <1>2, PoolAssumption, FS_Subset, FS_CardinalityType

(* Initially the pool is empty and nobody holds a connection.                    *)
LEMMA InitIInv == Init => IInv
<1> SUFFICES ASSUME Init PROVE IInv
  OBVIOUS
<1>1. Pooled = {}
  BY DEF Init, Pooled
<1>2. TypeOK
  BY DEF Init, TypeOK
<1>3. Linked
  BY <1>1 DEF Init, Linked
<1>4. Cardinality(Pooled) = 0
  BY <1>1, FS_EmptySet
<1>5. PoolSafe
  BY <1>1, <1>4, PoolAssumption DEF Init, PoolSafe, CountsHolders, HeldIsOpen, PoolBounded
<1> QED
  BY <1>2, <1>3, <1>5 DEF IInv

(* A caller that joins the entry of its target is counted (acquireConn).           *)
LEMMA AcquirePooledIInv ==
  ASSUME IInv, NEW c \in Caller, NEW t \in Target, AcquirePooled(c, t)
  PROVE  IInv'
<1> USE DEF IInv
<1>1. TypeOK'
  BY DEF AcquirePooled, TypeOK, Pooled, Tick
<1>2. Pooled' = Pooled /\ conns' = conns /\ conns[t] \in Conn /\ t \in Pooled
  BY DEF AcquirePooled, Pooled, TypeOK
<1>3. \A d \in Caller : held'[d] = IF d = c THEN conns[t] ELSE held[d]
  BY DEF AcquirePooled, TypeOK
<1>4. \A d \in Caller : heldFor'[d] = IF d = c THEN t ELSE heldFor[d]
  BY DEF AcquirePooled, TypeOK
<1>5. Linked'
  BY <1>2, <1>3, <1>4 DEF Linked, PoolSafe, PoolBounded, Pooled
<1>6. CountsHolders'
  <2> SUFFICES ASSUME NEW u \in Pooled
               PROVE  inUse'[conns[u]] = Cardinality(Holders(conns[u])')
    BY <1>2 DEF CountsHolders
  <2>1. inUse[conns[u]] = Cardinality(Holders(conns[u])) /\ conns[u] \in Conn /\ u \in Target
    BY DEF PoolSafe, CountsHolders, TypeOK, Pooled
  <2>2. CASE u = t
    <3>1. Holders(conns[t])' = Holders(conns[t]) \cup {c}
      BY <1>2, <1>3 DEF Holders
    <3>2. c \notin Holders(conns[t])
      BY <1>2, PoolAssumption DEF Holders, AcquirePooled
    <3>3. Cardinality(Holders(conns[t])') = Cardinality(Holders(conns[t])) + 1
      BY <3>1, <3>2, Countable, FS_AddElement
    <3> QED
      BY <2>1, <2>2, <3>3 DEF AcquirePooled, TypeOK
  <2>3. CASE u # t
    <3>1. conns[u] # conns[t]
      BY <1>2, <2>3 DEF PoolSafe, PoolBounded
    <3>2. Holders(conns[u])' = Holders(conns[u])
      <4>1. held[c] = Nil /\ conns[u] # Nil
        BY <2>1, PoolAssumption DEF AcquirePooled
      <4> QED
        BY <1>2, <1>3, <3>1, <4>1 DEF Holders
    <3> QED
      BY <2>1, <3>1, <3>2, <1>2 DEF AcquirePooled, TypeOK
  <2> QED
    BY <2>2, <2>3
<1>7. HeldIsOpen'
  BY <1>2, <1>3, <1>4 DEF PoolSafe, HeldIsOpen, AcquirePooled
<1>8. PoolBounded'
  BY <1>2 DEF PoolSafe, PoolBounded
<1> QED
  BY <1>1, <1>5, <1>6, <1>7, <1>8 DEF PoolSafe

(* Nobody holds the connection that evictIdleLocked closes.                      *)
LEMMA EvictedIsIdle ==
  ASSUME IInv, NEW e \in Target, Evictable(e)
  PROVE  Holders(conns[e]) = {}
<1>1. Cardinality(Holders(conns[e])) = 0
  BY DEF IInv, PoolSafe, CountsHolders, Evictable
<1> QED
  BY <1>1, Countable, FS_EmptySet

(* After an eviction there is room for one entry (acquireConn, evictIdleLocked).   *)
LEMMA EvictionMakesRoom ==
  ASSUME IInv, NEW e \in Target, Evictable(e)
  PROVE  Cardinality(Pooled \ {e}) = Cardinality(Pooled) - 1
BY Countable, FS_RemoveElement DEF Evictable

(* A new entry, in the place of an evicted one if the pool is full, has its          *)
(* caller as its only holder (acquireConn).                                      *)
LEMMA AcquireNewIInv ==
  ASSUME IInv, NEW c \in Caller, NEW t \in Target, AcquireNew(c, t)
  PROVE  IInv'
<1> USE DEF IInv
<1>1. PICK left \in {conns} \cup {[conns EXCEPT ![e] = Nil] : e \in Target}, k \in Fresh :
        /\ RoomMade(left)
        /\ conns' = [left EXCEPT ![t] = k]
        /\ inUse' = [inUse EXCEPT ![k] = 1]
        /\ lastUsed' = [lastUsed EXCEPT ![k] = clock]
        /\ held' = [held EXCEPT ![c] = k]
        /\ heldFor' = [heldFor EXCEPT ![c] = t]
  BY DEF AcquireNew
<1> DEFINE gone == {u \in Pooled : left[u] = Nil}
<1>2. /\ k \in Conn /\ k # Nil /\ Holders(k) = {} /\ \A u \in Target : conns[u] # k
      /\ t \notin Pooled /\ conns[t] = Nil /\ held[c] = Nil /\ closed' = closed
  BY <1>1, PoolAssumption DEF Fresh, AcquireNew, Pooled
<1>3. left \in [Target -> Conn \cup {Nil}] /\ \A u \in Target : left[u] \in {conns[u], Nil}
  BY <1>1 DEF TypeOK
<1>4. \A u \in Target : conns'[u] = IF u = t THEN k ELSE left[u]
  BY <1>1, <1>3
<1>5. TypeOK'
  BY <1>1, <1>2, <1>3 DEF TypeOK, AcquireNew, Tick
<1>6. \A u \in gone : Holders(conns[u]) = {}
  <2> SUFFICES ASSUME NEW u \in gone PROVE Holders(conns[u]) = {}
    OBVIOUS
  <2>1. PICK e \in Target : Evictable(e) /\ left = [conns EXCEPT ![e] = Nil]
    BY <1>1 DEF RoomMade, Pooled
  <2>2. u = e
    BY <2>1 DEF Pooled, TypeOK
  <2> QED
    BY <2>1, <2>2, EvictedIsIdle
<1>7. /\ \A d \in Caller : held'[d] = IF d = c THEN k ELSE held[d]
      /\ \A d \in Caller : heldFor'[d] = IF d = c THEN t ELSE heldFor[d]
  BY <1>1 DEF TypeOK
<1>8. Pooled' = (Pooled \ gone) \cup {t}
  BY <1>2, <1>3, <1>4 DEF Pooled
<1>9. \A u \in Pooled' \ {t} : u \in Pooled /\ conns'[u] = conns[u] /\ conns[u] # k
  BY <1>2, <1>3, <1>4, <1>8 DEF Pooled
<1>10. \A d \in Caller : d # c => held'[d] # k
  BY <1>2, <1>7 DEF Holders
<1>11. Linked'
  <2>1. \A d \in Caller : held'[d] # Nil => heldFor'[d] \in Target
    BY <1>7 DEF Linked
  <2>2. ASSUME NEW d \in Caller, NEW u \in Pooled', held'[d] = conns'[u]
        PROVE  heldFor'[d] = u
    <3>1. CASE u = t
      BY <3>1, <2>2, <1>4, <1>7, <1>10
    <3>2. CASE u # t
      BY <3>2, <2>2, <1>7, <1>9 DEF Linked
    <3> QED
      BY <3>1, <3>2
  <2> QED
    BY <2>1, <2>2 DEF Linked
<1>12. CountsHolders'
  <2> SUFFICES ASSUME NEW u \in Pooled'
               PROVE  inUse'[conns'[u]] = Cardinality(Holders(conns[u])')
    BY DEF CountsHolders
  <2>1. CASE u = t
    <3>1. Holders(conns[u])' = {c}
      BY <2>1, <1>4, <1>7, <1>10 DEF Holders
    <3> QED
      BY <3>1, <2>1, <1>1, <1>2, <1>4, FS_Singleton DEF TypeOK
  <2>2. CASE u # t
    <3>1. u \in Pooled /\ conns'[u] = conns[u] /\ conns[u] # k /\ conns[u] # Nil
      BY <2>2, <1>9 DEF Pooled
    <3>2. Holders(conns[u])' = Holders(conns[u])
      BY <3>1, <1>2, <1>7 DEF Holders
    <3> QED
      BY <3>1, <3>2, <1>1, <1>2 DEF PoolSafe, CountsHolders, TypeOK, Pooled
  <2> QED
    BY <2>1, <2>2
<1>13. HeldIsOpen'
  <2> SUFFICES ASSUME ~closed, NEW d \in Caller, held'[d] # Nil
               PROVE  conns'[heldFor'[d]] = held'[d]
    BY <1>2 DEF HeldIsOpen
  <2>1. CASE d = c
    BY <2>1, <1>4, <1>7
  <2>2. CASE d # c
    <3>1. held[d] # Nil /\ heldFor[d] \in Target /\ conns[heldFor[d]] = held[d]
      BY <2>2, <1>7 DEF Linked, PoolSafe, HeldIsOpen
    <3>2. heldFor[d] \notin gone /\ heldFor[d] # t
      BY <3>1, <1>2, <1>6 DEF Holders
    <3>3. left[heldFor[d]] = conns[heldFor[d]]
      BY <3>1, <3>2, <1>3 DEF Pooled
    <3> QED
      BY <2>2, <3>1, <3>2, <3>3, <1>4, <1>7
  <2> QED
    BY <2>1, <2>2
<1>14. PoolBounded'
  <2>1. Cardinality(Pooled') <= MaxConns
    <3>1. CASE Cardinality(Pooled) < MaxConns /\ left = conns
      <4>1. Pooled' = Pooled \cup {t}
        BY <3>1, <1>8 DEF Pooled
      <4>2. Cardinality(Pooled') = Cardinality(Pooled) + 1
        BY <4>1, <1>2, Countable, FS_AddElement
      <4> QED
        BY <3>1, <4>2, Countable, PoolAssumption
    <3>2. CASE \E e \in Target : Evictable(e) /\ left = [conns EXCEPT ![e] = Nil]
      <4>1. PICK e \in Target : Evictable(e) /\ left = [conns EXCEPT ![e] = Nil]
        BY <3>2
      <4>2. Pooled' = (Pooled \ {e}) \cup {t}
        BY <4>1, <1>2, <1>4 DEF Pooled, Evictable, TypeOK
      <4>3. IsFiniteSet(Pooled \ {e}) /\ t \notin Pooled \ {e}
        BY <1>2, Countable, FS_RemoveElement
      <4>4. Cardinality(Pooled') = Cardinality(Pooled \ {e}) + 1
        BY <4>2, <4>3, FS_AddElement
      <4> QED
        BY <4>1, <4>4, EvictionMakesRoom, Countable, PoolAssumption DEF PoolSafe, PoolBounded
    <3> QED
      BY <3>1, <3>2, <1>1 DEF RoomMade
  <2>2. \A u, v \in Pooled' : conns'[u] = conns'[v] => u = v
    BY <1>4, <1>9 DEF PoolSafe, PoolBounded
  <2> QED
    BY <2>1, <2>2 DEF PoolBounded
<1> QED
  BY <1>5, <1>11, <1>12, <1>13, <1>14 DEF PoolSafe

(* An eviction whose caller then gets no connection only loses an idle entry        *)
(* (acquireConn).                                                               *)
LEMMA AcquireFailsIInv ==
  ASSUME IInv, NEW t \in Target, AcquireFails(t)
  PROVE  IInv'
<1> USE DEF IInv
<1>1. PICK e \in Target : Evictable(e) /\ conns' = [conns EXCEPT ![e] = Nil]
  BY DEF AcquireFails
<1>2. UNCHANGED <<inUse, lastUsed, held, heldFor, clock, closed>>
  BY DEF AcquireFails
<1>3. \A u \in Target : conns'[u] = IF u = e THEN Nil ELSE conns[u]
  BY <1>1 DEF TypeOK
<1>4. Pooled' = Pooled \ {e}
  BY <1>3 DEF Pooled
<1>5. \A k : Holders(k)' = Holders(k')
  BY <1>2 DEF Holders
<1>6. TypeOK'
  BY <1>1, <1>2 DEF TypeOK
<1>7. Linked'
  BY <1>2, <1>3, <1>4 DEF Linked, Pooled
<1>8. CountsHolders'
  <2> SUFFICES ASSUME NEW u \in Pooled'
               PROVE  inUse'[conns'[u]] = Cardinality(Holders(conns[u])')
    BY DEF CountsHolders
  <2>1. u \in Pooled /\ conns'[u] = conns[u]
    BY <1>3, <1>4 DEF Pooled
  <2>2. Holders(conns[u])' = Holders(conns[u])
    BY <2>1, <1>2 DEF Holders
  <2> QED
    BY <2>1, <2>2, <1>2 DEF PoolSafe, CountsHolders
<1>9. HeldIsOpen'
  <2> SUFFICES ASSUME ~closed, NEW d \in Caller, held[d] # Nil
               PROVE  conns'[heldFor[d]] = held[d]
    BY <1>2 DEF HeldIsOpen
  <2>1. heldFor[d] \in Target /\ conns[heldFor[d]] = held[d]
    BY DEF Linked, PoolSafe, HeldIsOpen
  <2>2. heldFor[d] # e
    BY <2>1, <1>1, EvictedIsIdle DEF Holders
  <2> QED
    BY <2>1, <2>2, <1>3
<1>10. PoolBounded'
  <2>1. Cardinality(Pooled') <= MaxConns
    BY <1>1, <1>4, EvictionMakesRoom, Countable, PoolAssumption DEF PoolSafe, PoolBounded
  <2> QED
    BY <2>1, <1>3, <1>4 DEF PoolSafe, PoolBounded, Pooled
<1> QED
  BY <1>6, <1>7, <1>8, <1>9, <1>10 DEF PoolSafe

(* A release takes its caller off the entry it was counted in, and off no other     *)
(* (releaseFunc).                                                               *)
LEMMA ReleaseIInv ==
  ASSUME IInv, NEW c \in Caller, Release(c)
  PROVE  IInv'
<1> USE DEF IInv
<1> DEFINE k == held[c]
<1>1. k \in Conn /\ k # Nil /\ heldFor[c] \in Target /\ conns' = conns /\ closed' = closed
  BY DEF Release, TypeOK, Linked
<1>2. /\ \A d \in Caller : held'[d] = IF d = c THEN Nil ELSE held[d]
      /\ \A d \in Caller : heldFor'[d] = IF d = c THEN Nil ELSE heldFor[d]
  BY DEF Release, TypeOK
<1>3. Pooled' = Pooled
  BY <1>1 DEF Pooled
<1>4. Linked'
  BY <1>1, <1>2, <1>3 DEF Linked, Pooled
<1>5. \A u \in Pooled : conns[u] # k => Holders(conns[u])' = Holders(conns[u])
  BY <1>1, <1>2 DEF Holders, Pooled
<1>6. Holders(k) \ {c} = {d \in Caller : held'[d] = k} /\ c \in Holders(k)
  BY <1>1, <1>2 DEF Holders
<1>7. Cardinality({d \in Caller : held'[d] = k}) = Cardinality(Holders(k)) - 1
  BY <1>6, Countable, FS_RemoveElement
<1>8. conns[heldFor[c]] = k => inUse[k] = Cardinality(Holders(k)) /\ inUse[k] # 0
  <2> SUFFICES ASSUME conns[heldFor[c]] = k
               PROVE  inUse[k] = Cardinality(Holders(k)) /\ inUse[k] # 0
    OBVIOUS
  <2>1. inUse[k] = Cardinality(Holders(k))
    BY <1>1 DEF PoolSafe, CountsHolders, Pooled
  <2> QED
    BY <2>1, <1>6, Countable, FS_EmptySet
<1>9. TypeOK'
  BY <1>1, <1>8 DEF TypeOK, Release, Tick
<1>10. CountsHolders'
  <2> SUFFICES ASSUME NEW u \in Pooled
               PROVE  inUse'[conns[u]] = Cardinality(Holders(conns[u])')
    BY <1>1, <1>3 DEF CountsHolders
  <2>1. inUse[conns[u]] = Cardinality(Holders(conns[u])) /\ conns[u] \in Conn /\ u \in Target
    BY DEF PoolSafe, CountsHolders, TypeOK, Pooled
  <2>2. CASE conns[u] = k
    <3>1. heldFor[c] = u
      BY <2>2, <1>1 DEF Linked
    <3>2. inUse'[k] = inUse[k] - 1
      BY <3>1, <2>2, <1>1, <1>8 DEF Release, TypeOK
    <3>3. Holders(conns[u])' = {d \in Caller : held'[d] = k}
      BY <2>2, <1>1 DEF Holders
    <3> QED
      BY <2>1, <2>2, <3>2, <3>3, <1>7
  <2>3. CASE conns[u] # k
    <3>1. inUse'[conns[u]] = inUse[conns[u]]
      BY <2>1, <2>3, <1>1 DEF Release, TypeOK
    <3> QED
      BY <2>1, <2>3, <3>1, <1>5
  <2> QED
    BY <2>2, <2>3
<1>11. HeldIsOpen'
  BY <1>1, <1>2 DEF PoolSafe, HeldIsOpen
<1>12. PoolBounded'
  BY <1>1, <1>3 DEF PoolSafe, PoolBounded
<1> QED
  BY <1>4, <1>9, <1>10, <1>11, <1>12 DEF PoolSafe

(* close empties the pool.                                                      *)
LEMMA CloseIInv ==
  ASSUME IInv, Close
  PROVE  IInv'
<1>1. Pooled' = {}
  BY DEF Close, Pooled
<1>2. Cardinality(Pooled') = 0
  BY <1>1, FS_EmptySet
<1>3. TypeOK'
  BY DEF IInv, TypeOK, Close
<1>4. Linked'
  BY <1>1 DEF IInv, Linked, Close
<1>5. PoolSafe'
  BY <1>1, <1>2, PoolAssumption DEF Close, PoolSafe, CountsHolders, HeldIsOpen, PoolBounded
<1> QED
  BY <1>3, <1>4, <1>5 DEF IInv

(* The pool counts its callers, closes no connection in use, and stays within its    *)
(* limit, for every number of executors, callers and entries (acquireConn,          *)
(* releaseFunc, evictIdleLocked, close).                                        *)
THEOREM PoolIsSafe == Spec => []PoolSafe
<1>1. Init => IInv
  BY InitIInv
<1>2. IInv /\ [Next]_vars => IInv'
  <2> SUFFICES ASSUME IInv, [Next]_vars PROVE IInv'
    OBVIOUS
  <2>1. ASSUME NEW c \in Caller, NEW t \in Target, AcquirePooled(c, t) PROVE IInv'
    BY <2>1, AcquirePooledIInv
  <2>2. ASSUME NEW c \in Caller, NEW t \in Target, AcquireNew(c, t) PROVE IInv'
    BY <2>2, AcquireNewIInv
  <2>3. ASSUME NEW t \in Target, AcquireFails(t) PROVE IInv'
    BY <2>3, AcquireFailsIInv
  <2>4. ASSUME NEW c \in Caller, Release(c) PROVE IInv'
    BY <2>4, ReleaseIInv
  <2>5. CASE Close
    BY <2>5, CloseIInv
  <2>6. CASE UNCHANGED vars
    BY <2>6 DEF vars, IInv, TypeOK, Linked, PoolSafe, CountsHolders, HeldIsOpen, PoolBounded,
                Pooled, Holders
  <2> QED
    BY <2>1, <2>2, <2>3, <2>4, <2>5, <2>6 DEF Next
<1>3. IInv => PoolSafe
  BY DEF IInv
<1> QED
  BY <1>1, <1>2, <1>3, PTL DEF Spec
=============================================================================
