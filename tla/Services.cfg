SPECIFICATION MCSpec
CONSTANTS
  Target = {t1, t2, t3}
  Conn = {k1, k2, k3, k4}
  Caller = {c1, c2}
  MaxConns = 2
  MaxClock = 5
  Nil = Nil
  Core = {o1, o2}
  Cmd = {m1, m2}
  Instance = {i1, i2}
INVARIANTS PoolSafe ResolverIsCurrent  StopIsClean
PROPERTIES CommandClaimIsKept 
CHECK_DEADLOCK FALSE
