SPECIFICATION Spec
CONSTANTS
  Shard = {s1, s2}
  MaxRetries = 1
  NoShard = NoShard
INVARIANT
  GroupIsRescheduled
CHECK_DEADLOCK FALSE
