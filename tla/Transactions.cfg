\* The rows run out, and a lost re-arming leaves a job unscheduled, so the
\* system may stop.
SPECIFICATION MCSpec
CONSTANTS
  Shard = {s1, s2, s3}
  MaxRetries = 1
  NoShard = NoShard
  t1 = t1
  t2 = t2
  t3 = t3
  c1 = c1
  c2 = c2
  j1 = j1
  j2 = j2
  j3 = j3
  NoTx = NoTx
  NoJob = NoJob
  Worker = {w1, w2}
  NoWorker = NoWorker
SYMMETRY WorkerSymmetry
INVARIANTS RearmedAfterGroup ChecksSerialise DeliveriesFenced EventsAreDelivered
PROPERTY DeletesOnlyHistory
CHECK_DEADLOCK FALSE
