SPECIFICATION MCSpec
CONSTANTS
  Event = {e1}
  Channel = {c1, c2}
  Worker = {w1, w2}
  Subscribed <- AllPairs
  MaxAttempts = 2
  MaxClaims = 3
  MaxEdits = 0
  MaxCrashes = 1
  Stalls = FALSE
  NoWorker = NoWorker
PROPERTY
  DeliveriesEnd EngineProgress EndedIsForgotten
CHECK_DEADLOCK FALSE
