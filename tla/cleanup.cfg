SPECIFICATION FairSpec
CONSTANTS
  Key = {k1, k2}
  Worker = {w1, w2}
  Token = {t1, t2, t3}
  NoToken = NoToken
  Batch = 2
  MaxCall = 1
PROPERTIES KeepsPromise QueueDrains
CHECK_DEADLOCK FALSE
