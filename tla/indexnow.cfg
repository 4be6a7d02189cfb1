SPECIFICATION FairSpec
CONSTANTS
  URL = {u1}
  Worker = {w1, w2}
  Token = {t1, t2, t3, t4}
  NoToken = NoToken
  Batch = 1
  MaxChange = 3
PROPERTIES EveryRowLeaves
CHECK_DEADLOCK FALSE
INVARIANTS NoChangeLost
