SPECIFICATION FairSpec
CONSTANTS
  j1 = j1
  j2 = j2
  Song = {s1}
  Asset = {a1}
  Job = {j1, j2}
  Worker = {w1, w2}
  MaxClaim <- Uneven
INVARIANTS RevisionsPlayable StatusTellsTruth UploadSurvives
PROPERTIES NoCondemnedWrite EveryJobEnds KeepsPromise
CHECK_DEADLOCK FALSE
