SPECIFICATION FairSpec
CONSTANTS
  Import = {i1}
  Worker = {w1, w2}
  Legacy = {i1}
  Cover = {i1}
  MaxAttempts = 1
  MaxClaim = 2
  MaxRequest = 1
  CopyName = {"copy1", "copy2"}
  MaxDoomed = 1
INVARIANTS PublishedPlayable LeaseExclusive ReadyKeepsAudio
PROPERTIES KeepsPromise RequestKept JobEnds SubmittedEnds CanceledCleaned
