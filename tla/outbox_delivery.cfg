SPECIFICATION FairSpec
CONSTANTS
  a = a  b = b  c = c  r1 = r1  p1 = p1  p2 = p2
  NoMail = NoMail
  Mail = {a}
  Request = {a}
  Content = {p1}
  RequestOf <- OwnRequest
  ContentOf <- SameContent
  WithDraft = {a}
  Worker = {w1, w2}
  Reconciler = {x1}
  MaxRev = 2
  MaxInc = 1
INVARIANTS SentAtMostOnce StatusTellsTruth NoSharedClaim LiveRowKeepsSnapshot
PROPERTIES QueuedIsDispatched AcceptedIsConfirmed OnlySentRevisionRemoved KeepsPromise
