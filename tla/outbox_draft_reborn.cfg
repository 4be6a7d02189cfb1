SPECIFICATION Spec
CONSTANTS
  a = a  b = b  c = c  r1 = r1  p1 = p1  p2 = p2
  NoMail = NoMail
  Mail = {a}
  Request = {a}
  Content = {p1}
  RequestOf <- OwnRequest
  ContentOf <- SameContent
  WithDraft = {a}
  Worker = {w1}
  Reconciler = {}
  MaxRev = 1
  MaxInc = 2
PROPERTY LaterEditsSurvive
