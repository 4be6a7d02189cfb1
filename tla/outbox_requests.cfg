SPECIFICATION Spec
CONSTANTS
  a = a  b = b  c = c  r1 = r1  p1 = p1  p2 = p2
  NoMail = NoMail
  Mail = {a, b, c}
  Request = {r1}
  Content = {p1, p2}
  RequestOf <- OneRequest
  ContentOf <- MixedContent
  WithDraft = {}
  Worker = {w1}
  Reconciler = {}
  MaxRev = 0
  MaxInc = 0
INVARIANTS OneRowPerRequest AnswerNamesOwnRow
