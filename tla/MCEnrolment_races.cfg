\* Two handlers on two addresses of one person, and two requests.
SPECIFICATION Spec
CONSTANTS
  NoRow = NoRow
  q1 = q1  q2 = q2
  u1 = u1  u2 = u2
  r1 = r1  r2 = r2
  t1 = t1  t2 = t2  t3 = t3
  e1 = e1  e2 = e2
  i1 = i1  i2 = i2
  Requests = {q1, q2}
  Users = {u1, u2}
  UserRequests = {r1, r2}
  Tokens = {t1, t2, t3}
  Emails = {e1, e2}
  Identities = {i1, i2}
  ResendLimit = 2
  MaxAttempts = 1
SYMMETRY Symmetry
INVARIANTS
  LiveTokenFollowsEmail
  RequestAndAccountAgree
PROPERTIES
  VerifiedAtItsAddress
  ResendsAreLimited
\* Once the rows of the instance are decided nobody asks for anything.
CHECK_DEADLOCK FALSE
