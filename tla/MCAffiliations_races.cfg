\* Three handlers on two people with two addresses, and three requests.
SPECIFICATION Spec
CONSTANTS
  NoRow = NoRow
  q1 = q1  q2 = q2  q3 = q3
  p1 = p1  p2 = p2
  r1 = r1  r2 = r2  r3 = r3
  e1 = e1  e2 = e2
  Requests = {q1, q2, q3}
  Persons = {p1, p2}
  RequestIds = {r1, r2, r3}
  Emails = {e1, e2}
  MaxAttempts = 2
SYMMETRY Symmetry
INVARIANTS
  OneStanding
  ApprovedIsAffiliate
