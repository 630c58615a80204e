\* Two returns, or two cancellations, of one loan.
SPECIFICATION Spec
CONSTANTS
  NoRow = NoRow
  q1 = q1  q2 = q2  q3 = q3
  silla = silla
  l1 = l1  l2 = l2
  m1 = m1  m2 = m2  m3 = m3  m4 = m4
  Requests = {q1, q2}
  Items = {silla}
  Loans = {l1}
  Movements = {m1, m2, m3, m4}
  Quantities = {1}
  Counts = {2}
SYMMETRY RowsAlike
INVARIANTS
  ComesBackOnce
