\* Two concurrent handlers on one resource, a moving clock, and the abstract book.
SPECIFICATION Spec
CONSTANTS
  NoRow = NoRow
  q1 = q1  q2 = q2
  salon = salon
  i1 = i1  i2 = i2
  p1 = p1  p2 = p2  m1 = m1  m2 = m2
  Requests = {q1, q2}
  Resources = {salon}
  Ids = {i1, i2}
  Payments = {p1, p2}
  Movements = {m1, m2}
  Slots <- MCSlots
  Amounts <- MCAmounts
  Tariffs <- MCTariffs
  Catalogue <- MCCatalogue
  Horizon = 1
  MinHours = 1
  MaxHours = 2
  MaxAttempts = 2
SYMMETRY RowsAlike
INVARIANTS
  TypeOK
  NoDoubleBooking
  ChargeFollowsReservation
  PaidOnce
  LedgerMatchesPayments
PROPERTIES
  ImplementsBook
  StepsFollowPolicy
  ChargesAreFinal
