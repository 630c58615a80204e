\* Three handlers on one donation, under fairness.
SPECIFICATION FairSpec
CONSTANTS
  NoRow = NoRow
  Deleted = Deleted
  q1 = q1  q2 = q2  q3 = q3
  d1 = d1  d2 = d2
  m1 = m1  m2 = m2  m3 = m3  m4 = m4
  Requests = {q1, q2, q3}
  DonationIds = {d1}
  MovementIds = {m1, m2, m3}
  Amounts = {3, 5}
  MaxAttempts = 2
INVARIANTS
  TypeOK
  AmountsAgree
  ReversedOnce
  NoOrphanMovement
PROPERTIES
  CancellationIsFinal
  EveryRequestIsAnswered
