\* Attendance recorded late under a justification.
SPECIFICATION JustificationsSpec
CONSTANTS
  Absent = Absent
  q1 = q1  q2 = q2
  r1 = r1  r2 = r2
  ana = ana
  Requests = {q1, q2}
  Reviews = {r1}
  Affiliates = {ana}
  CallNumbers = {}
  QuorumValues = {1}
SYMMETRY HandlersAlike
INVARIANTS
  OnlyAbsencesAreJustified
CHECK_DEADLOCK FALSE
