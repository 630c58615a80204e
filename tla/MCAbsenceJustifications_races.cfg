\* Two handlers of the assembly and two of justifications.
SPECIFICATION JustificationsSpec
CONSTANTS
  Absent = Absent
  q1 = q1  q2 = q2
  r1 = r1  r2 = r2
  ana = ana
  Requests = {q1, q2}
  Reviews = {r1, r2}
  Affiliates = {ana}
  CallNumbers = {1}
  QuorumValues = {1, 101}
SYMMETRY HandlersAlike
INVARIANTS
  TypeOK
  RowsHaveParents
  JustifiedAreRecorded
PROPERTIES
  HistoryIsKept
  DecisionIsFinal
CHECK_DEADLOCK FALSE
