\* Two handlers break FrozenOnceStarted.
SPECIFICATION Spec
CONSTANTS
  Absent = Absent
  q1 = q1  q2 = q2
  ana = ana  luis = luis
  Requests = {q1, q2}
  Affiliates = {ana}
  CallNumbers = {1, 2}
  QuorumValues = {1}
SYMMETRY Alike
PROPERTIES
  FrozenOnceStarted
CHECK_DEADLOCK FALSE
