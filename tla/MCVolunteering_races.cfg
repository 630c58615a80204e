\* Two handlers on one opportunity, of one seat or without limit.
SPECIFICATION Spec
CONSTANTS
  NoRow = NoRow
  NoPerson = NoPerson
  NoDeadline = NoDeadline
  Nobody = Nobody
  q1 = q1  q2 = q2
  o1 = o1
  a1 = a1  a2 = a2  a3 = a3
  p1 = p1  p2 = p2  p3 = p3
  mail = mail  phone = phone
  Requests = {q1, q2}
  Opportunities = {o1}
  Applications = {a1, a2}
  Persons = {p1, p2}
  Registered = {p1}
  ContactSets <- Contacts
  Capacities = {1}
  Deadlines = {NoDeadline, 1}
  MaxTime = 2
SYMMETRY Symmetry
INVARIANTS
  TypeOK
  SeatsAreFree
  ApprovedTakePart
  OneLiveApplication
PROPERTIES
  ReceivedWhileOpen
