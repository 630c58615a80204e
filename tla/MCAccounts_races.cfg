\* Two handlers on two users, with one session and two reset tokens.
SPECIFICATION Spec
CONSTANTS
  NoRow = NoRow
  NoHash = NoHash
  q1 = q1  q2 = q2
  u1 = u1  u2 = u2
  s1 = s1  s2 = s2
  t1 = t1  t2 = t2
  Requests = {q1, q2}
  Users = {u1, u2}
  Sessions = {s1}
  ResetTokens = {t1, t2}
  MaxGeneration = 1
  MaxRotations = 2
  MaxAttempts = 2
SYMMETRY Symmetry
INVARIANTS
  TypeOK
  LiveSessionsAreOfActive
  BarredTokensAreRefused
  ExchangedOnce
  OneResetToken
PROPERTIES
  AdministratorsContinue
  FirstAdministratorOnly
