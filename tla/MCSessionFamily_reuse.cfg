SPECIFICATION Spec
CONSTANTS
  Token = {t1, t2, t3}
  Family = {f1}
  Req = {q1, q2}
  MaxPresent = 2
  NoToken = NoToken
  NoReq = NoReq
  NoRow = NoRow
INVARIANTS
  RevokedFamilyIsDead
CHECK_DEADLOCK FALSE
