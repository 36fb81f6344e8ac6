SPECIFICATION MCSpec
CONSTANTS
  Token = {t1, t2, t3}
  Family = {f1}
  Req = {q1, q2, q3}
  MaxPresent = 2
  NoToken = NoToken
  NoReq = NoReq
  NoRow = NoRow
  Login = {l1, l2}
  Request = {r1, r2}
  MaxTokens = 3
  NoCookies = NoCookies
SYMMETRY Symmetry
INVARIANTS
  AtMostOneRotatable
  NoFalseAlarm
  OnlyRevocationsDeadlock
  NoSessionIsLeft
PROPERTIES
  RotationIsFinal
  StaysLoggedIn
CHECK_DEADLOCK FALSE
