SPECIFICATION Spec
CONSTANTS
  Workspace = {w1}
  Device = {d1, d2, d3}
  Code = {c1, c2, c3}
  Challenge = {x1}
  Ticket = {t1, t2}
  Req = {q1, q2}
  MaxUsers = 2
  MaxJoins = 1
  Bootstrap = Bootstrap
  None = None
SYMMETRY Symmetry
INVARIANTS
  SecretsAreSingleUse
  OvershootIsBounded
PROPERTIES
  RevocationIsFinal
CHECK_DEADLOCK FALSE
