SPECIFICATION Spec
CONSTANTS
  User = {u1, d1}
  Paired = {d1}
  Inv = {i1, i2}
  Code = {c1}
  Call = {q1, q2}
  MaxUsers = 2
  Asked = {"OWNER", "ADMIN", "MEMBER"}
  Nobody = Nobody
SYMMETRY Symmetric
INVARIANTS
  AcceptedMeansJoined
  RolesFollowAcceptance
CHECK_DEADLOCK FALSE
