SPECIFICATION MCSpec
CONSTANTS
  Conn = {c1, c2}
  State = {x1, x2}
  Call = {q1, q2}
  MaxTokens = 3
  Nobody = Nobody
  Model = {m1, m2, m3}
  Sync = {q1, q2}
  NoModel = NoModel
SYMMETRY Symmetry
INVARIANTS
  StoredTokenWorks
  OAuthConnectionsAreBounded
  RoutesAreBounded
  SyncedIsRouted
PROPERTIES
  RemovedIsFinal
CHECK_DEADLOCK FALSE
