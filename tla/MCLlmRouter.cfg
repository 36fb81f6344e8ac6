SPECIFICATION FairSpec
CONSTANTS
  Call = {c1, c2}
  Connection = {k1}
  Routes = 2
  RuleRoutes = {2}
  MaxRetries = 1
  Limit <- MCLimit
  EachLimit = 1
  TTL = 2
  None = None
INVARIANTS
  LimitIsKept
  ExecutionsSettle
PROPERTIES
  SlotsFreeUp
