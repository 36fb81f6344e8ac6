SPECIFICATION FairSpec
CONSTANTS
  w1 = w1
  w2 = w2
  p1 = p1
  p2 = p2
  s1 = s1
  s2 = s2
  Workspace = {w1}
  Post = {p1}
  Source = {s1}
  WorkspaceOf <- MCWorkspaceOf
  Caller = {c1, c2}
  Run = {r1, r2}
  Verdict <- MCVerdict
  LeadStatus = {"NEW", "REVIEWING"}
  MaxAttempts = 2
  MaxStalls = 1
  KeepCompleted = 1
  KeepFailed = 1
  MaxRequests = 2
  NoLead = NoLead
  NoRun = NoRun
  NoPair = NoPair
INVARIANTS
  SettledJobsAreHonest
  UnqueuedIsPendingOrDropped
  RowsAreBounded
PROPERTIES
  OnlyHangsRegress
  RefinesLedger
  JobsSettle
CHECK_DEADLOCK FALSE
