SPECIFICATION MCSpec
CONSTANTS
  Input <- MCInput
  MaxUnusual = 1
  p1 = p1
  p2 = p2
  p3 = p3
  Post = {p1, p2, p3}
  Page <- MCPage
  Workers = 2
  MaxScrolls = 4
  MaxTarget = 3
  MaxStallRounds = 4
  b1 = b1
  b2 = b2
  x1 = x1
  Browser = {b1, b2}
  Sync = {s1, s2}
  Login = {x1}
  Moment = {1, 2}
  MaxChanges = 1
  Anonymous = Anonymous
  Nothing = Nothing
  NoFile = NoFile
SYMMETRY Symmetry
INVARIANTS
  SourceKeepsItsPage
  SourceCanBeSwitchedOff
  CrawlIsFaithful
  StaleForAReason
  SyncRequiredIsHonest
CHECK_DEADLOCK FALSE
