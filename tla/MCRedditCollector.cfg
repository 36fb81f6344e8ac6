SPECIFICATION Spec
CONSTANTS
  f1 = f1
  f2 = f2
  u1 = u1
  u2 = u2
  Source = {s1, s2}
  Feed = {f1}
  Stored <- MCStored
  Custom = {}
  Following = {f1}
  Worker = {a, b}
  Job = {j1}
  Req = {q1}
  Run = {r1, r2}
  JobAttempts = 2
  MaxStalls = 1
  MaxFaults = 1
  MaxRequests = 1
  None = None
SYMMETRY Symmetric
INVARIANTS
  RunningIsHonest
  LeaseIsExclusive
  DisabledStaysQuiet
PROPERTIES
  FailureIsContained
CHECK_DEADLOCK FALSE
