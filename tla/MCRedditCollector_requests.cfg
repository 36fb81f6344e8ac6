SPECIFICATION Spec
CONSTANTS
  f1 = f1
  f2 = f2
  u1 = u1
  u2 = u2
  Source = {s1, s2, s3}
  Feed = {f1, f2, u1, u2}
  Stored <- MCStored
  Custom = {u1, u2}
  Following = {}
  Worker = {}
  Job = {}
  Req = {q1, q2}
  Run = {}
  JobAttempts = 2
  MaxStalls = 1
  MaxFaults = 0
  MaxRequests = 2
  None = None
SYMMETRY Alike
INVARIANTS
  DuplicatesAreBounded
CHECK_DEADLOCK FALSE
