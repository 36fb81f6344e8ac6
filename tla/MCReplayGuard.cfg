SPECIFICATION Spec
CONSTANTS
  Msg = {batch, config}
  Batch = {batch}
  Req = {q1, q2}
  Window = 2
  Lifetime = 4
  Skew = 1
  Delay = 1
  MaxTime = 8
  Unsigned = Unsigned
  NoNonce = NoNonce
  NoMsg = NoMsg
SYMMETRY Symmetry
INVARIANTS
  NoReplay
CHECK_DEADLOCK FALSE
