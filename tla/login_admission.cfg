SPECIFICATION Spec
CONSTANTS
  Keys = {k1, k2, k3}
  Calls = {call1, call2}
  Burst = 2
  Refill = 2
  Capacity = 2
  TTL = 4
  MaxClock = 4
  MaxWait = 1
  NoKey = NoKey
INVARIANTS LoginTypeOK RateHolds TableBounded
PROPERTY RetryIsEnough
SYMMETRY KeySymmetry
CHECK_DEADLOCK FALSE
