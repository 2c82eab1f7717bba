SPECIFICATION Spec
CONSTANTS
    Key = {k1, k2}
    Request = {r1, r2}
    Burst = 2
    Unit = 3
    Refill = 2
    MaxTracked = 1
    MaxTime = 5
SYMMETRY Symmetry
INVARIANTS
    WindowIsBounded
PROPERTY
    RetryAfterIsEnough
CHECK_DEADLOCK FALSE
