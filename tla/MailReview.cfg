SPECIFICATION Spec
CONSTANTS
    Mail = {m1}
    User = {u1, u2}
    First = u1
    Worker = {w1, w2}
    Contents <- MCContents
    OtherAction = {"keep", "quarantined"}
    None = None
SYMMETRY Threads
INVARIANT ReviewInvariant
INVARIANT TablesAgree
INVARIANT ThreatsAreSeen
PROPERTY OwnersDecide
CHECK_DEADLOCK FALSE
