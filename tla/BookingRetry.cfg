\* A retry of one request with one key, while the first is in flight.
CONSTANTS
    c1 = c1  c2 = c2  c3 = c3  c4 = c4
    b1 = b1  b2 = b2  k1 = k1
    Nil = Nil  NoKey = NoKey  NoBody = NoBody
    Call = {c1, c2}
    Key = {k1}
    Body <- MCBody
    Fit <- RoomyFit
    Bays <- RoomyBays
    Claim <- MCClaim
    Script <- RetryScript
    MayStop = {}
    SweepLimit = 1
    MaxFaults = 0
SPECIFICATION Spec
INVARIANTS
    SameRequestNeverConflicts
CHECK_DEADLOCK FALSE
