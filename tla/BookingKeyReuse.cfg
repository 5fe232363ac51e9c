\* A confirm that reuses a key, against the winner of its hold.
CONSTANTS
    c1 = c1  c2 = c2  c3 = c3  c4 = c4
    b1 = b1  b2 = b2  k1 = k1
    Nil = Nil  NoKey = NoKey  NoBody = NoBody
    Call = {c1, c2, c3, c4}
    Key = {k1}
    Body <- MCBody
    Fit <- AdjacentFit
    Bays <- AdjacentBays
    Claim <- MCClaim
    Script <- ReuseScript
    MayStop = {}
    SweepLimit = 1
    MaxFaults = 0
SPECIFICATION Spec
INVARIANTS
    ConfirmedBacked
CHECK_DEADLOCK FALSE
