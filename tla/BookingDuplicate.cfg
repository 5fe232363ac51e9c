\* A duplicate confirm whose RPC fails, against the winner.
CONSTANTS
    c1 = c1  c2 = c2  c3 = c3  c4 = c4
    b1 = b1  b2 = b2  k1 = k1
    Nil = Nil  NoKey = NoKey  NoBody = NoBody
    Call = {c1, c2, c3, c4}
    Key = {}
    Body <- MCBody
    Fit <- ScarceFit
    Bays <- ScarceBays
    Claim <- MCClaim
    Script <- DuplicateScript
    MayStop = {}
    SweepLimit = 1
    MaxFaults = 1
SPECIFICATION Spec
INVARIANTS
    NoDoubleBook
CHECK_DEADLOCK FALSE
