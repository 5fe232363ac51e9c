\* Lost and late RPCs, failed and in-doubt statements, restarts.
CONSTANTS
    c1 = c1  c2 = c2  c3 = c3  c4 = c4
    b1 = b1  b2 = b2  k1 = k1
    Nil = Nil  NoKey = NoKey  NoBody = NoBody
    Call = {c1, c2, c3}
    Key = {k1}
    Body <- MCBody
    Fit <- ScarceFit
    Bays <- ScarceBays
    Claim <- MCClaim
    Script <- FaultScript
    MayStop = {c1, c2, c3}
    SweepLimit = 1
    MaxFaults = 2
SPECIFICATION Spec
INVARIANTS
    NoOrphanConfirmed
    ConfirmedReplyIsPromoted
CHECK_DEADLOCK FALSE
