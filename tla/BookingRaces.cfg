\* No faults, no keys: an appointment, its confirmers and cancellers, the
\* sweeper, and a rival for the technician and the bay.
CONSTANTS
    c1 = c1  c2 = c2  c3 = c3  c4 = c4
    b1 = b1  b2 = b2  k1 = k1
    Nil = Nil  NoKey = NoKey  NoBody = NoBody
    Call = {c1, c2, c3, c4}
    Key = {}
    Body <- MCBody
    Fit <- ScarceFit
    Bays <- ScarceBays
    Claim <- MCClaim
    Script <- RaceScript
    MayStop = {c1, c2, c3}
    SweepLimit = 1
    MaxFaults = 0
SPECIFICATION Spec
INVARIANTS
    TypeOK
    ConfirmedBacked
    SweeperOnlyTouchesCancelled
    NoDoubleBook
    FailureFreesClaims
PROPERTIES
    CancelledIsFinal
CHECK_DEADLOCK FALSE
