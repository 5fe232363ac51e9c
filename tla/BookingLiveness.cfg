\* Every resource without a CONFIRMED appointment is given back.
CONSTANTS
    c1 = c1  c2 = c2  c3 = c3  c4 = c4
    b1 = b1  b2 = b2  k1 = k1
    Nil = Nil  NoKey = NoKey  NoBody = NoBody
    Call = {c1, c2}
    Key = {}
    Body <- MCBody
    Fit <- ScarceFit
    Bays <- ScarceBays
    Claim <- MCClaim
    Script <- PairScript
    MayStop = {c1, c2}
    SweepLimit = 1
    MaxFaults = 2
SPECIFICATION FairSpec
PROPERTIES
    NoPermanentPin
CHECK_DEADLOCK FALSE
