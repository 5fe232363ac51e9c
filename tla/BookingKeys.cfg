\* One Idempotency-Key on several requests at once, of which one may be
\* abandoned and one may lose an RPC or a statement.
CONSTANTS
    c1 = c1  c2 = c2  c3 = c3  c4 = c4
    b1 = b1  b2 = b2  k1 = k1
    Nil = Nil  NoKey = NoKey  NoBody = NoBody
    Call = {c1, c2, c3}
    Key = {k1}
    Body <- MCBody
    Fit <- AdjacentFit
    Bays <- AdjacentBays
    Claim <- MCClaim
    Script <- KeyScript
    MayStop = {c1}
    SweepLimit = 1
    MaxFaults = 1
SPECIFICATION Spec
INVARIANTS
    BookedOncePerKey
    ReplayMatches
CHECK_DEADLOCK FALSE
