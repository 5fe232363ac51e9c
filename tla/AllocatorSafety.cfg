\* Three concurrent Reserves on two technicians.
CONSTANTS
    Call = {c1, c2, c3}
    Claim <- MCClaim
    Request <- MCRequest
    TTL = 1
    MaxAttempts = 3
    MaxTime = 3
SPECIFICATION Spec
SYMMETRY MCSymmetry
INVARIANTS
    TypeOK
    NoOverlap
    ExpiredHoldsDoNotRefuse
CHECK_DEADLOCK FALSE
