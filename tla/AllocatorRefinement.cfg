\* Two concurrent Reserves implement the atomic ledger, every call is answered
\* and no hold outlives its expiry for ever.
CONSTANTS
    Call = {c1, c2}
    Claim <- MCClaim
    Request <- MCMixedRequest
    TTL = 1
    MaxAttempts = 3
    MaxTime = 3
SPECIFICATION FairSpec
PROPERTIES
    RefinesLedger
    ReserveAnswers
    NoPermanentHold
CHECK_DEADLOCK FALSE
