-------------------------- MODULE AllocatorProofs ---------------------------
(***************************************************************************)
(* Allocator, with any number of concurrent Reserves, any claims and any   *)
(* bounds: typing, no overlapping occupations, and the implementation of   *)
(* the atomic Ledger.                                                      *)
(***************************************************************************)
EXTENDS Allocator, TLAPS

(***************************************************************************)
(* Where rows come from.  A call inserts its row with its last step, so    *)
(* the id of a call that is still running is fresh; what it inserts is the *)
(* candidate it picked.                                                    *)
(***************************************************************************)
RowsComeFromCalls ==
    \A i \in Call :
        /\ handler[i].pc = "insert" => handler[i].pick \in Claim
        /\ table[i].status # "NONE" => handler[i].pc = "done"
        /\ table[i].status # "NONE" => table[i].on \in Claim

(* The inductive invariant of the allocator. *)
AllocatorInv == TypeOK /\ RowsComeFromCalls /\ NoOverlap

-----------------------------------------------------------------------------

(* A handler that answers stays typed.                                     *)
LEMMA AnswerTyped ==
    ASSUME TypeOK, NEW i \in Call,
           NEW r \in {"none", "ok", "invalid", "unavailable", "internal"},
           Answer(i, r)
    PROVE  handler' \in [Call -> Handler]
<1>1. Blank("done", r) \in Handler
    BY DEF Blank, Handler
<1>2. QED
    BY <1>1 DEF TypeOK, Answer

(* The row that the claim statement inserts has the columns of the table.  *)
LEMMA ClaimedTyped ==
    ASSUME TypeOK, NEW i \in Call
    PROVE  Claimed(i) \in [Call -> Row]
<1>1. [status |-> "HELD", on |-> handler[i].pick,
       expires |-> handler[i].stamp + TTL] \in Row
    BY NumberAssumption DEF TypeOK, Handler, Row
<1>2. QED
    BY <1>1 DEF TypeOK, Claimed

(* A handler that goes on to the inline DELETE stays typed.                *)
LEMMA ToReapTyped ==
    ASSUME TypeOK, NEW i \in Call, ToReap(i)
    PROVE  handler' \in [Call -> Handler]
<1>1. [handler[i] EXCEPT !.pc = "reap", !.pick = NoClaim, !.stamp = 0] \in Handler
    BY DEF TypeOK, Handler
<1>2. QED
    BY <1>1 DEF ToReap, TypeOK

(* Candidates are claims. *)
LEMMA FitIsClaim ==
    ASSUME TypeOK, NEW i \in Call
    PROVE  handler[i].req.fit \subseteq Claim
<1>1. handler[i].req \in Request \cup {NoRequest}
    BY DEF TypeOK, Handler
<1>2. NoRequest.fit = {}
    BY DEF NoRequest
<1>3. QED
    BY <1>1, <1>2, RequestAssumption

(* Every step of a handler, the reaper or the clock preserves the types.   *)
LEMMA AllocatorTypingStep == TypeOK /\ [Next]_vars => TypeOK'
<1> SUFFICES ASSUME TypeOK, [Next]_vars PROVE TypeOK'
    OBVIOUS
<1>1. ASSUME NEW i \in Call, Begin(i) PROVE TypeOK'
    <2>1. PICK r \in Request :
             \/ handler' = [handler EXCEPT ![i].pc = "claim", ![i].req = r,
                                           ![i].began = now]
             \/ Answer(i, "invalid")
        BY <1>1 DEF Begin
    <2>2. CASE Answer(i, "invalid")
        BY <1>1, <2>2, AnswerTyped DEF Begin, TypeOK
    <2>3. CASE handler' = [handler EXCEPT ![i].pc = "claim", ![i].req = r,
                                          ![i].began = now]
        BY <1>1, <2>3 DEF Begin, TypeOK, Handler
    <2>4. QED
        BY <2>1, <2>2, <2>3
<1>2. ASSUME NEW i \in Call, Pick(i) PROVE TypeOK'
    <2>1. ASSUME NEW c \in handler[i].req.fit,
                 handler' = [handler EXCEPT ![i].pc = "insert",
                                            ![i].pick = c, ![i].stamp = now]
          PROVE  handler' \in [Call -> Handler]
        <3>1. [handler[i] EXCEPT !.pc = "insert", !.pick = c, !.stamp = now]
                 \in Handler
            BY FitIsClaim DEF TypeOK, Handler
        <3>2. QED
            BY <2>1, <3>1 DEF TypeOK
    <2>2. handler' \in [Call -> Handler]
        BY <1>2, <2>1, ToReapTyped DEF Pick
    <2>3. QED
        BY <1>2, <2>2 DEF Pick, TypeOK
<1>3. ASSUME NEW i \in Call, Insert(i) PROVE TypeOK'
    <2>1. CASE ToReap(i) /\ UNCHANGED table
        BY <1>3, <2>1, ToReapTyped DEF Insert, TypeOK
    <2>2. CASE table' = Claimed(i) /\ Answer(i, "ok")
        BY <1>3, <2>2, AnswerTyped, ClaimedTyped DEF Insert, TypeOK
    <2>3. QED
        BY <1>3, <2>1, <2>2 DEF Insert
<1>4. ASSUME NEW i \in Call, ClaimError(i) PROVE TypeOK'
    BY <1>4, AnswerTyped, ClaimedTyped DEF ClaimError, TypeOK
<1>5. ASSUME NEW i \in Call, ReapAndRetry(i) PROVE TypeOK'
    BY <1>5 DEF ReapAndRetry, DeleteExpired, NextAttempt, TypeOK, Row, Handler
<1>6. ASSUME NEW i \in Call, ReapError(i) PROVE TypeOK'
    BY <1>6, AnswerTyped DEF ReapError, TypeOK
<1>7. ASSUME NEW i \in Call, Confirm(i) PROVE TypeOK'
    BY <1>7 DEF Confirm, NULL, TypeOK, Row
<1>8. ASSUME NEW i \in Call, Release(i) PROVE TypeOK'
    BY <1>8 DEF Release, TypeOK, Row
<1>9. CASE Reaper
    BY <1>9 DEF Reaper, DeleteExpired, TypeOK, Row
<1>10. CASE Tick
    BY <1>10 DEF Tick, TypeOK
<1>11. CASE UNCHANGED vars
    BY <1>11 DEF vars, TypeOK
<1>12. QED
    BY <1>1, <1>2, <1>3, <1>4, <1>5, <1>6, <1>7, <1>8, <1>9, <1>10, <1>11
    DEF Next, Step

(* Every step preserves the provenance of rows: only Insert, and the claim *)
(* that commits unseen in ClaimError, create one, from the picked claim.   *)
LEMMA RowsStep == TypeOK /\ RowsComeFromCalls /\ [Next]_vars => RowsComeFromCalls'
<1> SUFFICES ASSUME TypeOK, RowsComeFromCalls, [Next]_vars
             PROVE  RowsComeFromCalls'
    OBVIOUS
<1> USE RequestAssumption
<1> USE DEF TypeOK, Row, Handler, RowsComeFromCalls
<1>1. ASSUME NEW i \in Call, Begin(i) PROVE RowsComeFromCalls'
    BY <1>1 DEF Begin, Answer, Blank
<1>2. ASSUME NEW i \in Call, Pick(i) PROVE RowsComeFromCalls'
    <2>1. /\ handler'[i].pc = "insert" => handler'[i].pick \in Claim
          /\ \A j \in Call \ {i} : handler'[j] = handler[j]
        <3>1. CASE ToReap(i)
            BY <3>1 DEF ToReap
        <3>2. ASSUME NEW c \in handler[i].req.fit,
                     handler' = [handler EXCEPT ![i].pc = "insert",
                                                ![i].pick = c, ![i].stamp = now]
              PROVE  /\ handler'[i].pick \in Claim
                     /\ \A j \in Call \ {i} : handler'[j] = handler[j]
            BY <3>2, FitIsClaim
        <3>3. QED
            BY <1>2, <3>1, <3>2 DEF Pick
    <2>2. QED
        BY <1>2, <2>1 DEF Pick
<1>3. ASSUME NEW i \in Call, Insert(i) PROVE RowsComeFromCalls'
    <2>1. CASE ToReap(i) /\ UNCHANGED table
        <3>1. /\ handler'[i].pc = "reap"
              /\ \A j \in Call \ {i} : handler'[j] = handler[j]
            BY <2>1 DEF ToReap
        <3>2. QED
            BY <1>3, <2>1, <3>1 DEF Insert
    <2>2. CASE table' = Claimed(i) /\ Answer(i, "ok")
        BY <1>3, <2>2 DEF Insert, Answer, Blank, Claimed
    <2>3. QED
        BY <1>3, <2>1, <2>2 DEF Insert
<1>4. ASSUME NEW i \in Call, ClaimError(i) PROVE RowsComeFromCalls'
    BY <1>4 DEF ClaimError, Answer, Blank, Claimed
<1>5. ASSUME NEW i \in Call, ReapAndRetry(i) PROVE RowsComeFromCalls'
    BY <1>5 DEF ReapAndRetry, DeleteExpired, NextAttempt
<1>6. ASSUME NEW i \in Call, ReapError(i) PROVE RowsComeFromCalls'
    BY <1>6 DEF ReapError, Answer, Blank
<1>7. ASSUME NEW i \in Call, Confirm(i) PROVE RowsComeFromCalls'
    BY <1>7 DEF Confirm
<1>8. ASSUME NEW i \in Call, Release(i) PROVE RowsComeFromCalls'
    BY <1>8 DEF Release, Live
<1>9. CASE Reaper
    BY <1>9 DEF Reaper, DeleteExpired
<1>10. CASE Tick
    BY <1>10 DEF Tick
<1>11. CASE UNCHANGED vars
    BY <1>11 DEF vars
<1>12. QED
    BY <1>1, <1>2, <1>3, <1>4, <1>5, <1>6, <1>7, <1>8, <1>9, <1>10, <1>11
    DEF Next, Step

-----------------------------------------------------------------------------
(***************************************************************************)
(* What a step can do to the occupation table: nothing, one fresh row that *)
(* the exclusion constraint let in, the DELETE of the expired holds, one   *)
(* Confirm, one Release, or the passage of time.                           *)
(***************************************************************************)
FreshClaim(i) ==
    /\ table[i].status = "NONE"
    /\ handler[i].pick \in Claim
    /\ ~Busy(handler[i].pick)
    /\ table' = Claimed(i)
    /\ UNCHANGED now

(* The classification covers every step of the allocator.                  *)
LEMMA TableStep ==
    ASSUME TypeOK, RowsComeFromCalls, [Next]_vars
    PROVE  \/ UNCHANGED <<table, now>>
           \/ \E i \in Call : FreshClaim(i) \/ Confirm(i) \/ Release(i)
           \/ DeleteExpired /\ UNCHANGED now
           \/ Tick
<1>1. ASSUME NEW i \in Call, handler[i].pc = "insert", ~Busy(handler[i].pick),
             table' = Claimed(i), UNCHANGED now
      PROVE  FreshClaim(i)
    BY <1>1 DEF FreshClaim, RowsComeFromCalls
<1>2. ASSUME NEW i \in Call, Step(i) \/ ClaimError(i) \/ ReapError(i)
      PROVE  \/ UNCHANGED <<table, now>>
             \/ FreshClaim(i)
             \/ DeleteExpired /\ UNCHANGED now
    BY <1>1, <1>2 DEF Step, Begin, Pick, Insert, ReapAndRetry, ClaimError, ReapError
<1>3. QED
    BY <1>2 DEF Next, Reaper, vars

(* The exclusion constraint keeps live occupations apart.                  *)
LEMMA NoOverlapStep ==
    TypeOK /\ RowsComeFromCalls /\ NoOverlap /\ [Next]_vars => NoOverlap'
<1> SUFFICES ASSUME TypeOK, RowsComeFromCalls, NoOverlap, [Next]_vars
             PROVE  NoOverlap'
    OBVIOUS
<1>1. ASSUME NEW i \in Call, FreshClaim(i) PROVE NoOverlap'
    <2>1. \A j \in Call \ {i} :
             table'[j] = table[j] /\ (Live(table[j]) => ~Overlap(table[j].on, handler[i].pick))
        BY <1>1 DEF FreshClaim, Claimed, Busy, TypeOK
    <2>2. table'[i].on = handler[i].pick
        BY <1>1 DEF FreshClaim, Claimed, TypeOK
    <2>3. QED
        BY <2>1, <2>2 DEF NoOverlap, Overlap, Live
<1>2. ASSUME \A j \in Call : /\ table'[j].on = table[j].on
                             /\ Live(table'[j]) => Live(table[j])
      PROVE  NoOverlap'
    BY <1>2 DEF NoOverlap
<1>3. ASSUME NEW i \in Call, Confirm(i) PROVE NoOverlap'
    BY <1>2, <1>3 DEF Confirm, TypeOK, Row, Live
<1>4. ASSUME NEW i \in Call, Release(i) PROVE NoOverlap'
    BY <1>2, <1>4 DEF Release, TypeOK, Row, Live
<1>5. CASE DeleteExpired
    BY <1>2, <1>5 DEF DeleteExpired, TypeOK, Row, Live
<1>6. CASE UNCHANGED table
    BY <1>6 DEF NoOverlap
<1>7. QED
    BY <1>1, <1>3, <1>4, <1>5, <1>6, TableStep DEF Tick

-----------------------------------------------------------------------------

(* The empty table satisfies the invariant.                                *)
LEMMA AllocatorInit == Init => AllocatorInv
<1> SUFFICES ASSUME Init PROVE AllocatorInv
    OBVIOUS
<1>1. /\ Blank("idle", "none") \in Handler
      /\ [status |-> "NONE", on |-> NoClaim, expires |-> NULL] \in Row
    BY DEF Blank, Handler, Row, NULL
<1>2. TypeOK
    BY <1>1 DEF Init, TypeOK
<1>3. RowsComeFromCalls
    BY DEF Init, RowsComeFromCalls, Blank
<1>4. NoOverlap
    BY DEF Init, NoOverlap, Live
<1>5. QED
    BY <1>2, <1>3, <1>4 DEF AllocatorInv

(* The invariant is inductive: each conjunct has its own lemma above.      *)
LEMMA AllocatorInductive == AllocatorInv /\ [Next]_vars => AllocatorInv'
    BY AllocatorTypingStep, RowsStep, NoOverlapStep DEF AllocatorInv

(* Hence it holds in every reachable state.                                *)
LEMMA AllocatorInvariant == Spec => []AllocatorInv
    BY AllocatorInit, AllocatorInductive, PTL DEF Spec

(* Type correctness of the allocator, for any number of calls, any claims  *)
(* and any number of attempts.                                             *)
THEOREM AllocatorTypeCorrect == Spec => []TypeOK
    BY AllocatorInvariant, PTL DEF AllocatorInv

(* However many Reserves race, and whatever time the claim statements take *)
(* between their snapshot and their insert, two live occupations of one    *)
(* technician or bay never overlap.                                        *)
THEOREM AllocatorNoOverlap == Spec => []NoOverlap
    BY AllocatorInvariant, PTL DEF AllocatorInv

-----------------------------------------------------------------------------
(***************************************************************************)
(* The refinement of Ledger.  Each of the six kinds of table steps is one  *)
(* operation of the ledger, seen through LedgerView.                       *)
(***************************************************************************)
StateOf(r, t) ==
    IF r.status = "NONE" THEN "none"
    ELSE IF r.status = "HELD"
         THEN IF r.expires # NULL /\ r.expires <= t THEN "lapsed" ELSE "held"
    ELSE IF r.status = "CONFIRMED" THEN "confirmed" ELSE "gone"

(* The ledger entry that LedgerView shows for a row, state by state.       *)
LEMMA ViewNow ==
    LedgerView = [i \in Call |-> [st |-> StateOf(table[i], now), on |-> table[i].on]]
    BY DEF LedgerView, StateOf, Expired

(* The same of the next state.                                             *)
LEMMA ViewNext ==
    LedgerView' = [i \in Call |-> [st |-> StateOf(table'[i], now'), on |-> table'[i].on]]
    BY DEF LedgerView, StateOf, Expired

(* An expired hold excludes other claims exactly as a valid one does.      *)
LEMMA ViewLive ==
    ASSUME TypeOK, NEW i \in Call
    PROVE  L!Live(LedgerView[i]) <=> Live(table[i])
    BY ViewNow DEF StateOf, L!Live, L!LiveState, Live, TypeOK, Row

(* Every step of the allocator is a step of the ledger or leaves it alone: *)
(* time is Lapse, both DELETEs are Reap, the statements are themselves.    *)
LEMMA RefinementStep ==
    ASSUME AllocatorInv, [Next]_vars
    PROVE  [L!Next]_LedgerView
<1> TypeOK /\ RowsComeFromCalls
    BY DEF AllocatorInv
<1>1. CASE UNCHANGED <<table, now>>
    BY <1>1, ViewNow, ViewNext
<1>2. ASSUME NEW i \in Call, FreshClaim(i) PROVE L!Next
    <2> DEFINE c == handler[i].pick
               s == StateOf(table'[i], now')
    <2>1. c \in Claim /\ LedgerView[i].st = "none"
        BY <1>2, ViewNow DEF FreshClaim, StateOf
    <2>2. table'[i] = [status |-> "HELD", on |-> c,
                       expires |-> handler[i].stamp + TTL]
        BY <1>2 DEF FreshClaim, Claimed, TypeOK
    <2>3. s \in {"held", "lapsed"}
        BY <2>2 DEF StateOf
    <2>4. L!Free(c)
        BY <1>2, ViewLive, ViewNow DEF FreshClaim, Busy, L!Free, L!Overlap, Overlap
    <2>5. LedgerView' = [LedgerView EXCEPT ![i] = [st |-> s, on |-> c]]
        BY <1>2, <2>2, ViewNow, ViewNext DEF FreshClaim, Claimed, TypeOK
    <2>6. L!Reserve(i, c, s)
        BY <2>1, <2>3, <2>4, <2>5 DEF L!Reserve
    <2>7. QED
        BY <2>1, <2>3, <2>6 DEF L!Next
<1>3. ASSUME NEW i \in Call, Confirm(i) PROVE L!Next
    <2>1. L!CanConfirm(i)
        BY <1>3, ViewNow DEF Confirm, Expired, StateOf, L!CanConfirm
    <2>2. table'[i].status = "CONFIRMED" /\ table'[i].on = table[i].on
        BY <1>3 DEF Confirm, TypeOK, Row
    <2>3. LedgerView' = [LedgerView EXCEPT ![i].st = "confirmed"]
        BY <1>3, <2>2, ViewNow, ViewNext DEF Confirm, StateOf, TypeOK
    <2>4. QED
        BY <2>1, <2>3 DEF L!Next, L!Confirm
<1>4. ASSUME NEW i \in Call, Release(i) PROVE L!Next
    <2>1. table'[i].status = "RELEASED" /\ table'[i].on = table[i].on
        BY <1>4 DEF Release, TypeOK, Row
    <2>2. L!Live(LedgerView[i])
        BY <1>4, ViewLive DEF Release
    <2>3. LedgerView' = [LedgerView EXCEPT ![i].st = "gone"]
        BY <1>4, <2>1, ViewNow, ViewNext DEF Release, StateOf, TypeOK
    <2>4. L!Release(i)
        BY <2>2, <2>3 DEF L!Release
    <2>5. QED
        BY <2>4 DEF L!Next
<1>5. CASE DeleteExpired /\ UNCHANGED now
    <2>1. \A i \in Call :
             /\ table'[i].on = table[i].on
             /\ StateOf(table'[i], now') = IF StateOf(table[i], now) = "lapsed"
                                           THEN "gone" ELSE StateOf(table[i], now)
        BY <1>5 DEF DeleteExpired, Expired, StateOf, TypeOK, Row
    <2>2. L!Reap
        BY <2>1, ViewNow, ViewNext DEF L!Reap
    <2>3. QED
        BY <2>2 DEF L!Next
<1>6. CASE Tick
    <2> DEFINE S == {i \in Call : StateOf(table[i], now) # StateOf(table[i], now')}
    <2>1. \A i \in S : /\ StateOf(table[i], now) = "held"
                       /\ StateOf(table[i], now') = "lapsed"
        BY <1>6 DEF Tick, StateOf, TypeOK, Row
    <2>2. L!Lapse(S)
        BY <1>6, <2>1, ViewNow, ViewNext DEF Tick, L!Lapse
    <2>3. QED
        BY <2>2 DEF L!Next
<1>7. QED
    BY <1>1, <1>2, <1>3, <1>4, <1>5, <1>6, TableStep

(* The allocator, with its races, its retry loop, its clock and its        *)
(* reaper, implements the atomic ledger that Booking is built on.          *)
THEOREM AllocatorImplementsLedger == Spec => RefinesLedger
<1>1. Init => L!Init
    BY ViewNow DEF Init, L!Init, StateOf, NoClaim, L!NoClaim
<1>2. AllocatorInv /\ [Next]_vars => [L!Next]_LedgerView
    BY RefinementStep
<1>3. QED
    BY <1>1, <1>2, AllocatorInvariant, PTL DEF Spec, RefinesLedger, L!Spec

-----------------------------------------------------------------------------
(***************************************************************************)
(* Why a Reserve is refused.  While no rival was valid when the call       *)
(* began, every failed attempt met another rival that had expired by then, *)
(* and the reap after it has removed that one: the rivals are told apart   *)
(* by an injection from the attempts.                                      *)
(***************************************************************************)
Dead(r) == r.status \in {"RELEASED", "DELETED"}

(* Row j competes with call i for one of its candidates. *)
Rival(i, j) ==
    /\ j # i /\ table[j].status # "NONE"
    /\ \E c \in handler[i].req.fit : Overlap(table[j].on, c)

(* It was confirmed or valid when i began.  Expiries never move, except to *)
(* NULL, so this lasts.                                                    *)
Standing(i, j) ==
    Rival(i, j) /\ (table[j].expires = NULL \/ table[j].expires > handler[i].began)

(* It is gone, or the DELETE that i is about to make removes it. *)
Beaten(i, j) ==
    /\ Rival(i, j)
    /\ \/ Dead(table[j])
       \/ /\ handler[i].pc = "reap" /\ table[j].status = "HELD"
          /\ table[j].expires # NULL /\ table[j].expires <= handler[i].began

(* The attempts of call i that have failed. *)
Failed(i) ==
    IF handler[i].pc = "reap" THEN handler[i].attempt ELSE handler[i].attempt - 1

RefusalOk(i) ==
    handler[i].pc # "idle" /\ handler[i].req.fit # {} =>
        \/ \E j \in Call : Standing(i, j)
        \/ \E f \in [1..Failed(i) -> Call] :
             /\ \A m \in 1..Failed(i) : Beaten(i, f[m])
             /\ \A m, n \in 1..Failed(i) : f[m] = f[n] => m = n

(* A hold has an expiry and a confirmed row none, an insert is of a        *)
(* candidate, and no call began in the future.                             *)
ExpiryOk ==
    \A i \in Call :
        /\ table[i].status = "CONFIRMED" => table[i].expires = NULL
        /\ table[i].status = "HELD" => table[i].expires # NULL
        /\ handler[i].pc = "insert" => handler[i].pick \in handler[i].req.fit
        /\ handler[i].began <= now

(* A call that has not been accepted has made no attempt. *)
IdleOk == \A i \in Call : handler[i].pc = "idle" => handler[i].attempt = 1

(* The inductive invariant behind ExpiredHoldsDoNotRefuse. *)
RefusalInv ==
    AllocatorInv /\ ExpiryOk /\ IdleOk /\ \A i \in Call : RefusalOk(i)

-----------------------------------------------------------------------------

(* An inserted row keeps its claim; a dead one stays dead; an expiry only  *)
(* ever becomes NULL; and a hold that has expired changes only by dying.   *)
LEMMA RowLasts ==
    ASSUME AllocatorInv, ExpiryOk, [Next]_vars, NEW j \in Call,
           table[j].status # "NONE"
    PROVE  /\ table'[j].status # "NONE" /\ table'[j].on = table[j].on
           /\ Dead(table[j]) => Dead(table'[j])
           /\ table'[j].expires = table[j].expires \/ table'[j].expires = NULL
           /\ table[j].status = "HELD" /\ Expired(table[j])
                => table'[j] = table[j] \/ Dead(table'[j])
<1> TypeOK /\ RowsComeFromCalls
    BY DEF AllocatorInv
<1>1. ASSUME NEW i \in Call, FreshClaim(i) PROVE table'[j] = table[j]
    BY <1>1 DEF FreshClaim, Claimed, TypeOK
<1>2. ASSUME NEW i \in Call, Confirm(i), i # j PROVE table'[j] = table[j]
    BY <1>2 DEF Confirm, TypeOK
<1>3. CASE Confirm(j)
    BY <1>3 DEF Confirm, TypeOK, Row, Dead
<1>4. ASSUME NEW i \in Call, Release(i)
      PROVE  \/ table'[j] = table[j]
             \/ table'[j] = [table[j] EXCEPT !.status = "RELEASED"]
    BY <1>4 DEF Release, TypeOK
<1>5. CASE DeleteExpired
    BY <1>5 DEF DeleteExpired, TypeOK, Row, Dead
<1>6. ASSUME table'[j] = [table[j] EXCEPT !.status = "RELEASED"]
      PROVE  /\ table'[j].status = "RELEASED" /\ table'[j].on = table[j].on
             /\ table'[j].expires = table[j].expires
    BY <1>6 DEF TypeOK, Row
<1>7. CASE table'[j] = table[j]
    BY <1>7
<1>8. QED
    BY <1>1, <1>2, <1>3, <1>4, <1>5, <1>6, <1>7, TableStep DEF Tick, Dead

(* The rivals of a call that keeps its request and its start are kept: one *)
(* that stood still stands, and one that is beaten stays so, unless the    *)
(* call leaves "reap" other than through its DELETE.                       *)
LEMMA RivalLasts ==
    ASSUME AllocatorInv, ExpiryOk, [Next]_vars, NEW i \in Call, NEW j \in Call,
           handler'[i].req = handler[i].req, handler'[i].began = handler[i].began
    PROVE  /\ Standing(i, j) => Standing(i, j)'
           /\ Beaten(i, j) /\ (handler[i].pc = "reap" => handler'[i].pc = "reap")
                => Beaten(i, j)'
<1> TypeOK
    BY DEF AllocatorInv
<1>1. Rival(i, j) => Rival(i, j)'
    BY RowLasts DEF Rival
<1>2. Standing(i, j) => Standing(i, j)'
    BY <1>1, RowLasts DEF Standing, Rival
<1>3. ASSUME Beaten(i, j), handler[i].pc = "reap" => handler'[i].pc = "reap"
      PROVE  Beaten(i, j)'
    <2>1. CASE Dead(table[j])
        BY <1>1, <1>3, <2>1, RowLasts DEF Beaten, Rival
    <2>2. CASE handler[i].pc = "reap" /\ table[j].status = "HELD"
               /\ table[j].expires # NULL /\ table[j].expires <= handler[i].began
        <3>1. Expired(table[j])
            BY <2>2 DEF Expired, ExpiryOk, TypeOK, Row, Handler
        <3>2. table'[j] = table[j] \/ Dead(table'[j])
            BY <1>3, <2>2, <3>1, RowLasts DEF Beaten, Rival
        <3>3. QED
            BY <1>1, <1>3, <2>2, <3>2 DEF Beaten
    <2>3. QED
        BY <1>3, <2>1, <2>2 DEF Beaten
<1>4. QED
    BY <1>2, <1>3

(* A call whose attempts stand as they did stays explained.                *)
LEMMA RefusalKept ==
    ASSUME AllocatorInv, ExpiryOk, [Next]_vars, NEW i \in Call, RefusalOk(i),
           handler[i].pc # "idle",
           handler'[i].req = handler[i].req, handler'[i].began = handler[i].began,
           handler[i].pc = "reap" => handler'[i].pc = "reap",
           Failed(i)' = Failed(i)
    PROVE  RefusalOk(i)'
<1> SUFFICES ASSUME handler[i].req.fit # {} PROVE RefusalOk(i)'
    BY DEF RefusalOk
<1>1. CASE \E j \in Call : Standing(i, j)
    BY <1>1, RivalLasts DEF RefusalOk
<1>2. Failed(i)' = Failed(i)
    OBVIOUS
<1>3. ASSUME NEW f \in [1..Failed(i) -> Call],
             \A m \in 1..Failed(i) : Beaten(i, f[m]),
             \A m, n \in 1..Failed(i) : f[m] = f[n] => m = n
      PROVE  RefusalOk(i)'
    <2>1. \A m \in 1..Failed(i) : Beaten(i, f[m])'
        BY <1>3, RivalLasts
    <2>2. f \in [1..Failed(i)' -> Call]
        BY <1>2, <1>3
    <2>3. \A m \in 1..Failed(i)' : Beaten(i, f[m])'
        BY <1>2, <2>1
    <2>4. \A m, n \in 1..Failed(i)' : f[m] = f[n] => m = n
        BY <1>2, <1>3
    <2>5. QED
        BY <2>2, <2>3, <2>4 DEF RefusalOk
<1>4. QED
    BY <1>1, <1>2, <1>3 DEF RefusalOk

(* An attempt fails because a live row conflicts with a candidate: either  *)
(* it was valid when the call began, or it is one more beaten rival,       *)
(* different from all earlier ones, which are dead.                        *)
LEMMA AttemptFails ==
    ASSUME AllocatorInv, ExpiryOk, NEW i \in Call, RefusalOk(i),
           handler[i].pc \in {"claim", "insert"},
           NEW c \in handler[i].req.fit, Busy(c), ToReap(i), UNCHANGED <<table, now>>
    PROVE  RefusalOk(i)'
<1> TypeOK /\ RowsComeFromCalls
    BY DEF AllocatorInv
<1> PICK k \in Nat : k = handler[i].attempt
    BY DEF TypeOK, Handler
<1>1. /\ handler'[i].pc = "reap" /\ handler'[i].req = handler[i].req
      /\ handler'[i].began = handler[i].began /\ handler'[i].attempt = k
    BY DEF ToReap, TypeOK, Handler
<1>2. PICK j \in Call : Live(table[j]) /\ Overlap(table[j].on, c)
    BY DEF Busy
<1>3. Rival(i, j)
    BY <1>2 DEF Rival, Live, RowsComeFromCalls
<1>4. \A l \in Call : Rival(i, l) => Rival(i, l)'
    BY <1>1 DEF Rival
<1>5. \A l \in Call : Standing(i, l) => Standing(i, l)'
    BY <1>1, <1>4 DEF Standing
<1>6. CASE \E l \in Call : Standing(i, l)
    BY <1>5, <1>6 DEF RefusalOk
<1>7. CASE \A l \in Call : ~Standing(i, l)
    <2>1. /\ table[j].status = "HELD" /\ table[j].expires # NULL
          /\ table[j].expires <= handler[i].began
        BY <1>2, <1>3, <1>7 DEF Standing, Live, ExpiryOk, TypeOK, Row, Handler
    <2>2. Failed(i) = k - 1 /\ Failed(i)' = k
        BY <1>1 DEF Failed
    <2>3. PICK f \in [1..(k - 1) -> Call] :
             /\ \A m \in 1..(k - 1) : Beaten(i, f[m])
             /\ \A m, n \in 1..(k - 1) : f[m] = f[n] => m = n
        BY <1>7, <2>2 DEF RefusalOk
    <2>4. \A m \in 1..(k - 1) : Dead(table[f[m]]) /\ Rival(i, f[m])
        BY <2>3 DEF Beaten
    <2>5. \A m \in 1..(k - 1) : f[m] # j
        BY <2>1, <2>4 DEF Dead
    <2>6. \E g \in [1..k -> Call] :
             \A m \in 1..k : IF m < k THEN g[m] = f[m] ELSE m = k /\ g[m] = j
        <3> DEFINE g == [m \in 1..k |-> IF m < k THEN f[m] ELSE j]
        <3>1. g \in [1..k -> Call]
            OBVIOUS
        <3>2. \A m \in 1..k : IF m < k THEN g[m] = f[m] ELSE m = k /\ g[m] = j
            OBVIOUS
        <3>3. QED
            BY <3>1, <3>2
    <2>7. PICK g \in [1..k -> Call] :
             \A m \in 1..k : IF m < k THEN g[m] = f[m] ELSE m = k /\ g[m] = j
        BY <2>6
    <2>8. \A m \in 1..k : Beaten(i, g[m])'
        <3> TAKE m \in 1..k
        <3>1. CASE m < k
            <4>1. Dead(table[f[m]]) /\ Rival(i, f[m])
                BY <1>1, <2>4, <3>1
            <4>2. f[m] \in Call /\ g[m] = f[m]
                BY <1>1, <2>7, <3>1
            <4>3. QED
                BY <1>4, <4>1, <4>2 DEF Beaten
        <3>2. CASE ~(m < k)
            <4>1. g[m] = j
                BY <2>7, <3>2
            <4>2. Rival(i, j)'
                BY <1>3, <1>4
            <4>3. QED
                BY <1>1, <2>1, <4>1, <4>2 DEF Beaten
        <3>3. QED
            BY <3>1, <3>2
    <2>9. \A m, n \in 1..k : g[m] = g[n] => m = n
        BY <1>1, <2>3, <2>5, <2>7
    <2>10. QED
        BY <2>2, <2>8, <2>9 DEF RefusalOk
<1>8. QED
    BY <1>6, <1>7

(* The inline DELETE kills every beaten rival, which makes room for the    *)
(* next attempt.                                                           *)
LEMMA ReapClears ==
    ASSUME AllocatorInv, ExpiryOk, [Next]_vars, NEW i \in Call, RefusalOk(i),
           ReapAndRetry(i)
    PROVE  RefusalOk(i)'
<1> TypeOK
    BY DEF AllocatorInv
<1>1. /\ handler'[i].req = handler[i].req /\ handler'[i].began = handler[i].began
      /\ handler'[i].attempt = handler[i].attempt + 1
      /\ handler'[i].pc \in {"claim", "done"} /\ handler[i].pc = "reap"
      /\ handler[i].attempt \in Nat
    BY DEF ReapAndRetry, NextAttempt, TypeOK, Handler
<1>2. Failed(i)' = Failed(i)
    BY <1>1 DEF Failed
<1>3. ASSUME NEW j \in Call, Beaten(i, j) PROVE Beaten(i, j)'
    <2>1. Rival(i, j)'
        BY <1>1, <1>3, RowLasts DEF Beaten, Rival
    <2>2. CASE Dead(table[j])
        BY <1>3, <2>1, <2>2, RowLasts DEF Beaten, Rival
    <2>3. CASE table[j].status = "HELD" /\ table[j].expires # NULL
               /\ table[j].expires <= handler[i].began
        <3>1. Expired(table[j])
            BY <2>3 DEF Expired, ExpiryOk, TypeOK, Row, Handler
        <3>2. table'[j].status = "DELETED"
            BY <2>3, <3>1 DEF ReapAndRetry, DeleteExpired, TypeOK, Row
        <3>3. QED
            BY <2>1, <3>2 DEF Beaten, Dead
    <2>4. QED
        BY <1>3, <2>2, <2>3 DEF Beaten
<1>4. CASE \E j \in Call : Standing(i, j)
    BY <1>1, <1>4, RivalLasts DEF RefusalOk
<1>5. ASSUME NEW f \in [1..Failed(i) -> Call],
             \A m \in 1..Failed(i) : Beaten(i, f[m]),
             \A m, n \in 1..Failed(i) : f[m] = f[n] => m = n
      PROVE  RefusalOk(i)'
    <2>1. \A m \in 1..Failed(i) : Beaten(i, f[m])'
        BY <1>3, <1>5
    <2>2. QED
        BY <1>2, <1>5, <2>1 DEF RefusalOk
<1>6. CASE handler[i].req.fit = {}
    BY <1>1, <1>6 DEF RefusalOk
<1>7. QED
    BY <1>1, <1>4, <1>5, <1>6 DEF RefusalOk

(* A call that has answered early has no request left to explain.          *)
LEMMA AnswerExplained ==
    ASSUME TypeOK, NEW i \in Call, NEW r, Answer(i, r)
    PROVE  RefusalOk(i)'
<1>1. handler'[i] = Blank("done", r)
    BY DEF Answer, TypeOK
<1>2. handler'[i].req.fit = {}
    BY <1>1 DEF Blank, NoRequest
<1>3. QED
    BY <1>2 DEF RefusalOk

(* Every step keeps every call explained.                                  *)
LEMMA RefusalStep ==
    ASSUME RefusalInv, [Next]_vars, NEW i \in Call
    PROVE  RefusalOk(i)'
<1> AllocatorInv /\ ExpiryOk /\ RefusalOk(i) /\ TypeOK
    BY DEF RefusalInv, AllocatorInv
<1>1. CASE handler'[i] = handler[i]
    <2>1. CASE handler[i].pc = "idle"
        BY <1>1, <2>1 DEF RefusalOk
    <2>2. CASE handler[i].pc # "idle"
        <3>1. Failed(i)' = Failed(i)
            BY <1>1 DEF Failed
        <3>2. QED
            BY <1>1, <2>2, <3>1, RefusalKept
    <2>3. QED
        BY <2>1, <2>2
<1>2. CASE Begin(i)
    <2>1. PICK r \in Request :
             \/ handler' = [handler EXCEPT ![i].pc = "claim", ![i].req = r,
                                           ![i].began = now]
             \/ Answer(i, "invalid")
        BY <1>2 DEF Begin
    <2>2. CASE Answer(i, "invalid")
        BY <2>2, AnswerExplained
    <2>3. CASE handler' = [handler EXCEPT ![i].pc = "claim", ![i].req = r,
                                          ![i].began = now]
        <3>1. handler'[i].pc = "claim" /\ handler'[i].attempt = handler[i].attempt
            BY <2>3 DEF TypeOK, Handler
        <3>2. handler[i].attempt = 1
            BY <1>2 DEF Begin, RefusalInv, IdleOk
        <3>3. Failed(i)' = 0
            BY <3>1, <3>2 DEF Failed
        <3>4. [m \in 1..0 |-> i] \in [1..0 -> Call]
            OBVIOUS
        <3>5. \A m \in 1..0 : FALSE
            OBVIOUS
        <3>6. QED
            BY <3>3, <3>4, <3>5 DEF RefusalOk
    <2>4. QED
        BY <2>1, <2>2, <2>3
<1>3. CASE Pick(i)
    <2>1. CASE handler[i].req.fit = {}
        <3>1. ToReap(i)
            BY <1>3, <2>1 DEF Pick
        <3>2. handler'[i].req.fit = {}
            BY <2>1, <3>1 DEF ToReap, TypeOK, Handler
        <3>3. QED
            BY <3>2 DEF RefusalOk
    <2>2. ASSUME NEW c \in handler[i].req.fit,
                 handler' = [handler EXCEPT ![i].pc = "insert",
                                            ![i].pick = c, ![i].stamp = now]
          PROVE  RefusalOk(i)'
        <3>1. /\ handler'[i].pc = "insert" /\ handler'[i].req = handler[i].req
              /\ handler'[i].began = handler[i].began
              /\ handler'[i].attempt = handler[i].attempt
              /\ handler[i].pc = "claim"
            BY <1>3, <2>2 DEF Pick, TypeOK, Handler
        <3>2. Failed(i)' = Failed(i)
            BY <3>1 DEF Failed
        <3>3. QED
            BY <3>1, <3>2, RefusalKept
    <2>3. CASE ToReap(i) /\ {c \in handler[i].req.fit : ~Busy(c)} = {}
               /\ handler[i].req.fit # {}
        <3>1. PICK c \in handler[i].req.fit : Busy(c)
            BY <2>3
        <3>2. QED
            BY <1>3, <2>3, <3>1, AttemptFails DEF Pick
    <2>4. QED
        BY <1>3, <2>1, <2>2, <2>3 DEF Pick
<1>4. CASE Insert(i)
    <2>1. CASE Busy(handler[i].pick) /\ ToReap(i) /\ UNCHANGED table
        <3>1. handler[i].pick \in handler[i].req.fit
            BY <1>4 DEF Insert, ExpiryOk
        <3>2. QED
            BY <1>4, <2>1, <3>1, AttemptFails DEF Insert
    <2>2. CASE Answer(i, "ok")
        BY <2>2, AnswerExplained
    <2>3. QED
        BY <1>4, <2>1, <2>2 DEF Insert
<1>5. CASE ClaimError(i) \/ ReapError(i)
    BY <1>5, AnswerExplained DEF ClaimError, ReapError
<1>6. CASE ReapAndRetry(i)
    BY <1>6, ReapClears
<1>7. ASSUME NEW k \in Call, k # i, Step(k) \/ ClaimError(k) \/ ReapError(k)
      PROVE  handler'[i] = handler[i]
    BY <1>7 DEF Step, Begin, Pick, Insert, ReapAndRetry, ClaimError, ReapError,
                Answer, ToReap, NextAttempt, TypeOK
<1>8. ASSUME \/ \E k \in Call : Confirm(k) \/ Release(k)
             \/ Reaper \/ Tick \/ UNCHANGED vars
      PROVE  handler'[i] = handler[i]
    BY <1>8 DEF Confirm, Release, Reaper, Tick, vars
<1>9. QED
    BY <1>1, <1>2, <1>3, <1>4, <1>5, <1>6, <1>7, <1>8 DEF Next, Step

(* Every step keeps the expiries and the start of calls in order.          *)
LEMMA ExpiryStep == RefusalInv /\ [Next]_vars => ExpiryOk'
<1> SUFFICES ASSUME RefusalInv, [Next]_vars, NEW i \in Call
             PROVE  (/\ table[i].status = "CONFIRMED" => table[i].expires = NULL
                     /\ table[i].status = "HELD" => table[i].expires # NULL
                     /\ handler[i].pc = "insert" => handler[i].pick \in handler[i].req.fit
                     /\ handler[i].began <= now)'
    BY DEF ExpiryOk
<1> TypeOK /\ RowsComeFromCalls /\ ExpiryOk
    BY DEF RefusalInv, AllocatorInv
<1>1. /\ table'[i].status = "CONFIRMED" => table'[i].expires = NULL
      /\ table'[i].status = "HELD" => table'[i].expires # NULL
    <2>1. ASSUME NEW k \in Call, FreshClaim(k)
          PROVE  \/ table'[i] = table[i]
                 \/ table'[i].status = "HELD" /\ table'[i].expires # NULL
        <3>1. handler[k].stamp + TTL # NULL
            BY NumberAssumption DEF TypeOK, Handler, NULL
        <3>2. QED
            BY <2>1, <3>1 DEF FreshClaim, Claimed, TypeOK
    <2>2. ASSUME NEW k \in Call, Confirm(k)
          PROVE  \/ table'[i] = table[i]
                 \/ table'[i].status = "CONFIRMED" /\ table'[i].expires = NULL
        BY <2>2 DEF Confirm, TypeOK, Row
    <2>3. ASSUME NEW k \in Call, Release(k)
          PROVE  table'[i] = table[i] \/ table'[i].status = "RELEASED"
        BY <2>3 DEF Release, TypeOK, Row
    <2>4. CASE DeleteExpired
        <3>1. table'[i] = table[i] \/ table'[i].status = "DELETED"
            BY <2>4 DEF DeleteExpired, TypeOK, Row
        <3>2. QED
            BY <3>1 DEF ExpiryOk
    <2>5. CASE table'[i] = table[i]
        BY <2>5 DEF ExpiryOk
    <2>6. QED
        BY <2>1, <2>2, <2>3, <2>4, <2>5, TableStep DEF Tick
<1>2. now' >= now /\ now' \in Nat
    <2>1. now' = now \/ now' = now + 1
        BY TableStep DEF FreshClaim, Confirm, Release, Tick
    <2>2. QED
        BY <2>1 DEF TypeOK
<1>3. /\ handler'[i].pc = "insert" => handler'[i].pick \in handler'[i].req.fit
      /\ handler'[i].began <= now'
    <2>1. handler[i].began \in Nat /\ handler[i].began <= now
        BY DEF TypeOK, Handler, ExpiryOk
    <2>2. CASE handler'[i] = handler[i]
        BY <1>2, <2>1, <2>2 DEF ExpiryOk, TypeOK
    <2>3. ASSUME NEW r, Answer(i, r)
          PROVE  handler'[i].pc = "done" /\ handler'[i].began = 0
        BY <2>3 DEF Answer, Blank, TypeOK
    <2>4. ASSUME ToReap(i)
          PROVE  handler'[i].pc = "reap" /\ handler'[i].began = handler[i].began
        BY <2>4 DEF ToReap, TypeOK, Handler
    <2>5. CASE Begin(i)
        <3>1. PICK r \in Request :
                 \/ handler' = [handler EXCEPT ![i].pc = "claim", ![i].req = r,
                                               ![i].began = now]
                 \/ Answer(i, "invalid")
            BY <2>5 DEF Begin
        <3>2. CASE handler' = [handler EXCEPT ![i].pc = "claim", ![i].req = r,
                                              ![i].began = now]
            <4>1. handler'[i].pc = "claim" /\ handler'[i].began = now
                BY <3>2 DEF TypeOK, Handler
            <4>2. QED
                BY <1>2, <4>1 DEF TypeOK
        <3>3. QED
            BY <1>2, <2>3, <3>1, <3>2
    <2>6. CASE Pick(i)
        <3>1. ASSUME NEW c \in handler[i].req.fit,
                     handler' = [handler EXCEPT ![i].pc = "insert",
                                                ![i].pick = c, ![i].stamp = now]
              PROVE  /\ handler'[i].pick \in handler'[i].req.fit
                     /\ handler'[i].began = handler[i].began
            BY <3>1 DEF TypeOK, Handler
        <3>2. QED
            BY <1>2, <2>1, <2>4, <2>6, <3>1 DEF Pick, TypeOK
    <2>7. CASE Insert(i) \/ ClaimError(i) \/ ReapError(i)
        BY <1>2, <2>1, <2>3, <2>4, <2>7 DEF Insert, ClaimError, ReapError, TypeOK
    <2>8. CASE ReapAndRetry(i)
        <3>1. /\ handler'[i].pc \in {"claim", "done"}
              /\ handler'[i].began = handler[i].began
            BY <2>8 DEF ReapAndRetry, NextAttempt, TypeOK, Handler
        <3>2. QED
            BY <1>2, <2>1, <3>1 DEF TypeOK
    <2>9. ASSUME NEW k \in Call, k # i, Step(k) \/ ClaimError(k) \/ ReapError(k)
          PROVE  handler'[i] = handler[i]
        BY <2>9 DEF Step, Begin, Pick, Insert, ReapAndRetry, ClaimError, ReapError,
                    Answer, ToReap, NextAttempt, TypeOK
    <2>10. ASSUME \/ \E k \in Call : Confirm(k) \/ Release(k)
                  \/ Reaper \/ Tick \/ UNCHANGED vars
           PROVE  handler'[i] = handler[i]
        BY <2>10 DEF Confirm, Release, Reaper, Tick, vars
    <2>11. QED
        BY <2>2, <2>5, <2>6, <2>7, <2>8, <2>9, <2>10 DEF Next, Step
<1>4. QED
    BY <1>1, <1>3

(* A call that waits to be accepted has made no attempt.                   *)
LEMMA IdleStep == TypeOK /\ IdleOk /\ [Next]_vars => IdleOk'
<1> SUFFICES ASSUME TypeOK, IdleOk, [Next]_vars, NEW i \in Call
             PROVE  handler'[i].pc = "idle" => handler'[i] = handler[i]
    BY DEF IdleOk
<1>1. ASSUME NEW r, Answer(i, r) PROVE handler'[i].pc = "done"
    BY <1>1 DEF Answer, Blank, TypeOK
<1>2. ASSUME ToReap(i) PROVE handler'[i].pc = "reap"
    BY <1>2 DEF ToReap, TypeOK, Handler
<1>3. CASE Begin(i)
    BY <1>1, <1>3 DEF Begin, TypeOK, Handler
<1>4. CASE Pick(i)
    <2>1. ASSUME NEW c, handler' = [handler EXCEPT ![i].pc = "insert",
                                                   ![i].pick = c, ![i].stamp = now]
          PROVE  handler'[i].pc = "insert"
        BY <2>1 DEF TypeOK, Handler
    <2>2. QED
        BY <1>2, <1>4, <2>1 DEF Pick
<1>5. CASE Insert(i) \/ ClaimError(i) \/ ReapError(i)
    BY <1>1, <1>2, <1>5 DEF Insert, ClaimError, ReapError
<1>6. CASE ReapAndRetry(i)
    BY <1>6 DEF ReapAndRetry, NextAttempt, TypeOK, Handler
<1>7. ASSUME NEW k \in Call, k # i, Step(k) \/ ClaimError(k) \/ ReapError(k)
      PROVE  handler'[i] = handler[i]
    BY <1>7 DEF Step, Begin, Pick, Insert, ReapAndRetry, ClaimError, ReapError,
                Answer, ToReap, NextAttempt, TypeOK
<1>8. ASSUME \/ \E k \in Call : Confirm(k) \/ Release(k)
             \/ Reaper \/ Tick \/ UNCHANGED vars
      PROVE  handler'[i] = handler[i]
    BY <1>8 DEF Confirm, Release, Reaper, Tick, vars
<1>9. QED
    BY <1>3, <1>4, <1>5, <1>6, <1>7, <1>8 DEF Next, Step

(* The explanation of refusals is an invariant.                            *)
LEMMA RefusalInvariant == Spec => []RefusalInv
<1>1. Init => RefusalInv
    <2> SUFFICES ASSUME Init PROVE RefusalInv
        OBVIOUS
    <2>1. \A i \in Call : /\ handler[i].pc = "idle" /\ handler[i].began = 0
                          /\ handler[i].attempt = 1
                          /\ table[i].status = "NONE" /\ now = 0
        BY DEF Init, Blank
    <2>2. ExpiryOk /\ IdleOk /\ \A i \in Call : RefusalOk(i)
        BY <2>1 DEF ExpiryOk, IdleOk, RefusalOk
    <2>3. QED
        BY <2>2, AllocatorInit DEF RefusalInv
<1>2. RefusalInv /\ [Next]_vars => RefusalInv'
    <2> SUFFICES ASSUME RefusalInv, [Next]_vars PROVE RefusalInv'
        OBVIOUS
    <2>1. AllocatorInv'
        BY AllocatorInductive DEF RefusalInv
    <2>2. IdleOk'
        BY IdleStep DEF RefusalInv, AllocatorInv
    <2>3. QED
        BY <2>1, <2>2, ExpiryStep, RefusalStep DEF RefusalInv
<1>3. QED
    BY <1>1, <1>2, PTL DEF Spec

(***************************************************************************)
(* For any number of calls, candidates and attempts and any TTL: a Reserve *)
(* that exhausts its attempts met an occupation that was confirmed or      *)
(* still valid when it began, or as many different expired ones as it had  *)
(* attempts.                                                               *)
(***************************************************************************)
THEOREM AllocatorRefusals == Spec => []ExpiredHoldsDoNotRefuse
<1>1. RefusalInv => ExpiredHoldsDoNotRefuse
    <2> SUFFICES ASSUME RefusalInv, NEW i \in Call,
                        handler[i].reply = "unavailable",
                        handler[i].attempt > MaxAttempts,
                        handler[i].req.fit # {}
                 PROVE  \/ \E j \in Rivals(i) : \/ table[j].expires = NULL
                                                \/ table[j].expires > handler[i].began
                        \/ \E J \in SUBSET Rivals(i) : \E f \in [1..MaxAttempts -> J] :
                             \A m, n \in 1..MaxAttempts : f[m] = f[n] => m = n
        BY DEF ExpiredHoldsDoNotRefuse
    <2> TypeOK /\ RefusalOk(i) /\ IdleOk
        BY DEF RefusalInv, AllocatorInv
    <2>1. \A j \in Call : Rival(i, j) => j \in Rivals(i)
        BY DEF Rival, Rivals
    <2>2. handler[i].pc # "idle"
        BY NumberAssumption DEF IdleOk
    <2>3. CASE \E j \in Call : Standing(i, j)
        BY <2>1, <2>3 DEF Standing
    <2>4. ASSUME NEW f \in [1..Failed(i) -> Call],
                 \A m \in 1..Failed(i) : Beaten(i, f[m]),
                 \A m, n \in 1..Failed(i) : f[m] = f[n] => m = n
          PROVE  \E g \in [1..MaxAttempts -> Rivals(i)] :
                    \A m, n \in 1..MaxAttempts : g[m] = g[n] => m = n
        <3>1. 1..MaxAttempts \subseteq 1..Failed(i)
            BY NumberAssumption DEF Failed, TypeOK, Handler
        <3>2. \A m \in 1..MaxAttempts : f[m] \in Rivals(i)
            BY <2>1, <2>4, <3>1 DEF Beaten
        <3> DEFINE g == [m \in 1..MaxAttempts |-> f[m]]
        <3>3. g \in [1..MaxAttempts -> Rivals(i)]
            BY <3>2
        <3>4. \A m, n \in 1..MaxAttempts : g[m] = g[n] => m = n
            BY <2>4, <3>1
        <3>5. QED
            BY <3>3, <3>4
    <2>5. Rivals(i) \in SUBSET Rivals(i)
        OBVIOUS
    <2>6. QED
        BY <2>2, <2>3, <2>4, <2>5 DEF RefusalOk
<1>2. QED
    BY <1>1, RefusalInvariant, PTL

=============================================================================
