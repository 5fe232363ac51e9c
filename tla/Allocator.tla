----------------------------- MODULE Allocator ------------------------------
(***************************************************************************)
(* One allocator service with its Postgres write primary.  Technician and  *)
(* Bay run the same control (technician/reserve.go, bay/reserve.go) and    *)
(* the same background reaper (shared/pkg/reaper); they differ only in     *)
(* which claims fit a request, which is what the field fit of a request    *)
(* abstracts.                                                              *)
(*                                                                         *)
(* Reserve is not atomic: one claim statement reads a snapshot, picks a    *)
(* candidate and inserts, other transactions commit in between, and the    *)
(* GiST exclusion constraint decides.  Confirm, Release and the reaper's   *)
(* DELETE are single statements on one table and are single steps.         *)
(***************************************************************************)
EXTENDS Claims

CONSTANTS
    Call,         \* Reserve calls; a call inserts at most one occupation,
                  \* so its gen_random_uuid() is named after the call
    Request,      \* records [start, fit]: fit is the set of claims that
                  \* satisfy every predicate of the claim SQL but occupancy
    TTL,          \* interval '120 seconds'
    MaxAttempts,  \* maxReserveAttempts
    MaxTime       \* bound: the clock stops here

ASSUME RequestAssumption ==
    \A r \in Request : /\ r.start \in Nat
                       /\ r.fit \subseteq Claim
                       /\ \A c \in r.fit : c.from = r.start
ASSUME NumberAssumption ==
    TTL \in Nat \ {0} /\ MaxAttempts \in Nat \ {0} /\ MaxTime \in Nat

VARIABLES
    table,   \* the occupation table
    now,     \* now() of the database, time.Now() of the service
    handler  \* the Reserve calls

vars == <<table, now, handler>>

NULL == 0  \* hold_expires_at IS NULL; no expiry is at time 0

(* NONE: not inserted.  DELETED: inserted and removed by a reap. *)
Row == [status : {"NONE", "HELD", "CONFIRMED", "RELEASED", "DELETED"},
        on : Claim \cup {NoClaim}, expires : Nat]

NoRequest == [start |-> 0, fit |-> {}]

(***************************************************************************)
(* pc: "claim" before the claim statement, "insert" between its snapshot   *)
(* and its insert, "reap" before the inline DELETE.  stamp is now() of the *)
(* claim statement, which Postgres fixes when the statement begins.  began *)
(* is when the handler accepted the call.                                  *)
(***************************************************************************)
Handler == [pc : {"idle", "claim", "insert", "reap", "done"},
            req : Request \cup {NoRequest}, attempt : Nat,
            pick : Claim \cup {NoClaim}, stamp : Nat, began : Nat,
            reply : {"none", "ok", "invalid", "unavailable", "internal"}]

Live(r) == r.status \in {"HELD", "CONFIRMED"}
Expired(r) == r.expires # NULL /\ r.expires <= now

(* The NOT EXISTS of the claim SQL: overlapping HELD|CONFIRMED rows, the   *)
(* expired ones included.                                                  *)
Busy(c) == \E i \in Call : Live(table[i]) /\ Overlap(table[i].on, c)

-----------------------------------------------------------------------------

Blank(pc, reply) ==
    [pc |-> pc, req |-> NoRequest, attempt |-> 1, pick |-> NoClaim,
     stamp |-> 0, began |-> 0, reply |-> reply]

Init ==
    /\ table = [i \in Call |->
                  [status |-> "NONE", on |-> NoClaim, expires |-> NULL]]
    /\ now = 0
    /\ handler = [i \in Call |-> Blank("idle", "none")]

(* A handler that returns forgets its local variables. *)
Answer(i, r) ==
    handler' = [handler EXCEPT ![i] = Blank("done", r)]

ToReap(i) ==
    handler' = [handler EXCEPT ![i].pc = "reap",
                               ![i].pick = NoClaim, ![i].stamp = 0]

(* Server.Reserve: a start that is not strictly in the future is refused.  *)
Begin(i) ==
    /\ handler[i].pc = "idle"
    /\ \E r \in Request :
         \/ /\ r.start > now
            /\ handler' = [handler EXCEPT ![i].pc = "claim", ![i].req = r,
                                          ![i].began = now]
         \/ r.start <= now /\ Answer(i, "invalid")
    /\ UNCHANGED <<table, now>>

(* The subquery "picked" on the statement's snapshot: any free candidate   *)
(* (the hash order of the salt decides which), or no row at all.           *)
Pick(i) ==
    /\ handler[i].pc = "claim"
    /\ LET free == {c \in handler[i].req.fit : ~Busy(c)} IN
         \/ \E c \in free :
              handler' = [handler EXCEPT ![i].pc = "insert",
                                         ![i].pick = c, ![i].stamp = now]
         \/ /\ free = {}
            /\ ToReap(i)
    /\ UNCHANGED <<table, now>>

ClaimedInPast(i) ==
    [table EXCEPT ![i] = [status |-> "HELD", on |-> handler[i].pick,
                          expires |-> handler[i].stamp - TTL]]
Claimed(i) ==
    [table EXCEPT ![i] = [status |-> "HELD", on |-> handler[i].pick,
                          expires |-> handler[i].stamp + TTL]]

(* The insert half of the claim statement.  The exclusion constraint sees  *)
(* what committed since the snapshot: 23P01, or a HELD row.                *)
InsertUnchecked(i) ==
    /\ handler[i].pc = "insert"
    /\ table' = Claimed(i) /\ Answer(i, "ok")
    /\ UNCHANGED now
InsertNoExpiry(i) ==
    /\ handler[i].pc = "insert"
    /\ IF Busy(handler[i].pick)
       THEN ToReap(i) /\ UNCHANGED table
       ELSE /\ table' = [Claimed(i) EXCEPT ![i].expires = NULL]
            /\ Answer(i, "ok")
    /\ UNCHANGED now
Insert(i) ==
    /\ handler[i].pc = "insert"
    /\ \/ /\ Busy(handler[i].pick)
          /\ ToReap(i)
          /\ UNCHANGED table
       \/ /\ ~Busy(handler[i].pick)
          /\ table' = Claimed(i)
          /\ Answer(i, "ok")
    /\ UNCHANGED now

(* Any other error of the claim statement (connection, deadlock, context)  *)
(* is Internal.  When only the reply is lost, the row is there all the     *)
(* same and nobody knows its id.                                           *)
ClaimError(i) ==
    /\ \/ handler[i].pc \in {"claim", "insert"} /\ UNCHANGED table
       \/ /\ handler[i].pc = "insert"
          /\ ~Busy(handler[i].pick)
          /\ table' = Claimed(i)
    /\ Answer(i, "internal")
    /\ UNCHANGED now

(* DELETE ... WHERE status = 'HELD' AND hold_expires_at <= now()           *)
DeleteExpired ==
    table' = [i \in Call |->
                IF table[i].status = "HELD" /\ Expired(table[i])
                THEN [table[i] EXCEPT !.status = "DELETED"] ELSE table[i]]

(* Zero rows or a collision: delete the expired holds, then the next       *)
(* attempt, if there is one left.                                          *)
NextAttempt(i) ==
    handler' = [handler EXCEPT
        ![i].attempt = @ + 1,
        ![i].pc = IF handler[i].attempt < MaxAttempts THEN "claim" ELSE "done",
        ![i].reply = IF handler[i].attempt < MaxAttempts
                     THEN "none" ELSE "unavailable"]
RetryWithoutReap(i) ==
    /\ handler[i].pc = "reap" /\ NextAttempt(i) /\ UNCHANGED <<table, now>>
RetryForever(i) ==
    /\ handler[i].pc = "reap" /\ DeleteExpired
    /\ handler' = [handler EXCEPT ![i].pc = "claim"] /\ UNCHANGED now
ReapAndRetry(i) ==
    /\ handler[i].pc = "reap"
    /\ DeleteExpired
    /\ NextAttempt(i)
    /\ UNCHANGED now

(* The inline DELETE failed: ErrUnavailable, whatever the free capacity.   *)
ReapError(i) ==
    /\ handler[i].pc = "reap"
    /\ Answer(i, "unavailable")
    /\ UNCHANGED <<table, now>>

-----------------------------------------------------------------------------

(* Server.Confirm, where it updates a row; otherwise it changes nothing    *)
(* and answers FailedPrecondition.                                         *)
ConfirmExpired(i) ==
    /\ Live(table[i])
    /\ table' = [table EXCEPT ![i].status = "CONFIRMED", ![i].expires = NULL]
    /\ UNCHANGED <<now, handler>>
Confirm(i) ==
    /\ \/ table[i].status = "HELD" /\ ~Expired(table[i])
       \/ table[i].status = "CONFIRMED"
    /\ table' = [table EXCEPT ![i].status = "CONFIRMED", ![i].expires = NULL]
    /\ UNCHANGED <<now, handler>>

(* Server.Release: hold_expires_at keeps its value; 0 rows is a success.   *)
Release(i) ==
    /\ Live(table[i])
    /\ table' = [table EXCEPT ![i].status = "RELEASED"]
    /\ UNCHANGED <<now, handler>>

(* One tick of reaper.Start. *)
Reaper == DeleteExpired /\ UNCHANGED <<now, handler>>

Tick == now < MaxTime /\ now' = now + 1 /\ UNCHANGED <<table, handler>>

Step(i) == Begin(i) \/ Pick(i) \/ Insert(i) \/ ReapAndRetry(i)

Next ==
    \/ \E i \in Call : \/ Step(i)
                       \/ ClaimError(i) \/ ReapError(i)
                       \/ Confirm(i) \/ Release(i)
    \/ Reaper
    \/ Tick

Spec == Init /\ [][Next]_vars

(***************************************************************************)
(* A handler that runs keeps running until it answers (its statements end  *)
(* or fail), the reaper's ticker keeps firing and its DELETE eventually    *)
(* goes through, and time passes.  Confirm and Release are up to Booking.  *)
(***************************************************************************)
Fairness ==
    /\ \A i \in Call : WF_vars(Pick(i)) /\ WF_vars(Insert(i))
                                        /\ WF_vars(ReapAndRetry(i))
    /\ WF_vars(Reaper)
    /\ WF_vars(Tick)

FairSpec == Spec /\ Fairness

-----------------------------------------------------------------------------

(* Every variable stays in its type. *)
TypeOK ==
    /\ table \in [Call -> Row]
    /\ now \in Nat
    /\ handler \in [Call -> Handler]

(***************************************************************************)
(* Two live occupations of one technician (or bay) never overlap, however  *)
(* the claim statements of concurrent Reserves interleave: the promise of  *)
(* tech_occupation_no_overlap and bay_occupation_no_overlap.               *)
(***************************************************************************)
NoOverlap ==
    \A i, j \in Call :
        i # j /\ Live(table[i]) /\ Live(table[j])
            => ~Overlap(table[i].on, table[j].on)

(***************************************************************************)
(* A refusal after the last attempt is never the work of holds that had    *)
(* expired before the call: some conflicting occupation was confirmed or   *)
(* still valid when the call began, unless there were as many conflicting  *)
(* ones as attempts (each reap clears the way for the next claim).         *)
(***************************************************************************)
Rivals(i) ==
    {j \in Call \ {i} : \E c \in handler[i].req.fit : Overlap(table[j].on, c)}

ExpiredHoldsDoNotRefuse ==
    \A i \in Call :
        /\ handler[i].reply = "unavailable"
        /\ handler[i].attempt > MaxAttempts
        /\ handler[i].req.fit # {}
        => \/ \E j \in Rivals(i) : \/ table[j].expires = NULL
                                   \/ table[j].expires > handler[i].began
           \/ \E J \in SUBSET Rivals(i) : \E f \in [1..MaxAttempts -> J] :
                \A m, n \in 1..MaxAttempts : f[m] = f[n] => m = n

(* The view of the occupation table that Booking relies on. *)
LedgerView ==
    [i \in Call |->
        [st |-> CASE table[i].status = "NONE" -> "none"
                  [] table[i].status = "HELD" /\ ~Expired(table[i]) -> "held"
                  [] table[i].status = "HELD" /\ Expired(table[i]) -> "lapsed"
                  [] table[i].status = "CONFIRMED" -> "confirmed"
                  [] OTHER -> "gone",
         on |-> table[i].on]]

L == INSTANCE Ledger WITH OccId <- Call, ledger <- LedgerView

(***************************************************************************)
(* Seen from Booking, the handlers, the retry loop, the clock and the      *)
(* reaper are a ledger whose operations are atomic.                        *)
(***************************************************************************)
RefinesLedger == L!Spec

(* Every Reserve that was accepted is answered: the retry loop ends.       *)
ReserveAnswers ==
    \A i \in Call : handler[i].pc # "idle" ~> handler[i].pc = "done"

(* A hold, also one whose Reserve reply was lost and whose id nobody       *)
(* knows, is confirmed, released or reaped: it never pins its resource for *)
(* longer than its TTL and a reaper tick.                                  *)
NoPermanentHold ==
    \A i \in Call : table[i].status = "HELD" /\ table[i].expires <= MaxTime
                        ~> table[i].status # "HELD"

=============================================================================
