------------------------------- MODULE Ledger -------------------------------
(***************************************************************************)
(* What one allocator (Technician or Bay) promises to its only caller,     *)
(* Booking: a ledger of claims on resources over half-open time intervals. *)
(* Every operation is a single atomic step; there is no clock, a hold may  *)
(* simply lapse at any time.  The module Allocator, which has the clock,   *)
(* the concurrent Reserve handlers and their retry loop, implements this   *)
(* specification; the module Booking is built on two copies of it.         *)
(***************************************************************************)
EXTENDS Claims

CONSTANT OccId  \* occupation ids (gen_random_uuid: an id is never used twice)

VARIABLE ledger

(***************************************************************************)
(* "lapsed" is a hold past its expiry that no DELETE has removed yet: it   *)
(* can no longer be confirmed and still excludes other claims.             *)
(***************************************************************************)
LiveState == {"held", "lapsed", "confirmed"}
State == {"none", "gone"} \cup LiveState

Entry == [st : State, on : Claim \cup {NoClaim}]

Live(e) == e.st \in LiveState

Free(c) == \A i \in OccId : Live(ledger[i]) => ~Overlap(ledger[i].on, c)

-----------------------------------------------------------------------------

Init == ledger = [i \in OccId |-> [st |-> "none", on |-> NoClaim]]

(* A claim starts held; it is born lapsed when the claiming statement      *)
(* waited past its own expiry.                                             *)
Reserve(i, c, s) ==
    /\ ledger[i].st = "none"
    /\ s \in {"held", "lapsed"}
    /\ Free(c)
    /\ ledger' = [ledger EXCEPT ![i] = [st |-> s, on |-> c]]

CanConfirm(i) == ledger[i].st \in {"held", "confirmed"}

Confirm(i) ==
    /\ CanConfirm(i)
    /\ ledger' = [ledger EXCEPT ![i].st = "confirmed"]

Release(i) ==
    ledger' = [ledger EXCEPT ![i].st = IF Live(ledger[i]) THEN "gone" ELSE @]

Lapse(S) ==
    ledger' = [i \in OccId |->
                 IF i \in S /\ ledger[i].st = "held"
                 THEN [ledger[i] EXCEPT !.st = "lapsed"] ELSE ledger[i]]

Reap ==
    ledger' = [i \in OccId |->
                 IF ledger[i].st = "lapsed"
                 THEN [ledger[i] EXCEPT !.st = "gone"] ELSE ledger[i]]

Next ==
    \/ \E i \in OccId, c \in Claim, s \in {"held", "lapsed"} : Reserve(i, c, s)
    \/ \E i \in OccId : Confirm(i) \/ Release(i)
    \/ \E S \in SUBSET OccId : Lapse(S)
    \/ Reap

Spec == Init /\ [][Next]_ledger

-----------------------------------------------------------------------------

TypeOK == ledger \in [OccId -> Entry]

(* A live entry carries a claim of the model, never the placeholder.       *)
LiveHasClaim == \A i \in OccId : Live(ledger[i]) => ledger[i].on \in Claim

(***************************************************************************)
(* No two live claims on one resource overlap: the EXCLUDE USING gist      *)
(* constraint of tech_occupation and bay_occupation, "silent overlap on    *)
(* one resource is the failure that matters".                              *)
(***************************************************************************)
NoOverlap ==
    \A i, j \in OccId :
        i # j /\ Live(ledger[i]) /\ Live(ledger[j])
            => ~Overlap(ledger[i].on, ledger[j].on)

=============================================================================
