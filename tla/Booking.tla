------------------------------ MODULE Booking -------------------------------
(***************************************************************************)
(* The Booking service: concurrent HTTP calls (POST /holds, POST           *)
(* /appointments with and without holdId, DELETE /appointments/{id}), the  *)
(* sweeper, the appointment table, and the two allocators it calls over    *)
(* gRPC, each a copy of the specification Ledger.  One step is one         *)
(* statement on the booking database or one RPC.                           *)
(*                                                                         *)
(* There is no clock: a hold of an allocator lapses, and an appointment's  *)
(* hold expires, at any time and in any order, which covers every duration *)
(* of the steps in between.  Ids are random UUIDs, so the appointment and  *)
(* the two occupations a call creates are named after the call.            *)
(***************************************************************************)
EXTENDS Claims, FiniteSets

CONSTANTS
    Call,        \* HTTP calls to Booking
    Body,        \* request bodies of POST /holds and of POST /appointments
    Key,         \* Idempotency-Key values
    Nil, NoKey, NoBody,
    Fit,         \* Fit[b]: the technician claims that can serve body b
    Bays,        \* service bays
    Script,      \* Script[c]: the requests call c may carry
    MayStop,     \* bound: the calls that may be abandoned half way
    SweepLimit,  \* sweepLimit
    MaxFaults    \* bound: failed or lost RPCs and statements, crashes

ASSUME NilAssumption == Nil \notin Call /\ NoKey \notin Key /\ NoBody \notin Body

(* hold is the holdId or {id} of a request about an existing appointment;  *)
(* there Nil is an id that no appointment has.                             *)
Request == [kind : {"hold", "book", "promote", "cancel"},
            body : Body \cup {NoBody}, hold : Call \cup {Nil},
            key : Key \cup {NoKey}]

ASSUME ScriptAssumption ==
    /\ Script \in [Call -> SUBSET Request]
    /\ \A c \in Call : \A r \in Script[c] :
         r.kind \in {"hold", "book"} => r.body \in Body

BayClaim(b, on) == [res |-> b, from |-> on.from, to |-> on.to]

ASSUME FitAssumption ==
    /\ Fit \in [Body -> SUBSET Claim]
    /\ \A x \in Body : \A on \in Fit[x], b \in Bays : BayClaim(b, on) \in Claim

ASSUME BoundAssumption == SweepLimit \in Nat \ {0} /\ MaxFaults \in Nat

VARIABLES
    rows,        \* the appointment table
    h,           \* the HTTP handlers
    techLedger,  \* the Technician allocator
    bayLedger,   \* the Bay allocator
    sw,          \* the sweeper
    late,        \* RPCs Booking has given up on that may still execute
    faults       \* faults so far

vars == <<rows, h, techLedger, bayLedger, sw, late, faults>>
ledgers == <<techLedger, bayLedger>>
env == <<late, faults>>

Tech == INSTANCE Ledger WITH OccId <- Call, ledger <- techLedger
Bay == INSTANCE Ledger WITH OccId <- Call, ledger <- bayLedger

-----------------------------------------------------------------------------
(* State.                                                                  *)

Fingerprint(hold, body) == [hold |-> hold, body |-> body]
NoFp == Fingerprint(Nil, NoBody)

NoRow == [status |-> "NONE", tech |-> Nil, bay |-> Nil, expired |-> FALSE,
          key |-> NoKey, fp |-> NoFp]

(* expired: hold_expires_at <= now(); FALSE also stands for NULL. *)
Row == [status : {"NONE", "HELD", "CONFIRMED", "CANCELLED"},
        tech : Call \cup {Nil}, bay : Call \cup {Nil}, expired : BOOLEAN,
        key : Key \cup {NoKey},
        fp : [hold : Call \cup {Nil}, body : Body \cup {NoBody}]]

NoReq == [kind |-> "hold", body |-> NoBody, hold |-> Nil, key |-> NoKey]

(***************************************************************************)
(* pc names the statement or RPC the handler is about to make.  row, tech  *)
(* and bay are what it knows of its appointment; reply is set when the     *)
(* outcome is decided and sent when pc is "done".                          *)
(***************************************************************************)
RpcPc == {"reserveTech", "reserveBay", "confTech", "confBay", "relBay", "relTech"}
StorePc == {"lookup", "insert", "promote", "recheck", "recheckUniq", "reget",
            "get", "keycheck", "cancelGet", "cancelUpdate"}
Reply == {"none", "200", "201", "204", "400", "404", "409", "conflict", "500", "lost"}

Handler == [pc : {"idle", "done"} \cup RpcPc \cup StorePc,
            req : Request, row : Call \cup {Nil},
            tech : Call \cup {Nil}, bay : Call \cup {Nil}, reply : Reply]

Idle == [pc |-> "idle", req |-> NoReq, row |-> Nil, tech |-> Nil, bay |-> Nil,
         reply |-> "none"]

(* ok: both Releases of the current row succeeded so far. *)
Sweeper == [pc : {"idle", "next", "relBay", "relTech", "clear"}, pass : {1, 2},
            todo : SUBSET Call, cur : Call \cup {Nil}, ok : BOOLEAN]

SweeperIdle == [pc |-> "idle", pass |-> 1, todo |-> {}, cur |-> Nil, ok |-> TRUE]

Message == [at : {"tech", "bay"}, op : {"reserve", "confirm", "release"}, id : Call]

Init ==
    /\ rows = [c \in Call |-> NoRow]
    /\ h = [c \in Call |-> Idle]
    /\ Tech!Init /\ Bay!Init
    /\ sw = SweeperIdle
    /\ late = {}
    /\ faults = 0

-----------------------------------------------------------------------------
(* Steps of a handler.                                                     *)

Goto(c, pc) == h' = [h EXCEPT ![c].pc = pc]
Done(c, reply) ==
    h' = [h EXCEPT ![c].pc = "done", ![c].reply = reply,
                   ![c].tech = Nil, ![c].bay = Nil]

(* releaseBoth, then the answer. *)
Compensate(c, reply) == h' = [h EXCEPT ![c].pc = "relBay", ![c].reply = reply]

FirstPc(r) ==
    CASE r.kind = "promote" -> "get"
      [] r.kind = "cancel" -> "cancelGet"
      [] r.kind = "book" /\ r.key # NoKey -> "lookup"
      [] OTHER -> "reserveTech"

(* A client knows the id of an appointment from an answer. *)
Known(id) ==
    \E d \in Call : /\ h[d].pc = "done" /\ h[d].row = id
                    /\ h[d].reply \in {"200", "201"}

RowOf(id) == IF id = Nil THEN NoRow ELSE rows[id]

(* The checks before any claim (JSON, parseStart, the Catalog snapshot,    *)
(* withinHours) pass or answer 400; a key on POST /holds is always 400.    *)
Arrive(c) ==
    /\ h[c].pc = "idle"
    /\ \E r \in Script[c] :
       /\ r.hold # Nil => Known(r.hold)
       /\ \/ /\ r.kind \in {"hold", "book"}
             /\ h' = [h EXCEPT ![c].req = r, ![c].pc = "done", ![c].reply = "400"]
          \/ /\ r.kind = "hold" => r.key = NoKey
             /\ h' = [h EXCEPT ![c].req = r, ![c].pc = FirstPc(r)]
    /\ UNCHANGED <<rows, ledgers, sw, env>>

(* GetConfirmedByIdempotencyKey *)
ConfirmedWith(key) ==
    {r \in Call : rows[r].status = "CONFIRMED" /\ rows[r].key = key}

(* Service.replay *)
LookupAnyFingerprint(c) ==
    /\ h[c].pc = "lookup"
    /\ LET prior == ConfirmedWith(h[c].req.key) IN
         \/ prior = {} /\ Goto(c, "reserveTech")
         \/ \E r \in prior : h' = [h EXCEPT ![c].pc = "done", ![c].row = r,
                                            ![c].reply = "200"]
    /\ UNCHANGED <<rows, ledgers, sw, env>>
Lookup(c) ==
    /\ h[c].pc = "lookup"
    /\ LET prior == ConfirmedWith(h[c].req.key)
           fp == Fingerprint(Nil, h[c].req.body)
       IN \/ prior = {} /\ Goto(c, "reserveTech")
          \/ \E r \in prior : /\ rows[r].fp = fp
                              /\ h' = [h EXCEPT ![c].pc = "done", ![c].row = r,
                                                ![c].reply = "200"]
          \/ \E r \in prior : rows[r].fp # fp /\ Done(c, "conflict")
    /\ UNCHANGED <<rows, ledgers, sw, env>>

(* reserveSaga, step 4.  The allocator may refuse whatever its state.      *)
ReserveTech(c) ==
    /\ h[c].pc = "reserveTech"
    /\ \/ /\ \E on \in Fit[h[c].req.body], s \in {"held", "lapsed"} :
               Tech!Reserve(c, on, s)
          /\ h' = [h EXCEPT ![c].pc = "reserveBay", ![c].tech = c]
       \/ Done(c, "409") /\ UNCHANGED techLedger
    /\ UNCHANGED <<rows, bayLedger, sw, env>>

(* reserveSaga, step 5, over the interval the technician was claimed for.  *)
ReserveBayNoRelease(c) ==
    /\ h[c].pc = "reserveBay"
    /\ \/ /\ \E b \in Bays, s \in {"held", "lapsed"} :
               Bay!Reserve(c, BayClaim(b, techLedger[c].on), s)
          /\ h' = [h EXCEPT ![c].pc = "insert", ![c].bay = c]
       \/ Done(c, "409") /\ UNCHANGED bayLedger
    /\ UNCHANGED <<rows, techLedger, sw, env>>
ReserveBay(c) ==
    /\ h[c].pc = "reserveBay"
    /\ \/ /\ \E b \in Bays, s \in {"held", "lapsed"} :
               Bay!Reserve(c, BayClaim(b, techLedger[c].on), s)
          /\ h' = [h EXCEPT ![c].pc = "insert", ![c].bay = c]
       \/ /\ h' = [h EXCEPT ![c].pc = "relTech", ![c].reply = "409"]
          /\ UNCHANGED bayLedger
    /\ UNCHANGED <<rows, techLedger, sw, env>>

(* Store.InsertHeld *)
Inserted(c) ==
    [rows EXCEPT ![c] = [NoRow EXCEPT !.status = "HELD", !.tech = h[c].tech,
                                      !.bay = h[c].bay]]

(* The row, then 201 for a hold and promoteConfirmed for a booking. *)
InsertHeld(c) ==
    /\ h[c].pc = "insert"
    /\ rows' = Inserted(c)
    /\ \/ /\ h[c].req.kind = "hold"
          /\ h' = [h EXCEPT ![c].pc = "done", ![c].row = c, ![c].reply = "201",
                            ![c].tech = Nil, ![c].bay = Nil]
       \/ /\ h[c].req.kind = "book"
          /\ h' = [h EXCEPT ![c].pc = "confTech", ![c].row = c]
    /\ UNCHANGED <<ledgers, sw, env>>

(* confirmHold: the first Get decides.  (A HELD row has both ids, so the   *)
(* nil check of promoteConfirmed never answers.)                           *)
GetHold(c) ==
    /\ h[c].pc = "get"
    /\ LET id == h[c].req.hold
           r == RowOf(id)
       IN \/ r.status = "NONE" /\ Done(c, "404")
          \/ r.status = "CANCELLED" /\ Done(c, "409")
          \/ /\ r.status = "CONFIRMED"
             /\ h' = [h EXCEPT
                   ![c].row = id,
                   ![c].pc = IF h[c].req.key = NoKey THEN "done" ELSE "keycheck",
                   ![c].reply = IF h[c].req.key = NoKey THEN "200" ELSE "none"]
          \/ /\ r.status = "HELD"
             /\ h' = [h EXCEPT ![c].row = id, ![c].tech = r.tech,
                               ![c].bay = r.bay, ![c].pc = "confTech"]
    /\ UNCHANGED <<rows, ledgers, sw, env>>

(* confirmHold on a CONFIRMED row, with a key. *)
KeyCheck(c) ==
    /\ h[c].pc = "keycheck"
    /\ \/ ConfirmedWith(h[c].req.key) \ {h[c].row} = {} /\ Done(c, "200")
       \/ ConfirmedWith(h[c].req.key) \ {h[c].row} # {} /\ Done(c, "conflict")
    /\ UNCHANGED <<rows, ledgers, sw, env>>

(* confirmBoth: tech, then bay.  A refusal releases both. *)
ConfTech(c) ==
    /\ h[c].pc = "confTech"
    /\ \/ Tech!Confirm(h[c].tech) /\ Goto(c, "confBay")
       \/ /\ ~Tech!CanConfirm(h[c].tech)
          /\ Compensate(c, "409")
          /\ UNCHANGED techLedger
    /\ UNCHANGED <<rows, bayLedger, sw, env>>

ConfBay(c) ==
    /\ h[c].pc = "confBay"
    /\ \/ Bay!Confirm(h[c].bay) /\ Goto(c, "promote")
       \/ /\ ~Bay!CanConfirm(h[c].bay)
          /\ Compensate(c, "409")
          /\ UNCHANGED bayLedger
    /\ UNCHANGED <<rows, techLedger, sw, env>>

(* appointment_confirmed_idempotency_idx would be violated. *)
KeyNeverTaken(c) == FALSE
KeyTaken(c) ==
    h[c].req.key # NoKey /\ ConfirmedWith(h[c].req.key) \ {h[c].row} # {}

FpOf(c) ==
    IF h[c].req.kind = "promote" THEN Fingerprint(h[c].req.hold, NoBody)
                                 ELSE Fingerprint(Nil, h[c].req.body)

(* Store.Promote when its WHERE matches and the index allows it. *)
Promoted(c) ==
    [rows EXCEPT ![h[c].row] =
        [@ EXCEPT !.status = "CONFIRMED", !.expired = FALSE,
                  !.key = h[c].req.key, !.fp = FpOf(c)]]

PromoteAnyStatus(c) ==
    /\ h[c].pc = "promote"
    /\ rows' = Promoted(c) /\ Goto(c, "reget")
    /\ UNCHANGED <<ledgers, sw, env>>
Promote(c) ==
    /\ h[c].pc = "promote"
    /\ LET held == rows[h[c].row].status = "HELD"
       IN \/ held /\ ~KeyTaken(c) /\ rows' = Promoted(c) /\ Goto(c, "reget")
          \/ held /\ KeyTaken(c) /\ Goto(c, "recheckUniq") /\ UNCHANGED rows
          \/ ~held /\ Goto(c, "recheck") /\ UNCHANGED rows
    /\ UNCHANGED <<ledgers, sw, env>>

(* promoteConfirmed after a failed Promote: re-Get, then compensate unless *)
(* a concurrent confirmer has won.                                         *)
RecheckAlwaysReleases(c) ==
    /\ h[c].pc \in {"recheck", "recheckUniq"}
    /\ Compensate(c, "409")
    /\ UNCHANGED <<rows, ledgers, sw, env>>
RecheckHeldIsSuccess(c) ==
    /\ h[c].pc \in {"recheck", "recheckUniq"}
    /\ \/ rows[h[c].row].status # "CANCELLED" /\ Goto(c, "reget")
       \/ rows[h[c].row].status = "CANCELLED" /\ Compensate(c, "409")
    /\ UNCHANGED <<rows, ledgers, sw, env>>
Recheck(c) ==
    /\ h[c].pc \in {"recheck", "recheckUniq"}
    /\ LET status == rows[h[c].row].status
       IN \/ status = "CONFIRMED" /\ Goto(c, "reget")
          \/ status = "CANCELLED" /\ Compensate(c, "409")
          \/ /\ status = "HELD"
             /\ Compensate(c, IF h[c].pc = "recheckUniq" THEN "conflict" ELSE "409")
    /\ UNCHANGED <<rows, ledgers, sw, env>>

(* The Get that fetches the answer. *)
Reget(c) ==
    /\ h[c].pc = "reget"
    /\ Done(c, "201")
    /\ UNCHANGED <<rows, ledgers, sw, env>>

(* Service.Cancel *)
CancelGet(c) ==
    /\ h[c].pc = "cancelGet"
    /\ LET id == h[c].req.hold
           r == RowOf(id)
       IN \/ r.status = "NONE" /\ Done(c, "404")
          \/ /\ r.status # "NONE"
             /\ h' = [h EXCEPT ![c].row = id, ![c].tech = r.tech,
                               ![c].bay = r.bay, ![c].pc = "cancelUpdate"]
    /\ UNCHANGED <<rows, ledgers, sw, env>>

(* Store.Cancel; how many rows it updated is ignored. *)
Cancelled(S) ==
    [r \in Call |->
        IF r \in S /\ rows[r].status \in {"HELD", "CONFIRMED"}
        THEN [rows[r] EXCEPT !.status = "CANCELLED", !.expired = FALSE]
        ELSE rows[r]]

CancelUpdateNoNilCheck(c) ==
    /\ h[c].pc = "cancelUpdate"
    /\ rows' = Cancelled({h[c].row}) /\ Compensate(c, "204")
    /\ UNCHANGED <<ledgers, sw, env>>
CancelUpdate(c) ==
    /\ h[c].pc = "cancelUpdate"
    /\ rows' = Cancelled({h[c].row})
    /\ \/ h[c].tech # Nil /\ Compensate(c, "204")
       \/ h[c].tech = Nil /\ Done(c, "204")
    /\ UNCHANGED <<ledgers, sw, env>>

(* releaseBay, releaseTech *)
RelBay(c) ==
    /\ h[c].pc = "relBay"
    /\ Bay!Release(h[c].bay)
    /\ Goto(c, "relTech")
    /\ UNCHANGED <<rows, techLedger, sw, env>>

RelTech(c) ==
    /\ h[c].pc = "relTech"
    /\ Tech!Release(h[c].tech)
    /\ Done(c, h[c].reply)
    /\ UNCHANGED <<rows, bayLedger, sw, env>>

Step(c) ==
    \/ Arrive(c) \/ Lookup(c) \/ ReserveTech(c) \/ ReserveBay(c)
    \/ InsertHeld(c) \/ GetHold(c) \/ KeyCheck(c) \/ ConfTech(c) \/ ConfBay(c)
    \/ Promote(c) \/ Recheck(c) \/ Reget(c) \/ CancelGet(c) \/ CancelUpdate(c)
    \/ RelBay(c) \/ RelTech(c)

-----------------------------------------------------------------------------
(* What can go wrong with a handler.                                       *)

Pending(c) ==
    CASE h[c].pc = "reserveTech" -> [at |-> "tech", op |-> "reserve", id |-> c]
      [] h[c].pc = "reserveBay" -> [at |-> "bay", op |-> "reserve", id |-> c]
      [] h[c].pc = "confTech" -> [at |-> "tech", op |-> "confirm", id |-> h[c].tech]
      [] h[c].pc = "confBay" -> [at |-> "bay", op |-> "confirm", id |-> h[c].bay]
      [] h[c].pc = "relBay" -> [at |-> "bay", op |-> "release", id |-> h[c].bay]
      [] OTHER -> [at |-> "tech", op |-> "release", id |-> h[c].tech]

(* An RPC answers with an error although it may still execute.  The        *)
(* handler takes its error branch.                                         *)
RpcLost(c) ==
    /\ h[c].pc \in RpcPc
    /\ faults < MaxFaults /\ faults' = faults + 1
    /\ late' \in {late, late \cup {Pending(c)}}
    /\ \/ h[c].pc = "reserveTech" /\ Done(c, "409")
       \/ /\ h[c].pc = "reserveBay"
          /\ h' = [h EXCEPT ![c].pc = "relTech", ![c].reply = "409"]
       \/ h[c].pc \in {"confTech", "confBay"} /\ Compensate(c, "409")
       \/ h[c].pc = "relBay" /\ Goto(c, "relTech")
       \/ h[c].pc = "relTech" /\ Done(c, h[c].reply)
    /\ UNCHANGED <<rows, ledgers, sw>>

(* A statement on the booking database fails, or commits and its result is *)
(* lost.  The handler takes its error branch either way.                   *)
StoreLost(c) ==
    /\ h[c].pc \in StorePc
    /\ faults < MaxFaults /\ faults' = faults + 1
    /\ \/ h[c].pc \in {"lookup", "keycheck"} /\ Done(c, "500") /\ UNCHANGED rows
       \/ /\ h[c].pc \in {"get", "reget", "cancelGet"}
          /\ Done(c, "404") /\ UNCHANGED rows
       \/ /\ h[c].pc = "insert"
          /\ Compensate(c, "409")
          /\ rows' \in {rows, Inserted(c)}
       \/ /\ h[c].pc = "promote"
          /\ Goto(c, "recheck")
          /\ \/ UNCHANGED rows
             \/ /\ rows[h[c].row].status = "HELD" /\ ~KeyTaken(c)
                /\ rows' = Promoted(c)
       \/ /\ h[c].pc \in {"recheck", "recheckUniq"}
          /\ Compensate(c, "409") /\ UNCHANGED rows
       \/ /\ h[c].pc = "cancelUpdate"
          /\ Done(c, "409")
          /\ rows' \in {rows, Cancelled({h[c].row})}
    /\ UNCHANGED <<ledgers, sw, late>>

(* The client disconnects or the process dies.  Every later RPC and        *)
(* statement of the handler, compensation included, uses the cancelled     *)
(* request context and does nothing; the RPC in flight may still execute.  *)
Abandon(c) ==
    /\ c \in MayStop /\ h[c].pc \notin {"idle", "done"}
    /\ Done(c, "lost")
    /\ late' \in IF h[c].pc \in RpcPc THEN {late, late \cup {Pending(c)}} ELSE {late}
    /\ UNCHANGED <<rows, ledgers, sw, faults>>

(* An RPC that Booking has given up on reaches the allocator. *)
Execute(m) ==
    \/ /\ m.at = "tech" /\ UNCHANGED bayLedger
       /\ \/ /\ m.op = "reserve"
             /\ \E on \in Fit[h[m.id].req.body], s \in {"held", "lapsed"} :
                  Tech!Reserve(m.id, on, s)
          \/ m.op = "confirm" /\ Tech!Confirm(m.id)
          \/ m.op = "release" /\ Tech!Release(m.id)
    \/ /\ m.at = "bay" /\ UNCHANGED techLedger
       /\ \/ /\ m.op = "reserve"
             /\ \E b \in Bays, s \in {"held", "lapsed"} :
                  Bay!Reserve(m.id, BayClaim(b, techLedger[m.id].on), s)
          \/ m.op = "confirm" /\ Bay!Confirm(m.id)
          \/ m.op = "release" /\ Bay!Release(m.id)

Deliver ==
    /\ \E m \in late : Execute(m) /\ late' = late \ {m}
    /\ UNCHANGED <<rows, h, sw, faults>>

-----------------------------------------------------------------------------
(* The sweeper: sweepOnce.                                                 *)

(* At most SweepLimit rows, as many as there are.  (A row that SKIP LOCKED *)
(* skips is being changed by a statement that here comes before the batch.) *)
Batch(S) ==
    {T \in SUBSET S : \/ T = S /\ Cardinality(S) <= SweepLimit
                      \/ Cardinality(T) = SweepLimit}

ExpiredHolds == {r \in Call : rows[r].status = "HELD" /\ rows[r].expired}

(* Store.SweepBatch: CAS expired HELD to CANCELLED.  In doubt, the rows    *)
(* are cancelled and the pass ends.                                        *)
SweepBatchNoCas ==
    /\ sw.pc = "idle"
    /\ \E S \in Batch(ExpiredHolds) :
         /\ sw' = [SweeperIdle EXCEPT !.pc = "next", !.todo = S]
         /\ UNCHANGED <<rows, faults>>
    /\ UNCHANGED <<h, ledgers, late>>
SweepBatch ==
    /\ sw.pc = "idle"
    /\ \E S \in Batch(ExpiredHolds) :
         /\ rows' = Cancelled(S)
         /\ \/ /\ sw' = [SweeperIdle EXCEPT !.pc = "next", !.todo = S]
               /\ UNCHANGED faults
            \/ /\ S # {} /\ faults < MaxFaults /\ faults' = faults + 1
               /\ UNCHANGED sw
    /\ UNCHANGED <<h, ledgers, late>>

(* releaseCancelled: the next row that still has ids. *)
SweepNext ==
    /\ sw.pc = "next"
    /\ \E r \in sw.todo :
         sw' = [sw EXCEPT !.todo = @ \ {r},
                          !.cur = IF rows[r].tech = Nil THEN Nil ELSE r,
                          !.pc = IF rows[r].tech = Nil THEN "next" ELSE "relBay"]
    /\ UNCHANGED <<rows, h, ledgers, env>>

(* Store.ListCancelledNeedingRelease, after the first pass. *)
NeedRelease == {r \in Call : rows[r].status = "CANCELLED" /\ rows[r].tech # Nil}

SweepListNothing ==
    /\ sw.pc = "next" /\ sw.todo = {} /\ sw.pass = 1
    /\ sw' = SweeperIdle
    /\ UNCHANGED <<rows, h, ledgers, env>>
SweepList ==
    /\ sw.pc = "next" /\ sw.todo = {} /\ sw.pass = 1
    /\ \E S \in Batch(NeedRelease) : sw' = [sw EXCEPT !.pass = 2, !.todo = S]
    /\ UNCHANGED <<rows, h, ledgers, env>>

SweepEnd ==
    /\ sw.pc = "next" /\ sw.todo = {} /\ sw.pass = 2
    /\ sw' = SweeperIdle
    /\ UNCHANGED <<rows, h, ledgers, env>>

SweepPending ==
    IF sw.pc = "relBay"
    THEN [at |-> "bay", op |-> "release", id |-> rows[sw.cur].bay]
    ELSE [at |-> "tech", op |-> "release", id |-> rows[sw.cur].tech]

(* Bay then tech; each Release succeeds, or fails and may execute later.   *)
SweepRelBay ==
    /\ sw.pc = "relBay"
    /\ \/ /\ Bay!Release(rows[sw.cur].bay)
          /\ sw' = [sw EXCEPT !.pc = "relTech"]
          /\ UNCHANGED env
       \/ /\ faults < MaxFaults /\ faults' = faults + 1
          /\ sw' = [sw EXCEPT !.pc = "relTech", !.ok = FALSE]
          /\ late' \in {late, late \cup {SweepPending}}
          /\ UNCHANGED bayLedger
    /\ UNCHANGED <<rows, h, techLedger>>

SweepRelTech ==
    /\ sw.pc = "relTech"
    /\ \/ /\ Tech!Release(rows[sw.cur].tech)
          /\ sw' = [sw EXCEPT !.pc = "clear"]
          /\ UNCHANGED env
       \/ /\ faults < MaxFaults /\ faults' = faults + 1
          /\ sw' = [sw EXCEPT !.pc = "clear", !.ok = FALSE]
          /\ late' \in {late, late \cup {SweepPending}}
          /\ UNCHANGED techLedger
    /\ UNCHANGED <<rows, h, bayLedger>>

(* Store.ClearOccupationIDs, only after both Releases; it may fail. *)
Cleared(r) ==
    [rows EXCEPT ![r] = IF @.status = "CANCELLED"
                        THEN [@ EXCEPT !.tech = Nil, !.bay = Nil] ELSE @]

SweepClearAlways ==
    /\ sw.pc = "clear"
    /\ rows' = Cleared(sw.cur)
    /\ sw' = [sw EXCEPT !.pc = "next", !.cur = Nil, !.ok = TRUE]
    /\ UNCHANGED <<h, ledgers, env>>
SweepClear ==
    /\ sw.pc = "clear"
    /\ \/ sw.ok /\ rows' = Cleared(sw.cur) /\ UNCHANGED faults
       \/ ~sw.ok /\ UNCHANGED <<rows, faults>>
       \/ /\ sw.ok /\ faults < MaxFaults /\ faults' = faults + 1
          /\ UNCHANGED rows
    /\ sw' = [sw EXCEPT !.pc = "next", !.cur = Nil, !.ok = TRUE]
    /\ UNCHANGED <<h, ledgers, late>>

(* The process restarts in the middle of a pass, or ListCancelledNeeding-  *)
(* Release fails: the next tick starts over.                               *)
SweeperRestart ==
    /\ sw.pc # "idle"
    /\ faults < MaxFaults /\ faults' = faults + 1
    /\ sw' = SweeperIdle
    /\ late' \in IF sw.pc \in {"relBay", "relTech"}
                 THEN {late, late \cup {SweepPending}} ELSE {late}
    /\ UNCHANGED <<rows, h, ledgers>>

SweeperStep ==
    \/ SweepBatch \/ SweepNext \/ SweepList \/ SweepEnd
    \/ SweepRelBay \/ SweepRelTech \/ SweepClear

-----------------------------------------------------------------------------
(* The passage of time.                                                    *)

RowExpire(r) ==
    /\ rows[r].status = "HELD" /\ ~rows[r].expired
    /\ rows' = [rows EXCEPT ![r].expired = TRUE]
    /\ UNCHANGED <<h, ledgers, sw, env>>

TechLapse(i) ==
    /\ techLedger[i].st = "held" /\ Tech!Lapse({i})
    /\ UNCHANGED <<rows, h, bayLedger, sw, env>>
BayLapse(i) ==
    /\ bayLedger[i].st = "held" /\ Bay!Lapse({i})
    /\ UNCHANGED <<rows, h, techLedger, sw, env>>

TechReap == Tech!Reap /\ UNCHANGED <<rows, h, bayLedger, sw, env>>
BayReap == Bay!Reap /\ UNCHANGED <<rows, h, techLedger, sw, env>>

Time ==
    \/ \E i \in Call : RowExpire(i) \/ TechLapse(i) \/ BayLapse(i)
    \/ TechReap \/ BayReap

Next ==
    \/ \E c \in Call : Step(c) \/ RpcLost(c) \/ StoreLost(c) \/ Abandon(c)
    \/ Deliver
    \/ SweeperStep \/ SweeperRestart
    \/ Time

Spec == Init /\ [][Next]_vars

(***************************************************************************)
(* Nothing is assumed of handlers: any of them may stop for good, at any   *)
(* point.  The sweeper's ticker keeps firing and its statements and RPCs   *)
(* return (there is no deadline on them, so this is an assumption about    *)
(* the network); holds expire; the allocators' reapers run.                *)
(***************************************************************************)
Fairness ==
    /\ WF_vars(SweeperStep)
    /\ \A i \in Call : WF_vars(RowExpire(i)) /\ WF_vars(TechLapse(i))
                                             /\ WF_vars(BayLapse(i))
    /\ WF_vars(TechReap) /\ WF_vars(BayReap)

FairSpec == Spec /\ Fairness

-----------------------------------------------------------------------------

(* Every variable stays in its type, both ledgers in theirs, and no        *)
(* Confirm or Release RPC is made without an occupation id (deref(nil) is  *)
(* the empty id, which the allocators refuse).                             *)
TypeOK ==
    /\ rows \in [Call -> Row]
    /\ h \in [Call -> Handler]
    /\ \A c \in Call :
         /\ h[c].pc \in {"confTech", "confBay", "relBay"} => h[c].bay # Nil
         /\ h[c].pc \in {"confTech", "confBay", "relBay", "relTech"} => h[c].tech # Nil
    /\ Tech!TypeOK /\ Bay!TypeOK
    /\ sw \in Sweeper
    /\ late \subseteq Message
    /\ faults \in 0..MaxFaults

(***************************************************************************)
(* A confirmed occupation has no expiry and no reaper: it is released only *)
(* through the appointment that names it.  So at all times, whatever RPC   *)
(* or statement is lost, delayed or in doubt and whichever process dies,   *)
(* some appointment still names every confirmed occupation.                *)
(***************************************************************************)
NoOrphanConfirmed ==
    \A i \in Call :
        /\ techLedger[i].st = "confirmed" => \E r \in Call : rows[r].tech = i
        /\ bayLedger[i].st = "confirmed" => \E r \in Call : rows[r].bay = i

(***************************************************************************)
(* A CONFIRMED appointment owns both its occupations, confirmed: neither a *)
(* concurrent confirmer's compensation, nor a cancel, nor the sweeper has  *)
(* taken them away ("never release the winner's occupations").             *)
(***************************************************************************)
ConfirmedBacked ==
    \A r \in Call : rows[r].status = "CONFIRMED" =>
        /\ techLedger[rows[r].tech].st = "confirmed"
        /\ bayLedger[rows[r].bay].st = "confirmed"

(* No two CONFIRMED appointments share a technician, or a bay, at one time *)
(* ("silent overlap on one resource is the failure that matters").         *)
NoDoubleBook ==
    \A r, s \in Call :
        r # s /\ rows[r].status = "CONFIRMED" /\ rows[s].status = "CONFIRMED"
        => /\ ~Overlap(techLedger[rows[r].tech].on, techLedger[rows[s].tech].on)
           /\ ~Overlap(bayLedger[rows[r].bay].on, bayLedger[rows[s].bay].on)

(* The sweeper releases and clears only what is CANCELLED: an appointment  *)
(* promoted while the sweeper runs keeps its occupations.                  *)
SweeperOnlyTouchesCancelled ==
    \A r \in sw.todo \cup ({sw.cur} \ {Nil}) : rows[r].status = "CANCELLED"

(* Without faults, a hold or booking that answers 409 leaves nothing       *)
(* claimed behind: its compensation ran to the end.                        *)
FailureFreesClaims ==
    \A c \in Call :
        /\ h[c].pc = "done" /\ h[c].reply \in {"409", "conflict"}
        /\ h[c].req.kind \in {"hold", "book"}
        => ~Tech!Live(techLedger[c]) /\ ~Bay!Live(bayLedger[c])

(* A 201 from POST /appointments is the truth: the appointment was         *)
(* confirmed (and at most cancelled since), also when the answer came from *)
(* the re-Get after a failed or in-doubt Promote.                          *)
ConfirmedReplyIsPromoted ==
    \A c \in Call :
        /\ h[c].pc = "done" /\ h[c].reply = "201"
        /\ h[c].req.kind \in {"book", "promote"}
        => rows[h[c].row].status \in {"CONFIRMED", "CANCELLED"}

(* A cancelled appointment is never revived and a confirmed one is never a *)
(* hold again, whatever a slow confirmer does.                             *)
CancelledIsFinal ==
    [][\A r \in Call :
          /\ rows[r].status = "CANCELLED" => rows'[r].status = "CANCELLED"
          /\ rows[r].status = "CONFIRMED" => rows'[r].status # "HELD"]_vars

(* The key an appointment was booked with, or its hold confirmed with. *)
BookingKey(r) == IF h[r].req.kind = "book" THEN h[r].req.key ELSE rows[r].key

(* Two appointments with one Idempotency-Key never both stand, however     *)
(* their sagas interleave, and whether or not their callers got an answer: *)
(* a booking whose reply was lost and its retry included.                  *)
BookedOncePerKey ==
    \A a, b \in Call :
        /\ a # b /\ rows[a].status = "CONFIRMED" /\ rows[b].status = "CONFIRMED"
        /\ BookingKey(a) = BookingKey(b)
        => BookingKey(a) = NoKey

(* The fingerprint of the request that an appointment comes from. *)
OwnFp(r) == IF h[r].req.kind = "hold" THEN Fingerprint(r, NoBody)
                                      ELSE Fingerprint(Nil, h[r].req.body)

(* A booking answered with 200 replays an appointment that was booked with *)
(* the same key and the same request, never a hold that was confirmed with *)
(* the key and never someone else's.  A confirm answered with 200 is shown *)
(* the appointment it names, which was confirmed as what it is.            *)
ReplayMatches ==
    \A c \in Call : h[c].reply = "200" =>
        LET r == h[c].row IN
        \/ /\ h[c].req.kind = "book"
           /\ rows[r].key = h[c].req.key
           /\ rows[r].fp = Fingerprint(Nil, h[c].req.body)
        \/ /\ h[c].req.kind = "promote"
           /\ r = h[c].req.hold
           /\ rows[r].fp = OwnFp(r)

(***************************************************************************)
(* A resource that no CONFIRMED appointment justifies is given back: by    *)
(* compensation, by the sweeper or by the allocator's reaper, also when    *)
(* the handler stopped half way and one RPC or statement was lost.         *)
(***************************************************************************)
NoPermanentPin ==
    \A i \in Call :
        /\ Tech!Live(techLedger[i]) ~> \/ ~Tech!Live(techLedger[i])
                                       \/ rows[i].status = "CONFIRMED"
        /\ Bay!Live(bayLedger[i]) ~> \/ ~Bay!Live(bayLedger[i])
                                     \/ rows[i].status = "CONFIRMED"

(***************************************************************************)
(* openapi/booking.yaml and the comment on Confirm: "same key + same       *)
(* fingerprint replays; mismatch is a conflict".                           *)
(***************************************************************************)
SameRequestNeverConflicts ==
    \A c \in Call :
        h[c].reply = "conflict" =>
            \E r \in Call \ {c} : /\ h[r].req.key = h[c].req.key
                                  /\ h[r].req # h[c].req

=============================================================================
