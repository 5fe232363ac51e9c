------------------------- MODULE BookingReplyProofs -------------------------
(***************************************************************************)
(* Booking's answers and its idempotency keys, for any calls, scripts,     *)
(* keys and number of faults: a 201 is the truth, one key stands for one   *)
(* appointment, and a replay is of the same key and the same request.      *)
(***************************************************************************)
EXTENDS BookingProofs

(* The fate of the appointment is decided: it is no longer a hold. *)
Settled(r) == r \in Call /\ rows[r].status \in {"CONFIRMED", "CANCELLED"}

(* What a client can have learnt the id of: a hold, or a decided booking.  *)
(* A booking that is still being made is known to its own handler only.    *)
Reached(r) ==
    /\ r \in Call /\ rows[r].status # "NONE"
    /\ h[r].req.kind = "hold" \/ Settled(r)

(* The row handler c has found is the one its request names, with the      *)
(* fingerprint of the request it comes from.                               *)
ShowsOwn(c) ==
    h[c].row = h[c].req.hold /\ rows[h[c].row].fp = OwnFp(h[c].row)

(* What handler c has established when it is about to make statement pc. *)
ReplyOk(c) ==
    /\ h[c].pc # "idle" => h[c].req \in Script[c]
    /\ h[c].pc = "lookup" => h[c].req.kind = "book"
    /\ h[c].pc \in {"reserveTech", "reserveBay", "insert"} => h[c].req.kind \in {"hold", "book"}
    /\ h[c].pc = "get" =>
         /\ h[c].req.kind = "promote"
         /\ h[c].req.hold # Nil => Reached(h[c].req.hold)
    /\ h[c].pc = "keycheck" =>
         h[c].req.kind = "promote" /\ Settled(h[c].row) /\ ShowsOwn(c)
    /\ h[c].pc \in Confirming =>
         \/ /\ h[c].req.kind = "promote"
            /\ Reached(h[c].row) /\ h[c].row = h[c].req.hold
         \/ h[c].req.kind = "book" /\ h[c].row = c
    /\ h[c].pc = "reget" => Settled(h[c].row)
    /\ h[c].pc = "cancelGet" => h[c].req.kind = "cancel"
    /\ h[c].pc = "cancelUpdate" =>
         /\ h[c].req.kind = "cancel" /\ h[c].row \in Call
         /\ rows[h[c].row].status # "NONE" /\ h[c].tech \in {h[c].row, Nil}
    /\ h[c].reply \in {"200", "201"} =>
         /\ h[c].pc = "done" /\ Reached(h[c].row)
         /\ h[c].req.kind # "hold" => Settled(h[c].row)
    /\ h[c].reply = "200" => h[c].req.kind \in {"book", "promote"}
    /\ h[c].reply = "200" /\ h[c].req.kind = "promote" => ShowsOwn(c)
    /\ h[c].reply = "200" /\ h[c].req.kind = "book" =>
         /\ rows[h[c].row].key = h[c].req.key
         /\ rows[h[c].row].fp = Fingerprint(Nil, h[c].req.body)

ReplyInv == \A c \in Call : ReplyOk(c)

(* A confirmed appointment carries its own fingerprint, a confirmed        *)
(* booking also the key of its request, and the partial unique index holds. *)
KeyInv ==
    /\ \A r \in Call : rows[r].status = "CONFIRMED" =>
         /\ rows[r].fp = OwnFp(r)
         /\ h[r].req.kind = "book" => rows[r].key = h[r].req.key
    /\ \A r, s \in Call :
         rows[r].status = "CONFIRMED" /\ rows[s].status = "CONFIRMED"
         /\ rows[r].key = rows[s].key /\ rows[r].key # NoKey => r = s

-----------------------------------------------------------------------------
(* What a step does to keys and fingerprints.                              *)

(* The one statement that writes them. *)
Promotes(c) ==
    /\ h[c].pc = "promote" /\ rows[h[c].row].status = "HELD" /\ ~KeyTaken(c)
    /\ rows' = Promoted(c)

KeyKept ==
    \A r \in Call : rows[r].status \in {"CONFIRMED", "CANCELLED"} =>
        rows'[r].key = rows[r].key /\ rows'[r].fp = rows[r].fp

NoPromotion ==
    \A r \in Call : rows'[r].status = "CONFIRMED" => rows[r].status = "CONFIRMED"

(* Cancelling leaves keys alone and confirms nothing. *)
LEMMA CancelledKeepsKeys ==
    ASSUME TypeOK, NEW S, rows' = Cancelled(S)
    PROVE  KeyKept /\ NoPromotion
<1>1. ASSUME NEW r \in Call
      PROVE  /\ rows[r].status \in {"CONFIRMED", "CANCELLED"} =>
                  rows'[r].key = rows[r].key /\ rows'[r].fp = rows[r].fp
             /\ rows'[r].status = "CONFIRMED" => rows[r].status = "CONFIRMED"
    <2>1. rows[r] \in Row
        BY DEF TypeOK
    <2>2. QED
        BY <2>1 DEF Cancelled, Row
<1>2. QED
    BY <1>1 DEF KeyKept, NoPromotion

(* The INSERT writes a row that was not there. *)
LEMMA InsertedKeepsKeys ==
    ASSUME BookInv, NEW c \in Call, h[c].pc = "insert", rows' = Inserted(c)
    PROVE  KeyKept /\ NoPromotion
<1>1. rows[c].status = "NONE" /\ rows \in [Call -> Row]
    BY DEF BookInv, HandlerInv, Early, TypeOK
<1>2. QED
    BY <1>1 DEF Inserted, NoRow, KeyKept, NoPromotion

(* Promote writes the row of its handler, which was HELD. *)
LEMMA PromotesKeepsKeys ==
    ASSUME BookInv, NEW c \in Call, Promotes(c)
    PROVE  /\ KeyKept
           /\ h[c].row \in Call
           /\ rows'[h[c].row].status = "CONFIRMED"
           /\ rows'[h[c].row].key = h[c].req.key /\ rows'[h[c].row].fp = FpOf(c)
           /\ \A r \in Call \ {h[c].row} : rows'[r] = rows[r]
<1>1. h[c].row \in Call /\ rows \in [Call -> Row]
    BY DEF Promotes, BookInv, HandlerInv, Confirming, TypeOK
<1>2. rows[h[c].row] \in Row
    BY <1>1
<1>3. QED
    BY <1>1, <1>2 DEF Promotes, Promoted, KeyKept, Row

(* Every step promotes the row of one handler, under the index, or writes  *)
(* no key.                                                                 *)
LEMMA KeyStep ==
    ASSUME BookInv, [Next]_vars
    PROVE  KeyKept /\ (NoPromotion \/ \E c \in Call : Promotes(c))
<1>0. TypeOK
    BY DEF BookInv
<1>1. CASE UNCHANGED rows
    BY <1>1 DEF KeyKept, NoPromotion
<1>2. ASSUME NEW c \in Call, InsertHeld(c)
      PROVE  KeyKept /\ NoPromotion
    BY <1>2, InsertedKeepsKeys DEF InsertHeld
<1>3. ASSUME NEW c \in Call, Promotes(c)
      PROVE  KeyKept /\ \E d \in Call : Promotes(d)
    BY <1>3, PromotesKeepsKeys
<1>4. ASSUME NEW c \in Call, Promote(c)
      PROVE  UNCHANGED rows \/ Promotes(c)
    BY <1>4 DEF Promote, Promotes
<1>5. ASSUME NEW c \in Call, CancelUpdate(c)
      PROVE  KeyKept /\ NoPromotion
    BY <1>0, <1>5, CancelledKeepsKeys DEF CancelUpdate
<1>6. ASSUME NEW c \in Call, StoreLost(c)
      PROVE  UNCHANGED rows \/ Promotes(c) \/ (KeyKept /\ NoPromotion)
    BY <1>0, <1>6, InsertedKeepsKeys, CancelledKeepsKeys DEF StoreLost, Promotes
<1>7. ASSUME SweepBatch
      PROVE  KeyKept /\ NoPromotion
    BY <1>0, <1>7, CancelledKeepsKeys DEF SweepBatch
<1>8. ASSUME SweepClear
      PROVE  UNCHANGED rows \/ (KeyKept /\ NoPromotion)
    <2>1. CASE UNCHANGED rows
        BY <2>1
    <2>2. CASE rows' = Cleared(sw.cur)
        <3>1. sw.cur \in Call /\ rows[sw.cur] \in Row /\ rows \in [Call -> Row]
            BY <1>0, <1>8 DEF SweepClear, BookInv, SweepInv, TypeOK
        <3>2. QED
            BY <2>2, <3>1 DEF Cleared, KeyKept, NoPromotion, Row
    <2>3. QED
        BY <1>8, <2>1, <2>2 DEF SweepClear
<1>9. ASSUME NEW i \in Call, RowExpire(i)
      PROVE  KeyKept /\ NoPromotion
    BY <1>0, <1>9 DEF RowExpire, TypeOK, Row, KeyKept, NoPromotion
<1>10. QED
    BY <1>1, <1>2, <1>3, <1>4, <1>5, <1>6, <1>7, <1>8, <1>9, HandlerFrame, OtherFrame
    DEF Next, Step, SweeperStep, Time, vars

-----------------------------------------------------------------------------
(* What a handler has established stays true while others move.            *)

(* The effects of a step that the lemmas below rest on. *)
Effects == TechEffect /\ BayEffect /\ RowEffect /\ HandlerEffect /\ KeyKept

(* They hold of every step. *)
LEMMA EffectsStep == ASSUME BookInv, [Next]_vars PROVE Effects
<1>1. TechEffect /\ BayEffect /\ RowEffect
    BY TechStep, BayStep, RowStep
<1>2. QED
    BY <1>1, HandlerStep, KeyStep DEF Effects

(* A decided appointment stays decided, with its key and fingerprint, and  *)
(* what a client can know of stays known.                                  *)
LEMMA Lasting ==
    ASSUME BookInv, Effects, NEW r \in Call
    PROVE  /\ rows[r].status # "NONE" =>
                rows'[r].status # "NONE" /\ h'[r].req = h[r].req
           /\ rows[r].status \in {"CONFIRMED", "CANCELLED"} =>
                /\ rows'[r].status \in {"CONFIRMED", "CANCELLED"}
                /\ rows'[r].key = rows[r].key /\ rows'[r].fp = rows[r].fp
           /\ Reached(r) => Reached(r)'
<1>1. h[r].pc \in Early => rows[r].status = "NONE"
    BY DEF BookInv, HandlerInv
<1>2. rows[r].status # "NONE" =>
        rows'[r].status # "NONE" /\ h'[r].req = h[r].req
    BY <1>1 DEF Effects, RowEffect, RowChange, HandlerEffect, Early
<1>3. rows[r].status \in {"CONFIRMED", "CANCELLED"} =>
        /\ rows'[r].status \in {"CONFIRMED", "CANCELLED"}
        /\ rows'[r].key = rows[r].key /\ rows'[r].fp = rows[r].fp
    BY <1>1 DEF Effects, RowEffect, RowChange, KeyKept, Early
<1>4. QED
    BY <1>2, <1>3 DEF Reached, Settled

(* The row a handler has found goes on to be the one its request names. *)
LEMMA ShowsOwnLasts ==
    ASSUME BookInv, Effects, NEW c \in Call, ShowsOwn(c), Settled(h[c].row),
           h'[c].row = h[c].row, h'[c].req = h[c].req
    PROVE  ShowsOwn(c)'
<1>1. /\ h'[h[c].row].req = h[h[c].row].req
      /\ rows'[h[c].row].fp = rows[h[c].row].fp
    BY Lasting DEF Settled
<1>2. QED
    BY <1>1 DEF ShowsOwn, OwnFp

(* A confirmed row that a handler finds under the id its request names. *)
LEMMA ShowsOwnFound ==
    ASSUME BookInv, KeyInv, Effects, NEW c \in Call, NEW r \in Call,
           rows[r].status = "CONFIRMED", r = h[c].req.hold,
           h'[c].row = r, h'[c].req = h[c].req
    PROVE  ShowsOwn(c)'
<1>1. h'[r].req = h[r].req /\ rows'[r].fp = rows[r].fp
    BY Lasting
<1>2. rows[r].fp = OwnFp(r)
    BY DEF KeyInv
<1>3. QED
    BY <1>1, <1>2 DEF ShowsOwn, OwnFp

(* So a handler that does not move keeps what it has established. *)
LEMMA ReplyKept ==
    ASSUME BookInv, ReplyInv, Effects, NEW d \in Call, h'[d] = h[d]
    PROVE  ReplyOk(d)'
<1>1. ReplyOk(d)
    BY DEF ReplyInv
<1>2. \A r \in Call :
        /\ rows[r].status # "NONE" => rows'[r].status # "NONE" /\ h'[r].req = h[r].req
        /\ rows[r].status \in {"CONFIRMED", "CANCELLED"} =>
             /\ rows'[r].status \in {"CONFIRMED", "CANCELLED"}
             /\ rows'[r].key = rows[r].key /\ rows'[r].fp = rows[r].fp
    BY Lasting
<1>3. /\ h[d].pc = "keycheck" => ShowsOwn(d)'
      /\ h[d].reply = "200" /\ h[d].req.kind = "promote" => ShowsOwn(d)'
    BY <1>1, ShowsOwnLasts DEF ReplyOk
<1>4. QED
    BY <1>1, <1>2, <1>3 DEF ReplyOk, Reached, Settled

(* Handler c moves on, and no other does. *)
Moves(c, pc, row, tech, bay, reply) ==
    /\ \A d \in Call \ {c} : h'[d] = h[d]
    /\ h'[c].pc = pc /\ h'[c].row = row /\ h'[c].tech = tech /\ h'[c].bay = bay
    /\ h'[c].reply = reply /\ h'[c].req = h[c].req

(* Goto changes the place and nothing else. *)
LEMMA GotoMoves ==
    ASSUME TypeOK, NEW c \in Call, NEW pc, Goto(c, pc)
    PROVE  Moves(c, pc, h[c].row, h[c].tech, h[c].bay, h[c].reply)
    BY DEF TypeOK, Goto, Moves, Handler

(* Done answers and forgets both occupations. *)
LEMMA DoneMoves ==
    ASSUME TypeOK, NEW c \in Call, NEW reply, Done(c, reply)
    PROVE  Moves(c, "done", h[c].row, Nil, Nil, reply)
    BY DEF TypeOK, Done, Moves, Handler

(* Compensate decides the answer and keeps the occupations to release. *)
LEMMA CompensateMoves ==
    ASSUME TypeOK, NEW c \in Call, NEW reply, Compensate(c, reply)
    PROVE  Moves(c, "relBay", h[c].row, h[c].tech, h[c].bay, reply)
    BY DEF TypeOK, Compensate, Moves, Handler

(* It is enough to look at the handler that moves. *)
LEMMA ReplyMoved ==
    ASSUME BookInv, ReplyInv, Effects, NEW c \in Call,
           \A d \in Call \ {c} : h'[d] = h[d], ReplyOk(c)'
    PROVE  ReplyInv'
<1>1. ASSUME NEW d \in Call PROVE ReplyOk(d)'
    BY ReplyKept
<1>2. QED
    BY <1>1 DEF ReplyInv

-----------------------------------------------------------------------------
(* Every step of a handler establishes what its next statement relies on.  *)

(* A request arrives, about an appointment whose id some answer has given. *)
LEMMA ArriveReply ==
    ASSUME BookInv, ReplyInv, Effects, NEW c \in Call, Arrive(c)
    PROVE  ReplyInv'
<1>0. TypeOK /\ h[c] \in Handler /\ h[c].pc = "idle" /\ ReplyOk(c)
    BY DEF BookInv, TypeOK, Arrive, ReplyInv
<1>1. PICK r \in Script[c] :
         /\ r.hold # Nil => Known(r.hold)
         /\ \/ /\ r.kind \in {"hold", "book"}
               /\ h' = [h EXCEPT ![c].req = r, ![c].pc = "done", ![c].reply = "400"]
            \/ h' = [h EXCEPT ![c].req = r, ![c].pc = FirstPc(r)]
    BY DEF Arrive
<1>2. r \in Request
    BY ScriptAssumption
<1>3. r.hold # Nil => Reached(r.hold)'
    <2>1. ASSUME NEW d \in Call, h[d].pc = "done", h[d].row = r.hold,
                 h[d].reply \in {"200", "201"}
          PROVE  Reached(r.hold)
        BY <2>1 DEF ReplyInv, ReplyOk
    <2>2. r.hold # Nil => Reached(r.hold)
        BY <1>1, <2>1 DEF Known
    <2>3. QED
        BY <1>2, <2>2, Lasting DEF Reached
<1>4. PICK pc \in {"done", FirstPc(r)} :
         /\ \A d \in Call \ {c} : h'[d] = h[d]
         /\ h'[c].pc = pc /\ h'[c].req = r /\ h'[c].row = h[c].row
         /\ h'[c].reply \in {"none", "400"} \cup {h[c].reply}
    <2>1. CASE h' = [h EXCEPT ![c].req = r, ![c].pc = "done", ![c].reply = "400"]
        BY <1>0, <2>1 DEF TypeOK, Handler
    <2>2. CASE h' = [h EXCEPT ![c].req = r, ![c].pc = FirstPc(r)]
        BY <1>0, <2>2 DEF TypeOK, Handler
    <2>3. QED
        BY <1>1, <2>1, <2>2
<1>5. /\ FirstPc(r) \in {"get", "cancelGet", "lookup", "reserveTech"}
      /\ FirstPc(r) = "get" => r.kind = "promote"
      /\ FirstPc(r) = "cancelGet" => r.kind = "cancel"
      /\ FirstPc(r) = "lookup" => r.kind = "book"
      /\ FirstPc(r) = "reserveTech" => r.kind \in {"hold", "book"}
    BY <1>2 DEF FirstPc, Request
<1>6. h[c].reply \notin {"200", "201"}
    BY <1>0 DEF ReplyOk
<1>7. ReplyOk(c)'
    BY <1>3, <1>4, <1>5, <1>6 DEF ReplyOk, Confirming
<1>8. QED
    BY <1>4, <1>7, ReplyMoved

(* The other steps of a handler, its faults included. *)
LEMMA ReplyStep ==
    ASSUME BookInv, ReplyInv, KeyInv, [Next]_vars, Effects
    PROVE  ReplyInv'
<1>0. TypeOK /\ HandlerInv /\ RowInv /\ Nil \notin Call
    BY NilAssumption DEF BookInv
<1>h. ASSUME NEW c \in Call
      PROVE  h[c] \in Handler /\ h[c].req.hold \in Call \cup {Nil} /\ ReplyOk(c)
    BY <1>0 DEF TypeOK, Handler, Request, ReplyInv
<1>m. ASSUME NEW c \in Call, NEW pc, NEW row, NEW tech, NEW bay, NEW reply,
             Moves(c, pc, row, tech, bay, reply), ReplyOk(c)'
      PROVE  ReplyInv'
    BY <1>m, ReplyMoved DEF Moves
<1>d. ASSUME NEW c \in Call, h[c].pc # "idle", NEW reply, reply \notin {"200", "201"}, Done(c, reply)
      PROVE  ReplyInv'
    <2>1. Moves(c, "done", h[c].row, Nil, Nil, reply)
        BY <1>0, <1>d, DoneMoves
    <2>2. ReplyOk(c)'
        BY <1>d, <1>h, <2>1 DEF Moves, ReplyOk, Confirming
    <2>3. QED
        BY <1>m, <2>1, <2>2
<1>c. ASSUME NEW c \in Call, h[c].pc # "idle", NEW reply, reply \notin {"200", "201"}, Compensate(c, reply)
      PROVE  ReplyInv'
    <2>1. Moves(c, "relBay", h[c].row, h[c].tech, h[c].bay, reply)
        BY <1>0, <1>c, CompensateMoves
    <2>2. ReplyOk(c)'
        BY <1>c, <1>h, <2>1 DEF Moves, ReplyOk, Confirming
    <2>3. QED
        BY <1>m, <2>1, <2>2
<1>g. ASSUME NEW c \in Call, NEW pc, Goto(c, pc),
             \/ h[c].pc \in Confirming /\ pc \in Confirming
             \/ h[c].pc = "relBay" /\ pc = "relTech"
      PROVE  ReplyInv'
    <2>1. Moves(c, pc, h[c].row, h[c].tech, h[c].bay, h[c].reply)
        BY <1>0, <1>g, GotoMoves
    <2>2. h[c].pc \in Confirming /\ h[c].req.kind = "promote" =>
            Reached(h[c].row) /\ Reached(h[c].row)'
        BY <1>h, <2>1, Lasting DEF Moves, ReplyOk, Reached, Settled
    <2>3. ReplyOk(c)'
        BY <1>g, <1>h, <2>1, <2>2 DEF Moves, ReplyOk, Confirming
    <2>4. QED
        BY <1>m, <2>1, <2>3
<1>s. ASSUME NEW c \in Call, h[c].row \in Call, rows'[h[c].row].status \in {"CONFIRMED", "CANCELLED"},
             h[c].pc \notin {"idle", "done"}, Goto(c, "reget")
      PROVE  ReplyInv'
    <2>1. Moves(c, "reget", h[c].row, h[c].tech, h[c].bay, h[c].reply)
        BY <1>0, <1>s, GotoMoves
    <2>2. ReplyOk(c)'
        BY <1>s, <1>h, <2>1 DEF Moves, ReplyOk, Confirming, Settled
    <2>3. QED
        BY <1>m, <2>1, <2>2
<1>a. ASSUME NEW c \in Call, Settled(h[c].row), h[c].pc # "idle",
             \/ Done(c, "201")
             \/ h[c].req.kind = "promote" /\ ShowsOwn(c) /\ Done(c, "200")
      PROVE  ReplyInv'
    <2>1. PICK reply \in {"200", "201"} :
             /\ Moves(c, "done", h[c].row, Nil, Nil, reply)
             /\ reply = "200" => h[c].req.kind = "promote" /\ ShowsOwn(c)
        BY <1>0, <1>a, DoneMoves
    <2>2. h[c].row \in Call /\ rows'[h[c].row].status \in {"CONFIRMED", "CANCELLED"}
        BY <1>a, Lasting DEF Settled
    <2>3. reply = "200" => ShowsOwn(c)'
        BY <1>a, <2>1, ShowsOwnLasts DEF Moves
    <2>4. ReplyOk(c)'
        BY <1>a, <1>h, <2>1, <2>2, <2>3 DEF Moves, ReplyOk, Confirming, Settled, Reached
    <2>5. QED
        BY <1>m, <2>1, <2>4
<1>1. ASSUME NEW c \in Call, Lookup(c) PROVE ReplyInv'
    <2>0. h[c].pc = "lookup" /\ h[c].req.kind = "book"
        BY <1>1, <1>h DEF Lookup, ReplyOk
    <2>1. CASE Goto(c, "reserveTech")
        <3>1. Moves(c, "reserveTech", h[c].row, h[c].tech, h[c].bay, h[c].reply)
            BY <1>0, <2>1, GotoMoves
        <3>2. ReplyOk(c)'
            BY <1>h, <2>0, <3>1 DEF Moves, ReplyOk, Confirming
        <3>3. QED
            BY <1>m, <3>1, <3>2
    <2>2. ASSUME NEW r \in ConfirmedWith(h[c].req.key),
                 rows[r].fp = Fingerprint(Nil, h[c].req.body),
                 h' = [h EXCEPT ![c].pc = "done", ![c].row = r, ![c].reply = "200"]
          PROVE  ReplyInv'
        <3>1. r \in Call /\ rows[r].status = "CONFIRMED" /\ rows[r].key = h[c].req.key
            BY <2>2 DEF ConfirmedWith
        <3>2. Moves(c, "done", r, h[c].tech, h[c].bay, "200")
            BY <1>0, <2>2 DEF TypeOK, Moves, Handler
        <3>3. /\ rows'[r].status \in {"CONFIRMED", "CANCELLED"}
              /\ rows'[r].key = rows[r].key /\ rows'[r].fp = rows[r].fp
            BY <3>1, Lasting
        <3>4. /\ h[c].req \in Script[c]
              /\ rows'[r].key = h[c].req.key /\ rows'[r].fp = Fingerprint(Nil, h[c].req.body)
            BY <1>h, <2>0, <2>2, <3>1, <3>3 DEF ReplyOk
        <3>5. ReplyOk(c)'
            BY <2>0, <3>1, <3>2, <3>3, <3>4
            DEF Moves, ReplyOk, Confirming, Reached, Settled
        <3>6. QED
            BY <1>m, <3>2, <3>5
    <2>3. CASE Done(c, "conflict")
        BY <1>1, <1>d, <2>3 DEF Lookup
    <2>4. QED
        BY <1>1, <2>1, <2>2, <2>3 DEF Lookup
<1>2. ASSUME NEW c \in Call, ReserveTech(c) \/ ReserveBay(c) PROVE ReplyInv'
    <2>1. CASE Done(c, "409")
        BY <1>2, <1>d, <2>1 DEF ReserveTech, ReserveBay
    <2>2. ASSUME NEW pc \in {"reserveBay", "insert", "relTech"}, NEW reply, 
                 reply = h[c].reply \/ (pc = "relTech" /\ reply = "409"),
                 \E tech, bay : Moves(c, pc, h[c].row, tech, bay, reply)
          PROVE  ReplyInv'
        <3>1. ReplyOk(c)'
            BY <1>2, <1>h, <2>2 DEF ReserveTech, ReserveBay, Moves, ReplyOk, Confirming
        <3>2. QED
            BY <1>m, <2>2, <3>1
    <2>3. CASE h' = [h EXCEPT ![c].pc = "reserveBay", ![c].tech = c]
        <3>1. Moves(c, "reserveBay", h[c].row, c, h[c].bay, h[c].reply)
            BY <1>0, <2>3 DEF TypeOK, Moves, Handler
        <3>2. QED
            BY <2>2, <3>1
    <2>4. CASE h' = [h EXCEPT ![c].pc = "insert", ![c].bay = c]
        <3>1. Moves(c, "insert", h[c].row, h[c].tech, c, h[c].reply)
            BY <1>0, <2>4 DEF TypeOK, Moves, Handler
        <3>2. QED
            BY <2>2, <3>1
    <2>5. CASE h' = [h EXCEPT ![c].pc = "relTech", ![c].reply = "409"]
        <3>1. Moves(c, "relTech", h[c].row, h[c].tech, h[c].bay, "409")
            BY <1>0, <2>5 DEF TypeOK, Moves, Handler
        <3>2. QED
            BY <2>2, <3>1
    <2>6. QED
        BY <1>2, <2>1, <2>3, <2>4, <2>5 DEF ReserveTech, ReserveBay
<1>3. ASSUME NEW c \in Call, InsertHeld(c) PROVE ReplyInv'
    <2>0. h[c].pc = "insert" /\ rows'[c].status = "HELD" /\ h[c].tech = c /\ h[c].bay = c
        BY <1>0, <1>3 DEF InsertHeld, Inserted, NoRow, TypeOK, HandlerInv
    <2>1. CASE /\ h[c].req.kind = "hold"
               /\ h' = [h EXCEPT ![c].pc = "done", ![c].row = c, ![c].reply = "201",
                                 ![c].tech = Nil, ![c].bay = Nil]
        <3>1. Moves(c, "done", c, Nil, Nil, "201")
            BY <1>0, <2>1 DEF TypeOK, Moves, Handler
        <3>2. h[c].req \in Script[c] /\ h[c].req.kind = "hold"
            BY <1>h, <2>0, <2>1 DEF ReplyOk
        <3>3. ReplyOk(c)'
            BY <2>0, <3>1, <3>2 DEF Moves, ReplyOk, Confirming, Reached, Settled
        <3>4. QED
            BY <1>m, <3>1, <3>3
    <2>2. CASE h[c].req.kind = "book" /\ h' = [h EXCEPT ![c].pc = "confTech", ![c].row = c]
        <3>1. Moves(c, "confTech", c, h[c].tech, h[c].bay, h[c].reply)
            BY <1>0, <2>2 DEF TypeOK, Moves, Handler
        <3>2. ReplyOk(c)'
            BY <1>h, <2>0, <2>2, <3>1 DEF Moves, ReplyOk, Confirming
        <3>3. QED
            BY <1>m, <3>1, <3>2
    <2>3. QED
        BY <1>3, <2>1, <2>2 DEF InsertHeld
<1>4. ASSUME NEW c \in Call, GetHold(c) PROVE ReplyInv'
    <2> DEFINE id == h[c].req.hold
    <2>0. /\ h[c].pc = "get" /\ h[c].req.kind = "promote"
          /\ RowOf(id).status # "NONE" => Reached(id) /\ RowOf(id) = rows[id]
        BY <1>4, <1>h DEF GetHold, ReplyOk, RowOf, NoRow
    <2>1. CASE Done(c, "404") \/ Done(c, "409")
        BY <1>d, <2>0, <2>1
    <2>2. CASE /\ RowOf(id).status = "CONFIRMED"
               /\ h' = [h EXCEPT
                   ![c].row = id,
                   ![c].pc = IF h[c].req.key = NoKey THEN "done" ELSE "keycheck",
                   ![c].reply = IF h[c].req.key = NoKey THEN "200" ELSE "none"]
        <3>1. PICK pc \in {"done", "keycheck"}, reply \in {"200", "none"} :
                 /\ reply = "200" => pc = "done"
                 /\ h' = [h EXCEPT ![c].row = id, ![c].pc = pc, ![c].reply = reply]
            BY <2>2
        <3>2. Moves(c, pc, id, h[c].tech, h[c].bay, reply)
            BY <1>0, <3>1 DEF TypeOK, Moves, Handler
        <3>3. id \in Call /\ rows'[id].status \in {"CONFIRMED", "CANCELLED"}
            BY <2>0, <2>2, Lasting DEF Reached
        <3>4. ShowsOwn(c)'
            BY <2>0, <2>2, <3>2, <3>3, ShowsOwnFound DEF Moves
        <3>5. ReplyOk(c)'
            BY <1>h, <2>0, <3>1, <3>2, <3>3, <3>4 DEF Moves, ReplyOk, Confirming, Reached, Settled
        <3>6. QED
            BY <1>m, <3>2, <3>5
    <2>3. CASE /\ RowOf(id).status = "HELD"
               /\ h' = [h EXCEPT ![c].row = id, ![c].tech = RowOf(id).tech,
                                 ![c].bay = RowOf(id).bay, ![c].pc = "confTech"]
        <3>1. Moves(c, "confTech", id, RowOf(id).tech, RowOf(id).bay, h[c].reply)
            BY <1>0, <2>3 DEF TypeOK, Moves, Handler
        <3>2. Reached(id)'
            <4>1. id \in Call /\ Reached(id)
                BY <2>0, <2>3 DEF Reached
            <4>2. h'[c].req.hold = id
                BY <3>1 DEF Moves
            <4>3. QED
                BY <4>1, <4>2, Lasting DEF Reached, Settled
        <3>3. ReplyOk(c)'
            BY <1>h, <2>0, <3>1, <3>2 DEF Moves, ReplyOk, Confirming, Reached, Settled
        <3>4. QED
            BY <1>m, <3>1, <3>3
    <2>4. QED
        BY <1>4, <2>1, <2>2, <2>3 DEF GetHold
<1>5. ASSUME NEW c \in Call, KeyCheck(c) PROVE ReplyInv'
    <2>1. h[c].pc = "keycheck" /\ (Done(c, "200") \/ Done(c, "conflict"))
        BY <1>5 DEF KeyCheck
    <2>2. h[c].req.kind = "promote" /\ Settled(h[c].row) /\ ShowsOwn(c)
        BY <1>h, <2>1 DEF ReplyOk
    <2>3. QED
        BY <1>a, <1>d, <2>1, <2>2
<1>6. ASSUME NEW c \in Call, Reget(c) PROVE ReplyInv'
    BY <1>6, <1>a, <1>h DEF Reget, ReplyOk
<1>7. ASSUME NEW c \in Call, ConfTech(c) \/ ConfBay(c) PROVE ReplyInv'
    <2>0. h[c].pc \in Confirming
        BY <1>7 DEF ConfTech, ConfBay, Confirming
    <2>1. CASE Compensate(c, "409")
        BY <1>c, <2>0, <2>1 DEF Confirming
    <2>2. ASSUME NEW pc \in {"confBay", "promote"}, Goto(c, pc) PROVE ReplyInv'
        BY <1>0, <1>g, <2>0, <2>2 DEF Confirming
    <2>3. QED
        BY <1>7, <2>1, <2>2 DEF ConfTech, ConfBay
<1>8. ASSUME NEW c \in Call, Promote(c) PROVE ReplyInv'
    <2>0. h[c].pc \in Confirming /\ h[c].row \in Call /\ h[c].pc = "promote"
        BY <1>0, <1>8 DEF Promote, Confirming, HandlerInv
    <2>1. CASE rows[h[c].row].status = "HELD" /\ ~KeyTaken(c) /\ rows' = Promoted(c) /\ Goto(c, "reget")
        <3>1. rows'[h[c].row].status = "CONFIRMED"
            BY <2>0, <2>1, PromotesKeepsKeys DEF Promotes
        <3>2. QED
            BY <1>s, <2>0, <2>1, <3>1
    <2>2. ASSUME NEW pc \in {"recheck", "recheckUniq"}, Goto(c, pc) PROVE ReplyInv'
        BY <1>g, <2>0, <2>2 DEF Confirming
    <2>3. QED
        BY <1>8, <2>1, <2>2 DEF Promote
<1>9. ASSUME NEW c \in Call, Recheck(c) PROVE ReplyInv'
    <2>0. h[c].pc \in {"recheck", "recheckUniq"} /\ h[c].row \in Call
        BY <1>0, <1>9 DEF Recheck, Confirming, HandlerInv
    <2>1. CASE rows[h[c].row].status = "CONFIRMED" /\ Goto(c, "reget")
        <3>1. rows'[h[c].row].status \in {"CONFIRMED", "CANCELLED"}
            BY <2>0, <2>1, Lasting
        <3>2. QED
            BY <1>s, <2>0, <2>1, <3>1
    <2>2. ASSUME NEW reply \in {"409", "conflict"}, Compensate(c, reply) PROVE ReplyInv'
        BY <1>c, <2>0, <2>2
    <2>3. QED
        BY <1>9, <2>1, <2>2 DEF Recheck
<1>10. ASSUME NEW c \in Call, CancelGet(c) PROVE ReplyInv'
    <2> DEFINE id == h[c].req.hold
    <2>0. /\ h[c].pc = "cancelGet" /\ h[c].req.kind = "cancel"
          /\ RowOf(id).status # "NONE" => id \in Call /\ RowOf(id) = rows[id]
        BY <1>10, <1>h DEF CancelGet, ReplyOk, RowOf, NoRow
    <2>1. CASE Done(c, "404")
        BY <1>d, <2>0, <2>1
    <2>2. CASE /\ RowOf(id).status # "NONE"
               /\ h' = [h EXCEPT ![c].row = id, ![c].tech = RowOf(id).tech,
                                 ![c].bay = RowOf(id).bay, ![c].pc = "cancelUpdate"]
        <3>1. Moves(c, "cancelUpdate", id, RowOf(id).tech, RowOf(id).bay, h[c].reply)
            BY <1>0, <2>2 DEF TypeOK, Moves, Handler
        <3>2. id \in Call /\ rows[id].tech \in {id, Nil} /\ rows[id] = RowOf(id)
            <4>1. rows[id].status \in {"HELD", "CONFIRMED", "CANCELLED"}
                BY <1>0, <2>0, <2>2 DEF TypeOK, Row
            <4>2. QED
                BY <1>0, <2>0, <2>2, <4>1 DEF RowInv
        <3>3. rows'[id].status # "NONE"
            BY <2>2, <3>2, Lasting
        <3>4. ReplyOk(c)'
            BY <1>h, <2>0, <3>1, <3>2, <3>3 DEF Moves, ReplyOk, Confirming
        <3>5. QED
            BY <1>m, <3>1, <3>4
    <2>3. QED
        BY <1>10, <2>1, <2>2 DEF CancelGet
<1>11. ASSUME NEW c \in Call, CancelUpdate(c) PROVE ReplyInv'
    BY <1>11, <1>c, <1>d DEF CancelUpdate
<1>12. ASSUME NEW c \in Call, h[c].pc = "relBay", Goto(c, "relTech") PROVE ReplyInv'
    BY <1>12, <1>g
<1>13. ASSUME NEW c \in Call, h[c].pc = "relTech", Done(c, h[c].reply) PROVE ReplyInv'
    <2>1. h[c].reply \notin {"200", "201"}
        BY <1>13, <1>h DEF ReplyOk
    <2>2. QED
        BY <1>13, <1>d, <2>1
<1>14. ASSUME NEW c \in Call, RpcLost(c) PROVE ReplyInv'
    <2>1. CASE h[c].pc = "reserveBay" /\ h' = [h EXCEPT ![c].pc = "relTech", ![c].reply = "409"]
        <3>1. Moves(c, "relTech", h[c].row, h[c].tech, h[c].bay, "409")
            BY <1>0, <2>1 DEF TypeOK, Moves, Handler
        <3>2. ReplyOk(c)'
            BY <1>h, <2>1, <3>1 DEF Moves, ReplyOk, Confirming
        <3>3. QED
            BY <1>m, <3>1, <3>2
    <2>2. QED
        BY <1>12, <1>13, <1>14, <1>c, <1>d, <2>1 DEF RpcLost
<1>15. ASSUME NEW c \in Call, StoreLost(c) PROVE ReplyInv'
    <2>1. CASE h[c].pc = "promote" /\ Goto(c, "recheck")
        BY <1>g, <2>1 DEF Confirming
    <2>2. QED
        BY <1>15, <1>c, <1>d, <2>1 DEF StoreLost, StorePc
<1>16. ASSUME NEW c \in Call, Abandon(c) PROVE ReplyInv'
    BY <1>16, <1>d DEF Abandon
<1>17. ASSUME NEW c \in Call, Step(c) PROVE ReplyInv'
    BY <1>1, <1>2, <1>3, <1>4, <1>5, <1>6, <1>7, <1>8, <1>9, <1>10, <1>11, <1>12, <1>13,
       <1>17, ArriveReply DEF Step, RelBay, RelTech
<1>18. CASE UNCHANGED h
    BY <1>18, ReplyKept DEF ReplyInv
<1>19. QED
    BY <1>14, <1>15, <1>16, <1>17, <1>18, OtherFrame DEF Next, SweeperStep, Time, vars

(* Only its own handler promotes a booking, and the index refuses a key    *)
(* that is taken.                                                          *)
LEMMA KeyInvStep ==
    ASSUME BookInv, ReplyInv, KeyInv, [Next]_vars, Effects
    PROVE  KeyInv'
<1>1. ASSUME NEW r \in Call, rows[r].status # "NONE" PROVE h'[r].req = h[r].req
    BY <1>1, Lasting
<1>2. ASSUME NEW r \in Call, rows[r].status = "CONFIRMED"
      PROVE  rows'[r].key = rows[r].key /\ rows'[r].fp = rows[r].fp
    BY <1>2, Lasting
<1>3. CASE NoPromotion
    <2>1. \A r \in Call : rows'[r].status = "CONFIRMED" =>
            /\ rows[r].status = "CONFIRMED" /\ h'[r].req = h[r].req
            /\ rows'[r].key = rows[r].key /\ rows'[r].fp = rows[r].fp
        BY <1>1, <1>2, <1>3 DEF NoPromotion
    <2>2. QED
        BY <2>1 DEF KeyInv, OwnFp
<1>4. ASSUME NEW c \in Call, Promotes(c) PROVE KeyInv'
    <2> DEFINE p == h[c].row
    <2>1. /\ p \in Call /\ rows[p].status = "HELD"
          /\ rows'[p].key = h[c].req.key /\ rows'[p].fp = FpOf(c)
          /\ \A r \in Call \ {p} : rows'[r] = rows[r]
        BY <1>4, PromotesKeepsKeys DEF Promotes
    <2>2. \/ h[c].req.kind = "book" /\ c = p
          \/ /\ h[c].req.kind = "promote" /\ h[c].req.hold = p
             /\ h[p].req.kind = "hold"
        BY <1>4, <2>1 DEF Promotes, ReplyInv, ReplyOk, Confirming, Reached, Settled
    <2>3. h'[p].req = h[p].req
        BY <1>1, <2>1
    <2>4. ASSUME NEW r \in Call, rows'[r].status = "CONFIRMED"
          PROVE  /\ rows'[r].fp = OwnFp(r)'
                 /\ h'[r].req.kind = "book" => rows'[r].key = h'[r].req.key
        <3>1. CASE r = p
            BY <2>1, <2>2, <2>3, <2>4, <3>1 DEF FpOf, OwnFp
        <3>2. CASE r # p
            <4>1. rows'[r] = rows[r] /\ h'[r].req = h[r].req
                BY <1>1, <2>1, <2>4, <3>2
            <4>2. QED
                BY <2>4, <4>1 DEF KeyInv, OwnFp
        <3>3. QED
            BY <3>1, <3>2
    <2>5. \A s \in Call \ {p} : rows[s].status = "CONFIRMED" =>
            rows[s].key # h[c].req.key \/ h[c].req.key = NoKey
        BY <1>4 DEF Promotes, KeyTaken, ConfirmedWith
    <2>6. ASSUME NEW r \in Call, NEW s \in Call, r # s,
                 rows'[r].status = "CONFIRMED", rows'[s].status = "CONFIRMED",
                 rows'[r].key = rows'[s].key, rows'[r].key # NoKey
          PROVE  FALSE
        BY <2>1, <2>5, <2>6 DEF KeyInv
    <2>7. QED
        BY <2>4, <2>6 DEF KeyInv
<1>5. QED
    BY <1>3, <1>4, KeyStep

-----------------------------------------------------------------------------
(* The invariant and what follows from it.                                 *)

(* Nothing has been answered, and no key is in use. *)
LEMMA ReplyInit == Init => ReplyInv /\ KeyInv
    BY DEF Init, Idle, NoRow, ReplyInv, ReplyOk, KeyInv, Confirming

(* Every reachable state satisfies the invariants. *)
LEMMA ReplyInvariant == Spec => [](ReplyInv /\ KeyInv)
<1>1. BookInv /\ (ReplyInv /\ KeyInv) /\ [Next]_vars => (ReplyInv /\ KeyInv)'
    BY EffectsStep, ReplyStep, KeyInvStep
<1>2. QED
    BY <1>1, ReplyInit, BookInvariant, PTL DEF Spec

(* A 201 from POST /appointments is the truth, whatever was lost, late or  *)
(* in doubt: the appointment had been confirmed when it was sent.          *)
THEOREM BookingReplyTrue == Spec => []ConfirmedReplyIsPromoted
<1>1. ReplyInv => ConfirmedReplyIsPromoted
    BY DEF ReplyInv, ReplyOk, Settled, ConfirmedReplyIsPromoted
<1>2. QED
    BY <1>1, ReplyInvariant, PTL

(* Two appointments with one Idempotency-Key never both stand, answered or *)
(* not, for any number of calls, of keys and of faults.                    *)
THEOREM BookingOncePerKey == Spec => []BookedOncePerKey
<1>1. KeyInv => BookedOncePerKey
    BY DEF KeyInv, BookedOncePerKey, BookingKey
<1>2. QED
    BY <1>1, ReplyInvariant, PTL

(* A booking answered with 200 is a replay of an appointment booked with   *)
(* the same key and the same request; a confirm answered with 200 is shown *)
(* the appointment it names, confirmed as what it is.                      *)
THEOREM BookingReplayMatches == Spec => []ReplayMatches
<1>1. ReplyInv => ReplayMatches
    BY DEF ReplyInv, ReplyOk, ShowsOwn, ReplayMatches
<1>2. QED
    BY <1>1, ReplyInvariant, PTL

=============================================================================
