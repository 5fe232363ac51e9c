------------------------ MODULE BookingBackedProofs -------------------------
(***************************************************************************)
(* Booking without faults, for any calls and scripts: a CONFIRMED          *)
(* appointment owns both its occupations, no two overlap, and a refused    *)
(* request leaves nothing claimed.  Handlers may still stop at any point   *)
(* and the RPC they had in flight may execute at any later time.           *)
(***************************************************************************)
EXTENDS BookingReplyProofs

(* No RPC and no statement fails, and the sweeper is not restarted. *)
NoFaults == MaxFaults = 0

(* POST /appointments with a holdId comes without an Idempotency-Key.  (A  *)
(* booking without a hold may carry one.)                                  *)
KeylessConfirms ==
    \A c \in Call : \A r \in Script[c] : r.kind = "promote" => r.key = NoKey

-----------------------------------------------------------------------------
(* Why an occupation changes.                                              *)

(* Someone is about to release the occupation of appointment i. *)
Releaser(at, i) ==
    \/ at = "tech" /\ \E c \in Call : h[c].pc = "relTech" /\ h[c].tech = i
    \/ at = "bay" /\ \E c \in Call : h[c].pc = "relBay" /\ h[c].bay = i
    \/ \E m \in late : m.op = "release" /\ m.at = at /\ m.id = i
    \/ rows[i].status = "CANCELLED"

(* Call i claims, or its claim arrives late. *)
Claimer(at, i) ==
    \/ at = "tech" /\ h[i].pc = "reserveTech" /\ h'[i].pc = "reserveBay"
    \/ at = "bay" /\ h[i].pc = "reserveBay" /\ h'[i].pc = "insert"
    \/ \E m \in late : m.op = "reserve" /\ m.at = at /\ m.id = i

TechCause ==
    \/ UNCHANGED techLedger
    \/ \E i \in Call : Releaser("tech", i) /\ Tech!Release(i)
    \/ \E i \in Call : Tech!Confirm(i)
    \/ \E i \in Call, on \in Claim, s \in {"held", "lapsed"} :
         Claimer("tech", i) /\ Tech!Reserve(i, on, s)
    \/ Tech!Reap \/ \E S \in SUBSET Call : Tech!Lapse(S)

BayCause ==
    \/ UNCHANGED bayLedger
    \/ \E i \in Call : Releaser("bay", i) /\ Bay!Release(i)
    \/ \E i \in Call : Bay!Confirm(i)
    \/ \E i \in Call, on \in Claim, s \in {"held", "lapsed"} :
         Claimer("bay", i) /\ Bay!Reserve(i, on, s)
    \/ Bay!Reap \/ \E S \in SUBSET Call : Bay!Lapse(S)

(* Every step uses the Technician allocator in one of these ways. *)
LEMMA TechCaused == ASSUME BookInv, [Next]_vars PROVE TechCause
<1>0. TypeOK /\ HandlerInv /\ LateInv
    BY DEF BookInv
<1>1. ASSUME NEW c \in Call, ReserveTech(c) PROVE TechCause
    <2>1. CASE UNCHANGED techLedger
        BY <2>1 DEF TechCause
    <2>2. CASE /\ \E on \in Fit[h[c].req.body], s \in {"held", "lapsed"} : Tech!Reserve(c, on, s)
               /\ h' = [h EXCEPT ![c].pc = "reserveBay", ![c].tech = c]
        <3>1. Fit[h[c].req.body] \subseteq Claim
            BY <1>0, <1>1, FitAssumption DEF ReserveTech, HandlerInv, Early
        <3>2. Claimer("tech", c)
            BY <1>0, <1>1, <2>2 DEF ReserveTech, Claimer, TypeOK, Handler
        <3>3. QED
            BY <2>2, <3>1, <3>2 DEF TechCause
    <2>3. QED
        BY <1>1, <2>1, <2>2 DEF ReserveTech
<1>2. ASSUME NEW c \in Call, ConfTech(c) PROVE TechCause
    <2>1. h[c].tech \in Call
        BY <1>0, <1>2 DEF ConfTech, HandlerInv, Confirming
    <2>2. QED
        BY <1>2, <2>1 DEF ConfTech, TechCause
<1>3. ASSUME NEW c \in Call, RelTech(c) PROVE TechCause
    <2>1. h[c].tech \in Call
        BY <1>0, <1>3 DEF RelTech, TypeOK, Handler
    <2>2. QED
        BY <1>3, <2>1 DEF RelTech, TechCause, Releaser
<1>4. CASE Deliver
    <2>1. PICK m \in late : Execute(m)
        BY <1>4 DEF Deliver
    <2>2. m.id \in Call
        BY <1>0 DEF TypeOK, Message
    <2>3. CASE m.op = "reserve" /\ m.at = "tech"
        <3>1. Fit[h[m.id].req.body] \subseteq Claim
            BY <1>0, <2>3, FitAssumption DEF LateInv
        <3>2. Claimer("tech", m.id)
            BY <2>3 DEF Claimer
        <3>3. QED
            BY <2>1, <2>2, <2>3, <3>1, <3>2 DEF Execute, TechCause
    <2>4. CASE m.op = "confirm" /\ m.at = "tech"
        BY <2>1, <2>2, <2>4 DEF Execute, TechCause
    <2>5. CASE m.op = "release" /\ m.at = "tech"
        BY <2>1, <2>2, <2>5 DEF Execute, TechCause, Releaser
    <2>6. CASE m.at = "bay"
        BY <2>1, <2>6 DEF Execute, TechCause
    <2>7. QED
        BY <2>1, <2>3, <2>4, <2>5, <2>6 DEF Execute
<1>5. CASE SweepRelTech
    <2>1. sw.cur \in Call /\ rows[sw.cur].tech = sw.cur /\ rows[sw.cur].status = "CANCELLED"
        BY <1>5 DEF SweepRelTech, BookInv, SweepInv
    <2>2. QED
        BY <1>5, <2>1 DEF SweepRelTech, TechCause, Releaser
<1>6. CASE TechReap \/ \E i \in Call : TechLapse(i)
    BY <1>6 DEF TechReap, TechLapse, TechCause
<1>7. CASE UNCHANGED techLedger
    BY <1>7 DEF TechCause
<1>8. QED
    BY <1>1, <1>2, <1>3, <1>4, <1>5, <1>6, <1>7, HandlerFrame, OtherFrame
    DEF Next, Step, SweeperStep, Time, vars

(* The same of the Bay allocator. *)
LEMMA BayCaused == ASSUME BookInv, [Next]_vars PROVE BayCause
<1>0. TypeOK /\ HandlerInv /\ LateInv /\ ClaimInv
    BY DEF BookInv
<1>f. ASSUME NEW i \in Call, techLedger[i].st # "none", NEW b \in Bays
      PROVE  BayClaim(b, techLedger[i].on) \in Claim
    BY <1>0, <1>f, FitAssumption DEF ClaimInv
<1>1. ASSUME NEW c \in Call, ReserveBay(c) PROVE BayCause
    <2>1. CASE UNCHANGED bayLedger
        BY <2>1 DEF BayCause
    <2>2. CASE /\ \E b \in Bays, s \in {"held", "lapsed"} :
                    Bay!Reserve(c, BayClaim(b, techLedger[c].on), s)
               /\ h' = [h EXCEPT ![c].pc = "insert", ![c].bay = c]
        <3>1. \A b \in Bays : BayClaim(b, techLedger[c].on) \in Claim
            BY <1>0, <1>1, <1>f DEF ReserveBay, HandlerInv
        <3>2. Claimer("bay", c)
            BY <1>0, <1>1, <2>2 DEF ReserveBay, Claimer, TypeOK, Handler
        <3>3. QED
            BY <2>2, <3>1, <3>2 DEF BayCause
    <2>3. QED
        BY <1>1, <2>1, <2>2 DEF ReserveBay
<1>2. ASSUME NEW c \in Call, ConfBay(c) PROVE BayCause
    <2>1. h[c].bay \in Call
        BY <1>0, <1>2 DEF ConfBay, HandlerInv, Confirming
    <2>2. QED
        BY <1>2, <2>1 DEF ConfBay, BayCause
<1>3. ASSUME NEW c \in Call, RelBay(c) PROVE BayCause
    <2>1. h[c].bay \in Call
        BY <1>0, <1>3 DEF RelBay, TypeOK, Handler
    <2>2. QED
        BY <1>3, <2>1 DEF RelBay, BayCause, Releaser
<1>4. CASE Deliver
    <2>1. PICK m \in late : Execute(m)
        BY <1>4 DEF Deliver
    <2>2. m.id \in Call
        BY <1>0 DEF TypeOK, Message
    <2>3. CASE m.op = "reserve" /\ m.at = "bay"
        <3>1. \A b \in Bays : BayClaim(b, techLedger[m.id].on) \in Claim
            BY <1>0, <1>f, <2>2, <2>3 DEF LateInv
        <3>2. Claimer("bay", m.id)
            BY <2>3 DEF Claimer
        <3>3. QED
            BY <2>1, <2>2, <2>3, <3>1, <3>2 DEF Execute, BayCause
    <2>4. CASE m.op = "confirm" /\ m.at = "bay"
        BY <2>1, <2>2, <2>4 DEF Execute, BayCause
    <2>5. CASE m.op = "release" /\ m.at = "bay"
        BY <2>1, <2>2, <2>5 DEF Execute, BayCause, Releaser
    <2>6. CASE m.at = "tech"
        BY <2>1, <2>6 DEF Execute, BayCause
    <2>7. QED
        BY <2>1, <2>3, <2>4, <2>5, <2>6 DEF Execute
<1>5. CASE SweepRelBay
    <2>1. sw.cur \in Call /\ rows[sw.cur].bay = sw.cur /\ rows[sw.cur].status = "CANCELLED"
        BY <1>5 DEF SweepRelBay, BookInv, SweepInv
    <2>2. QED
        BY <1>5, <2>1 DEF SweepRelBay, BayCause, Releaser
<1>6. CASE BayReap \/ \E i \in Call : BayLapse(i)
    BY <1>6 DEF BayReap, BayLapse, BayCause
<1>7. CASE UNCHANGED bayLedger
    BY <1>7 DEF BayCause
<1>8. QED
    BY <1>1, <1>2, <1>3, <1>4, <1>5, <1>6, <1>7, HandlerFrame, OtherFrame
    DEF Next, Step, SweeperStep, Time, vars

(* Whatever Booking does with the two allocators, late, repeated and       *)
(* compensating RPCs included, each of them sees a behaviour of Ledger:    *)
(* the specification that the module Allocator implements.                 *)
THEOREM BookingUsesLedgers == Spec => Tech!Spec /\ Bay!Spec
<1>1. BookInv /\ [Next]_vars => [Tech!Next]_techLedger /\ [Bay!Next]_bayLedger
    <2> SUFFICES ASSUME BookInv, [Next]_vars
                 PROVE  [Tech!Next]_techLedger /\ [Bay!Next]_bayLedger
        OBVIOUS
    <2>1. TechCause /\ BayCause
        BY TechCaused, BayCaused
    <2>2. [Tech!Next]_techLedger
        BY <2>1 DEF TechCause, Tech!Next
    <2>3. [Bay!Next]_bayLedger
        BY <2>1 DEF BayCause, Bay!Next
    <2>4. QED
        BY <2>2, <2>3
<1>2. Init => Tech!Init /\ Bay!Init
    BY DEF Init
<1>3. QED
    BY <1>1, <1>2, BookInvariant, PTL DEF Spec, Tech!Spec, Bay!Spec

-----------------------------------------------------------------------------
(* What becomes of an occupation.                                          *)

(* A confirmed one is lost only to a Release; a dead one stays dead. *)
LEMMA TechFate ==
    ASSUME BookInv, TechCause, NEW i \in Call
    PROVE  /\ techLedger[i].st = "confirmed" =>
                techLedger'[i].st = "confirmed" \/ Releaser("tech", i)
           /\ techLedger[i].st \in {"lapsed", "gone"} => techLedger'[i].st \in {"lapsed", "gone"}
           /\ techLedger[i].st = "gone" => techLedger'[i].st = "gone"
           /\ techLedger[i].st = "none" => techLedger'[i].st = "none" \/ Claimer("tech", i)
<1>1. techLedger \in [Call -> [st : Sts, on : Claim \cup {NoClaim}]]
    BY TechTyped DEF BookInv, TypeOK
<1>2. CASE UNCHANGED techLedger
    BY <1>2
<1>3. CASE \E j \in Call : Releaser("tech", j) /\ Tech!Release(j)
    BY <1>1, <1>3 DEF Tech!Release, Tech!Live, Tech!LiveState
<1>4. CASE \E j \in Call : Tech!Confirm(j)
    BY <1>1, <1>4 DEF Tech!Confirm, Tech!CanConfirm
<1>5. CASE \E j \in Call, on \in Claim, s \in {"held", "lapsed"} :
             Claimer("tech", j) /\ Tech!Reserve(j, on, s)
    BY <1>1, <1>5 DEF Tech!Reserve
<1>6. CASE Tech!Reap \/ \E S \in SUBSET Call : Tech!Lapse(S)
    BY <1>1, <1>6 DEF Tech!Reap, Tech!Lapse
<1>7. QED
    BY <1>2, <1>3, <1>4, <1>5, <1>6 DEF TechCause

(* The same of bays. *)
LEMMA BayFate ==
    ASSUME BookInv, BayCause, NEW i \in Call
    PROVE  /\ bayLedger[i].st = "confirmed" =>
                bayLedger'[i].st = "confirmed" \/ Releaser("bay", i)
           /\ bayLedger[i].st \in {"lapsed", "gone"} => bayLedger'[i].st \in {"lapsed", "gone"}
           /\ bayLedger[i].st = "gone" => bayLedger'[i].st = "gone"
           /\ bayLedger[i].st = "none" => bayLedger'[i].st = "none" \/ Claimer("bay", i)
<1>1. bayLedger \in [Call -> [st : Sts, on : Claim \cup {NoClaim}]]
    BY BayTyped DEF BookInv, TypeOK
<1>2. CASE UNCHANGED bayLedger
    BY <1>2
<1>3. CASE \E j \in Call : Releaser("bay", j) /\ Bay!Release(j)
    BY <1>1, <1>3 DEF Bay!Release, Bay!Live, Bay!LiveState
<1>4. CASE \E j \in Call : Bay!Confirm(j)
    BY <1>1, <1>4 DEF Bay!Confirm, Bay!CanConfirm
<1>5. CASE \E j \in Call, on \in Claim, s \in {"held", "lapsed"} :
             Claimer("bay", j) /\ Bay!Reserve(j, on, s)
    BY <1>1, <1>5 DEF Bay!Reserve
<1>6. CASE Bay!Reap \/ \E S \in SUBSET Call : Bay!Lapse(S)
    BY <1>1, <1>6 DEF Bay!Reap, Bay!Lapse
<1>7. QED
    BY <1>2, <1>3, <1>4, <1>5, <1>6 DEF BayCause

(* Reserve is the one operation that makes an entry live, and it asks for  *)
(* a free interval.                                                        *)
LEMMA TechNoOverlap ==
    ASSUME BookInv, TechCause, Tech!NoOverlap
    PROVE  Tech!NoOverlap'
<1>1. techLedger \in [Call -> [st : Sts, on : Claim \cup {NoClaim}]]
    BY TechTyped DEF BookInv, TypeOK
<1>2. ASSUME \A i \in Call : Tech!Live(techLedger'[i]) =>
               Tech!Live(techLedger[i]) /\ techLedger'[i].on = techLedger[i].on
      PROVE  Tech!NoOverlap'
    BY <1>2 DEF Tech!NoOverlap, Tech!Live, Tech!LiveState, Tech!Overlap
<1>3. CASE UNCHANGED techLedger
    BY <1>2, <1>3
<1>4. CASE \E j \in Call : Releaser("tech", j) /\ Tech!Release(j)
    BY <1>1, <1>2, <1>4 DEF Tech!Release, Tech!Live, Tech!LiveState
<1>5. CASE \E j \in Call : Tech!Confirm(j)
    BY <1>1, <1>2, <1>5 DEF Tech!Confirm, Tech!CanConfirm, Tech!Live, Tech!LiveState
<1>6. ASSUME NEW j \in Call, NEW on \in Claim, NEW s \in {"held", "lapsed"}, Tech!Reserve(j, on, s)
      PROVE  Tech!NoOverlap'
    <2>1. /\ \A i \in Call \ {j} : techLedger'[i] = techLedger[i]
          /\ techLedger'[j].on = on
          /\ \A i \in Call : Tech!Live(techLedger[i]) => ~Tech!Overlap(techLedger[i].on, on)
        BY <1>1, <1>6 DEF Tech!Reserve, Tech!Free
    <2>2. ASSUME NEW a, NEW b PROVE Tech!Overlap(a, b) <=> Tech!Overlap(b, a)
        BY DEF Tech!Overlap
    <2>3. ASSUME NEW a \in Call, NEW b \in Call, a # b,
                 Tech!Live(techLedger'[a]), Tech!Live(techLedger'[b])
          PROVE  ~Tech!Overlap(techLedger'[a].on, techLedger'[b].on)
        BY <2>1, <2>2, <2>3 DEF Tech!NoOverlap
    <2>4. QED
        BY <2>3 DEF Tech!NoOverlap, Tech!Live, Tech!LiveState, Tech!Overlap
<1>7. CASE Tech!Reap \/ \E S \in SUBSET Call : Tech!Lapse(S)
    BY <1>1, <1>2, <1>7 DEF Tech!Reap, Tech!Lapse, Tech!Live, Tech!LiveState
<1>8. QED
    BY <1>3, <1>4, <1>5, <1>6, <1>7 DEF TechCause

(* The same of bays. *)
LEMMA BayNoOverlap ==
    ASSUME BookInv, BayCause, Bay!NoOverlap
    PROVE  Bay!NoOverlap'
<1>1. bayLedger \in [Call -> [st : Sts, on : Claim \cup {NoClaim}]]
    BY BayTyped DEF BookInv, TypeOK
<1>2. ASSUME \A i \in Call : Bay!Live(bayLedger'[i]) =>
               Bay!Live(bayLedger[i]) /\ bayLedger'[i].on = bayLedger[i].on
      PROVE  Bay!NoOverlap'
    BY <1>2 DEF Bay!NoOverlap, Bay!Live, Bay!LiveState, Bay!Overlap
<1>3. CASE UNCHANGED bayLedger
    BY <1>2, <1>3
<1>4. CASE \E j \in Call : Releaser("bay", j) /\ Bay!Release(j)
    BY <1>1, <1>2, <1>4 DEF Bay!Release, Bay!Live, Bay!LiveState
<1>5. CASE \E j \in Call : Bay!Confirm(j)
    BY <1>1, <1>2, <1>5 DEF Bay!Confirm, Bay!CanConfirm, Bay!Live, Bay!LiveState
<1>6. ASSUME NEW j \in Call, NEW on \in Claim, NEW s \in {"held", "lapsed"}, Bay!Reserve(j, on, s)
      PROVE  Bay!NoOverlap'
    <2>1. /\ \A i \in Call \ {j} : bayLedger'[i] = bayLedger[i]
          /\ bayLedger'[j].on = on
          /\ \A i \in Call : Bay!Live(bayLedger[i]) => ~Bay!Overlap(bayLedger[i].on, on)
        BY <1>1, <1>6 DEF Bay!Reserve, Bay!Free
    <2>2. ASSUME NEW a, NEW b PROVE Bay!Overlap(a, b) <=> Bay!Overlap(b, a)
        BY DEF Bay!Overlap
    <2>3. ASSUME NEW a \in Call, NEW b \in Call, a # b,
                 Bay!Live(bayLedger'[a]), Bay!Live(bayLedger'[b])
          PROVE  ~Bay!Overlap(bayLedger'[a].on, bayLedger'[b].on)
        BY <2>1, <2>2, <2>3 DEF Bay!NoOverlap
    <2>4. QED
        BY <2>3 DEF Bay!NoOverlap, Bay!Live, Bay!LiveState, Bay!Overlap
<1>7. CASE Bay!Reap \/ \E S \in SUBSET Call : Bay!Lapse(S)
    BY <1>1, <1>2, <1>7 DEF Bay!Reap, Bay!Lapse, Bay!Live, Bay!LiveState
<1>8. QED
    BY <1>3, <1>4, <1>5, <1>6, <1>7 DEF BayCause

(* So at all times, faults and late RPCs included, no technician and no    *)
(* bay has two live claims that overlap.                                   *)
THEOREM BookingNoOverlap == Spec => [](Tech!NoOverlap /\ Bay!NoOverlap)
<1>1. Init => Tech!NoOverlap /\ Bay!NoOverlap
    BY DEF Init, Tech!Init, Bay!Init, Tech!NoOverlap, Bay!NoOverlap, Tech!Live, Bay!Live,
           Tech!LiveState, Bay!LiveState
<1>2. BookInv /\ (Tech!NoOverlap /\ Bay!NoOverlap) /\ [Next]_vars
        => (Tech!NoOverlap /\ Bay!NoOverlap)'
    BY TechCaused, BayCaused, TechNoOverlap, BayNoOverlap
<1>3. QED
    BY <1>1, <1>2, BookInvariant, PTL DEF Spec

-----------------------------------------------------------------------------
(* An appointment that nobody can confirm any more.                        *)

(* One of its occupations has lapsed or is gone: it cannot be confirmed. *)
Dead(r) ==
    techLedger[r].st \in {"lapsed", "gone"} \/ bayLedger[r].st \in {"lapsed", "gone"}

(* A booking whose own handler, the only one that knows it, has given up. *)
Abandoned(r) == h[r].req.kind = "book" /\ h[r].pc \notin Early \cup Confirming

Doomed(r) ==
    \/ rows[r].status = "CANCELLED"
    \/ rows[r].status = "HELD" /\ (Dead(r) \/ Abandoned(r))
    \/ rows[r].status = "NONE" /\ h[r].pc \notin Early

(***************************************************************************)
(* Occupations are released for doomed appointments only; a confirmer      *)
(* keeps what it has confirmed unless the appointment was cancelled.       *)
(***************************************************************************)
BackedOk(c) ==
    /\ h[c].pc \in {"relBay", "relTech"} => h[c].tech \in Call /\ Doomed(h[c].tech)
    /\ h[c].pc = "relBay" => h[c].bay = h[c].tech
    /\ h[c].pc = "confBay" =>
         \/ techLedger[h[c].row].st = "confirmed"
         \/ rows[h[c].row].status = "CANCELLED"
         \/ bayLedger[h[c].row].st \in {"lapsed", "gone"}
    /\ h[c].pc = "promote" =>
         \/ techLedger[h[c].row].st = "confirmed" /\ bayLedger[h[c].row].st = "confirmed"
         \/ rows[h[c].row].status = "CANCELLED"
    /\ h[c].pc = "recheck" => Settled(h[c].row)
    /\ h[c].pc = "recheckUniq" => h[c].req.kind = "book"

LateReleases == \A m \in late : m.op = "release" => Doomed(m.id)

BackedInv == (\A c \in Call : BackedOk(c)) /\ LateReleases /\ ConfirmedBacked

(* A handler never goes back: not to its claims, and to confirming only    *)
(* from them or from the Get of confirmHold.                               *)
LEMMA NeverBack ==
    ASSUME BookInv, [Next]_vars, NEW d \in Call
    PROVE  /\ h'[d].pc \in Early => h[d].pc \in Early
           /\ h'[d].pc \in Confirming => h[d].pc \in Early \cup Confirming \cup {"get"}
<1>0. TypeOK /\ h \in [Call -> Handler]
    BY DEF BookInv, TypeOK
<1> DEFINE P == /\ h'[d].pc \in Early => h[d].pc \in Early
                /\ h'[d].pc \in Confirming => h[d].pc \in Early \cup Confirming \cup {"get"}
<1> USE DEF Early, Confirming
<1>1. ASSUME NEW c \in Call, NEW pc, NEW row, NEW tech, NEW bay, NEW reply,
             Moves(c, pc, row, tech, bay, reply),
             pc \in Early => h[c].pc \in Early,
             pc \in Confirming => h[c].pc \in Early \cup Confirming \cup {"get"}
      PROVE  P
    BY <1>1 DEF Moves
<1>d. ASSUME NEW c \in Call, NEW reply, Done(c, reply) PROVE P
    <2>1. Moves(c, "done", h[c].row, Nil, Nil, reply)
        BY <1>0, <1>d, DoneMoves
    <2>2. QED
        BY <1>1, <2>1
<1>c. ASSUME NEW c \in Call, NEW reply, Compensate(c, reply) PROVE P
    <2>1. Moves(c, "relBay", h[c].row, h[c].tech, h[c].bay, reply)
        BY <1>0, <1>c, CompensateMoves
    <2>2. QED
        BY <1>1, <2>1
<1>g. ASSUME NEW c \in Call, NEW pc, Goto(c, pc), pc \in Early => h[c].pc \in Early,
             pc \in Confirming => h[c].pc \in Early \cup Confirming \cup {"get"}
      PROVE  P
    <2>1. Moves(c, pc, h[c].row, h[c].tech, h[c].bay, h[c].reply)
        BY <1>0, <1>g, GotoMoves
    <2>2. QED
        BY <1>1, <1>g, <2>1
<1>2. ASSUME NEW c \in Call, Arrive(c) PROVE P
    <2>1. (\A e \in Call \ {c} : h'[e] = h[e]) /\ h[c].pc = "idle"
        BY <1>0, <1>2 DEF Arrive
    <2>2. QED
        BY <2>1
<1>3. ASSUME NEW c \in Call, h[c].pc \in Early, \A e \in Call \ {c} : h'[e] = h[e] PROVE P
    BY <1>3
<1>a. ASSUME NEW c \in Call, Lookup(c) \/ InsertHeld(c) PROVE P
    <2>1. h[c].pc \in Early
        BY <1>a DEF Lookup, InsertHeld
    <2>2. \A e \in Call \ {c} : h'[e] = h[e]
        BY <1>0, <1>a DEF Lookup, InsertHeld, Goto, Done
    <2>3. QED
        BY <1>3, <2>1, <2>2
<1>b. ASSUME NEW c \in Call, ReserveTech(c) \/ ReserveBay(c) PROVE P
    <2>1. h[c].pc \in Early
        BY <1>b DEF ReserveTech, ReserveBay
    <2>2. \A e \in Call \ {c} : h'[e] = h[e]
        BY <1>0, <1>b DEF ReserveTech, ReserveBay, Done
    <2>3. QED
        BY <1>3, <2>1, <2>2
<1>e. ASSUME NEW c \in Call, GetHold(c) PROVE P
    <2>1. CASE Done(c, "404") \/ Done(c, "409")
        BY <1>d, <2>1
    <2>2. CASE h' = [h EXCEPT
                   ![c].row = h[c].req.hold,
                   ![c].pc = IF h[c].req.key = NoKey THEN "done" ELSE "keycheck",
                   ![c].reply = IF h[c].req.key = NoKey THEN "200" ELSE "none"]
        BY <1>0, <2>2 DEF Handler
    <2>3. CASE h' = [h EXCEPT ![c].row = h[c].req.hold, ![c].tech = RowOf(h[c].req.hold).tech,
                              ![c].bay = RowOf(h[c].req.hold).bay, ![c].pc = "confTech"]
        BY <1>0, <1>e, <2>3 DEF GetHold, Handler
    <2>4. QED
        BY <1>e, <2>1, <2>2, <2>3 DEF GetHold
<1>4. ASSUME NEW c \in Call, CancelGet(c) PROVE P
    <2>1. CASE Done(c, "404")
        BY <1>d, <2>1
    <2>2. CASE h' = [h EXCEPT ![c].row = h[c].req.hold, ![c].tech = RowOf(h[c].req.hold).tech,
                              ![c].bay = RowOf(h[c].req.hold).bay, ![c].pc = "cancelUpdate"]
        BY <1>0, <2>2 DEF Handler
    <2>3. QED
        BY <1>4, <2>1, <2>2 DEF CancelGet
<1>5. ASSUME NEW c \in Call, KeyCheck(c) \/ ConfTech(c) \/ ConfBay(c) \/ Promote(c) \/ Recheck(c)
                             \/ Reget(c) \/ CancelUpdate(c) \/ RelBay(c) \/ RelTech(c)
      PROVE  P
    BY <1>5, <1>c, <1>d, <1>g
    DEF KeyCheck, ConfTech, ConfBay, Promote, Recheck, Reget, CancelUpdate, RelBay, RelTech
<1>6. ASSUME NEW c \in Call, RpcLost(c) PROVE P
    <2>1. CASE h' = [h EXCEPT ![c].pc = "relTech", ![c].reply = "409"]
        BY <1>0, <2>1 DEF Handler
    <2>2. QED
        BY <1>6, <1>c, <1>d, <1>g, <2>1 DEF RpcLost
<1>7. ASSUME NEW c \in Call, StoreLost(c) \/ Abandon(c) PROVE P
    BY <1>7, <1>c, <1>d, <1>g DEF StoreLost, Abandon
<1>8. CASE UNCHANGED h
    BY <1>8
<1>9. QED
    BY <1>2, <1>4, <1>5, <1>6, <1>7, <1>8, <1>a, <1>b, <1>e, OtherFrame
    DEF Next, Step, SweeperStep, Time, vars

(* What a confirmer is working on can be reached: it is not abandoned. *)
LEMMA ConfirmerReaches ==
    ASSUME BookInv, ReplyInv, NEW c \in Call, h[c].pc \in Confirming
    PROVE  /\ h[c].row \in Call
           /\ rows[h[c].row].status \in {"HELD", "CONFIRMED", "CANCELLED"}
           /\ rows[h[c].row].status = "HELD" => ~Abandoned(h[c].row)
<1>1. h[c].row \in Call /\ rows[h[c].row].status # "NONE" /\ ReplyOk(c)
    BY DEF BookInv, HandlerInv, ReplyInv
<1>2. rows[h[c].row].status \in {"NONE", "HELD", "CONFIRMED", "CANCELLED"}
    BY <1>1 DEF BookInv, TypeOK, Row
<1>3. QED
    BY <1>1, <1>2 DEF ReplyOk, Reached, Settled, Abandoned

(* A step that confirms an appointment is the Promote of a handler that    *)
(* holds both occupations confirmed.                                       *)
LEMMA PromotedBacked ==
    ASSUME BookInv, ReplyInv, BackedInv, [Next]_vars, NEW r \in Call,
           rows[r].status # "CONFIRMED", rows'[r].status = "CONFIRMED"
    PROVE  /\ rows[r].status = "HELD" /\ ~Abandoned(r)
           /\ techLedger[r].st = "confirmed" /\ bayLedger[r].st = "confirmed"
<1>1. PICK c \in Call : Promotes(c)
    BY KeyStep DEF NoPromotion
<1>2. h[c].row = r /\ h[c].pc = "promote" /\ rows[r].status = "HELD"
    BY <1>1, PromotesKeepsKeys DEF Promotes
<1>3. ~Abandoned(r)
    BY <1>2, ConfirmerReaches DEF Confirming
<1>4. QED
    BY <1>2, <1>3 DEF BackedInv, BackedOk

(* Doom is final. *)
LEMMA DoomedStays ==
    ASSUME BookInv, ReplyInv, BackedInv, [Next]_vars, Effects, NEW r \in Call, Doomed(r)
    PROVE  Doomed(r)'
<1>0. TechCause /\ BayCause /\ RowChange(r)
    BY TechCaused, BayCaused DEF Effects, RowEffect
<1>1. CASE rows[r].status = "CANCELLED"
    BY <1>1, CancelledStays DEF Effects, Doomed
<1>2. CASE rows[r].status = "HELD" /\ (Dead(r) \/ Abandoned(r))
    <2>1. rows'[r].status # "CONFIRMED"
        BY <1>2, PromotedBacked DEF Dead
    <2>2. rows'[r].status \in {"HELD", "CANCELLED"}
        BY <1>0, <1>2, <2>1 DEF RowChange
    <2>3. Dead(r) => Dead(r)'
        BY <1>0, TechFate, BayFate DEF Dead
    <2>4. Abandoned(r) => Abandoned(r)'
        <3>1. h'[r].req = h[r].req
            BY <1>2, Lasting
        <3>2. h[r].pc = "get" => h[r].req.kind # "book"
            BY DEF ReplyInv, ReplyOk
        <3>3. QED
            BY <3>1, <3>2, NeverBack DEF Abandoned
    <2>5. QED
        BY <1>2, <2>2, <2>3, <2>4 DEF Doomed
<1>3. CASE rows[r].status = "NONE" /\ h[r].pc \notin Early
    BY <1>0, <1>3, NeverBack DEF RowChange, Early, Doomed
<1>4. QED
    BY <1>1, <1>2, <1>3 DEF Doomed

-----------------------------------------------------------------------------
(* Nobody releases the occupations of an appointment that may be confirmed. *)

(* Every releaser works for a doomed appointment. *)
LEMMA ReleaserDoomed ==
    ASSUME BackedInv, NEW i \in Call, Releaser("tech", i) \/ Releaser("bay", i)
    PROVE  Doomed(i)
<1>1. ASSUME NEW c \in Call, h[c].pc = "relTech" /\ h[c].tech = i
      PROVE  Doomed(i)
    BY <1>1 DEF BackedInv, BackedOk
<1>2. ASSUME NEW c \in Call, h[c].pc = "relBay" /\ h[c].bay = i
      PROVE  Doomed(i)
    BY <1>2 DEF BackedInv, BackedOk
<1>3. ASSUME NEW m \in late, m.op = "release", m.id = i
      PROVE  Doomed(i)
    BY <1>3 DEF BackedInv, LateReleases
<1>4. QED
    BY <1>1, <1>2, <1>3 DEF Releaser, Doomed

(* So a CONFIRMED appointment stays backed, and one is promoted with both  *)
(* occupations confirmed.                                                  *)
LEMMA BackedRows ==
    ASSUME BookInv, ReplyInv, BackedInv, [Next]_vars, Effects
    PROVE  ConfirmedBacked'
<1>0. TechCause /\ BayCause
    BY TechCaused, BayCaused
<1>1. ASSUME NEW r \in Call, rows'[r].status = "CONFIRMED"
      PROVE  /\ techLedger'[rows'[r].tech].st = "confirmed"
             /\ bayLedger'[rows'[r].bay].st = "confirmed"
    <2>1. ~Doomed(r) /\ techLedger[r].st = "confirmed" /\ bayLedger[r].st = "confirmed"
        <3>1. CASE rows[r].status = "CONFIRMED"
            BY <3>1 DEF BackedInv, ConfirmedBacked, BookInv, RowInv, Doomed
        <3>2. CASE rows[r].status # "CONFIRMED"
            BY <1>1, <3>2, PromotedBacked DEF Doomed, Dead
        <3>3. QED
            BY <3>1, <3>2
    <2>2. techLedger'[r].st = "confirmed" /\ bayLedger'[r].st = "confirmed"
        BY <1>0, <2>1, TechFate, BayFate, ReleaserDoomed
    <2>3. RowInv'
        BY RowInvStep DEF Effects
    <2>4. rows'[r].tech = r /\ rows'[r].bay = r
        BY <1>1, <2>3 DEF RowInv
    <2>5. QED
        BY <2>2, <2>4
<1>2. QED
    BY <1>1 DEF ConfirmedBacked

(* A handler that does not move keeps its occupations too. *)
LEMMA BackedKept ==
    ASSUME BookInv, ReplyInv, BackedInv, [Next]_vars, Effects,
           NEW d \in Call, h'[d] = h[d]
    PROVE  BackedOk(d)'
<1>0. TechCause /\ BayCause /\ BackedOk(d)
    BY TechCaused, BayCaused DEF BackedInv
<1>1. h[d].pc \in {"relBay", "relTech"} => Doomed(h[d].tech)'
    <2>1. ASSUME NEW t \in Call, Doomed(t) PROVE Doomed(t)'
        BY <2>1, DoomedStays
    <2>2. h[d].pc \in {"relBay", "relTech"} => h[d].tech \in Call /\ Doomed(h[d].tech)
        BY <1>0 DEF BackedOk
    <2>3. QED
        BY <2>1, <2>2 DEF Doomed, Dead, Abandoned
<1> DEFINE p == h[d].row
<1>2. ASSUME h[d].pc \in {"confBay", "promote"}
      PROVE  /\ p \in Call
             /\ rows[p].status = "CANCELLED" => rows'[p].status = "CANCELLED"
             /\ Releaser("tech", p) \/ Releaser("bay", p) =>
                  rows[p].status = "CANCELLED" \/ Dead(p)
    <2>1. p \in Call /\ rows[p].status # "NONE" /\ (rows[p].status = "HELD" => ~Abandoned(p))
        BY <1>2, ConfirmerReaches DEF Confirming
    <2>2. QED
        BY <2>1, ReleaserDoomed, CancelledStays DEF Doomed, Effects
<1>3. h[d].pc = "confBay" =>
        \/ techLedger'[p].st = "confirmed"
        \/ rows'[p].status = "CANCELLED"
        \/ bayLedger'[p].st \in {"lapsed", "gone"}
    BY <1>0, <1>2, TechFate, BayFate DEF BackedOk, Dead
<1>4. h[d].pc = "promote" =>
        \/ techLedger'[p].st = "confirmed" /\ bayLedger'[p].st = "confirmed"
        \/ rows'[p].status = "CANCELLED"
    BY <1>0, <1>2, TechFate, BayFate DEF BackedOk, Dead
<1>5. h[d].pc = "recheck" => p \in Call /\ rows'[p].status \in {"CONFIRMED", "CANCELLED"}
    BY <1>0, Lasting DEF BackedOk, Settled
<1>6. QED
    BY <1>0, <1>1, <1>3, <1>4, <1>5 DEF BackedOk, Settled

(* Without faults, a refusal by an allocator dooms the appointment. *)
LEMMA RefusedIsDoomed ==
    ASSUME BookInv, ReplyInv, BackedInv, NEW c \in Call,
           \/ h[c].pc = "confTech" /\ ~Tech!CanConfirm(h[c].tech)
           \/ h[c].pc = "confBay" /\ ~Bay!CanConfirm(h[c].bay)
    PROVE  Doomed(h[c].row)
<1> DEFINE p == h[c].row
<1>1. p \in Call /\ h[c].tech = p /\ h[c].bay = p
    BY DEF BookInv, HandlerInv, Confirming
<1>2. rows[p].status \in {"HELD", "CONFIRMED", "CANCELLED"}
    BY ConfirmerReaches DEF Confirming
<1>3. techLedger[p].st \in Sts \ {"none"} /\ bayLedger[p].st \in Sts \ {"none"}
    BY <1>1, <1>2, TechTyped, BayTyped DEF BookInv, TypeOK, RowInv
<1>4. Dead(p)
    BY <1>1, <1>3 DEF Dead, Tech!CanConfirm, Bay!CanConfirm, Sts
<1>5. rows[p].status # "CONFIRMED"
    BY <1>1, <1>4 DEF BackedInv, ConfirmedBacked, BookInv, RowInv, Dead
<1>6. QED
    BY <1>2, <1>4, <1>5 DEF Doomed

(* The steps of the handlers. *)
LEMMA BackedHandlers ==
    ASSUME NoFaults, KeylessConfirms, BookInv, ReplyInv, BackedInv, [Next]_vars, Effects
    PROVE  \A c \in Call : BackedOk(c)'
<1>0. TypeOK /\ HandlerInv /\ Nil \notin Call /\ ~(faults < MaxFaults)
    BY NilAssumption DEF BookInv, TypeOK, NoFaults
<1>h. ASSUME NEW c \in Call
      PROVE  h[c] \in Handler /\ ReplyOk(c) /\ BackedOk(c)
    BY <1>0 DEF TypeOK, ReplyInv, BackedInv
<1> DEFINE Goal == \A c \in Call : BackedOk(c)'
<1>m. ASSUME NEW c \in Call, \A d \in Call \ {c} : h'[d] = h[d], BackedOk(c)'
      PROVE  Goal
    BY <1>m, BackedKept
<1>n. ASSUME NEW c \in Call, \A d \in Call \ {c} : h'[d] = h[d],
             h'[c].pc \notin {"relBay", "relTech", "confBay", "promote", "recheck", "recheckUniq"}
      PROVE  Goal
    <2>1. BackedOk(c)'
        BY <1>n DEF BackedOk
    <2>2. QED
        BY <1>m, <1>n, <2>1
<1>d. ASSUME NEW c \in Call, NEW reply, Done(c, reply) PROVE Goal
    <2>1. Moves(c, "done", h[c].row, Nil, Nil, reply)
        BY <1>0, <1>d, DoneMoves
    <2>2. QED
        BY <1>n, <2>1 DEF Moves
<1>g. ASSUME NEW c \in Call, NEW pc, Goto(c, pc)
      PROVE  /\ \A d \in Call \ {c} : h'[d] = h[d]
             /\ h'[c].pc = pc /\ h'[c].row = h[c].row /\ h'[c].req = h[c].req
             /\ h'[c].tech = h[c].tech /\ h'[c].bay = h[c].bay
    BY <1>0, <1>g, GotoMoves DEF Moves
<1>c. ASSUME NEW c \in Call, NEW reply, Compensate(c, reply),
             h[c].tech \in Call, h[c].bay = h[c].tech, Doomed(h[c].tech) \/ Doomed(h[c].tech)'
      PROVE  Goal
    <2>1. /\ \A d \in Call \ {c} : h'[d] = h[d]
          /\ h'[c].pc = "relBay" /\ h'[c].tech = h[c].tech /\ h'[c].bay = h[c].bay
        BY <1>0, <1>c, CompensateMoves DEF Moves
    <2>2. Doomed(h[c].tech)'
        <3>1. ASSUME NEW t \in Call, Doomed(t) PROVE Doomed(t)'
            BY <3>1, DoomedStays
        <3>2. QED
            BY <1>c, <2>1, <3>1 DEF Doomed, Dead, Abandoned
    <2>3. BackedOk(c)'
        BY <1>c, <2>1, <2>2 DEF BackedOk
    <2>4. QED
        BY <1>m, <2>1, <2>3
<1>1. ASSUME NEW c \in Call, Arrive(c) PROVE Goal
    <2>1. PICK r \in Script[c] :
             \/ h' = [h EXCEPT ![c].req = r, ![c].pc = "done", ![c].reply = "400"]
             \/ h' = [h EXCEPT ![c].req = r, ![c].pc = FirstPc(r)]
        BY <1>1 DEF Arrive
    <2>2. FirstPc(r) \in {"get", "cancelGet", "lookup", "reserveTech"}
        BY DEF FirstPc
    <2>3. /\ \A d \in Call \ {c} : h'[d] = h[d]
          /\ h'[c].pc \in {"done", "get", "cancelGet", "lookup", "reserveTech"}
        BY <1>0, <1>h, <2>1, <2>2 DEF TypeOK, Handler
    <2>4. QED
        BY <1>n, <2>3
<1>2. ASSUME NEW c \in Call, Lookup(c) PROVE Goal
    <2>1. CASE Goto(c, "reserveTech")
        BY <1>g, <1>n, <2>1
    <2>2. ASSUME NEW r, h' = [h EXCEPT ![c].pc = "done", ![c].row = r, ![c].reply = "200"]
          PROVE  Goal
        <3>1. (\A d \in Call \ {c} : h'[d] = h[d]) /\ h'[c].pc = "done"
            BY <1>0, <1>h, <2>2 DEF TypeOK, Handler
        <3>2. QED
            BY <1>n, <3>1
    <2>3. CASE Done(c, "conflict")
        BY <1>d, <2>3
    <2>4. QED
        BY <1>2, <2>1, <2>2, <2>3 DEF Lookup
<1>3. ASSUME NEW c \in Call, ReserveTech(c) PROVE Goal
    <2>1. CASE h' = [h EXCEPT ![c].pc = "reserveBay", ![c].tech = c]
        <3>1. (\A d \in Call \ {c} : h'[d] = h[d]) /\ h'[c].pc = "reserveBay"
            BY <1>0, <1>h, <2>1 DEF TypeOK, Handler
        <3>2. QED
            BY <1>n, <3>1
    <2>2. QED
        BY <1>3, <1>d, <2>1 DEF ReserveTech
<1>4. ASSUME NEW c \in Call, ReserveBay(c) PROVE Goal
    <2>0. h[c].tech = c /\ rows'[c].status = "NONE"
        BY <1>0, <1>4 DEF ReserveBay, HandlerInv, Early
    <2>1. CASE h' = [h EXCEPT ![c].pc = "insert", ![c].bay = c]
        <3>1. (\A d \in Call \ {c} : h'[d] = h[d]) /\ h'[c].pc = "insert"
            BY <1>0, <1>h, <2>1 DEF TypeOK, Handler
        <3>2. QED
            BY <1>n, <3>1
    <2>2. CASE h' = [h EXCEPT ![c].pc = "relTech", ![c].reply = "409"]
        <3>1. (\A d \in Call \ {c} : h'[d] = h[d]) /\ h'[c].pc = "relTech" /\ h'[c].tech = c
            BY <1>0, <1>h, <2>0, <2>2 DEF TypeOK, Handler
        <3>2. Doomed(c)'
            BY <2>0, <3>1 DEF Doomed, Early
        <3>3. BackedOk(c)'
            BY <3>1, <3>2 DEF BackedOk, Doomed, Dead, Abandoned
        <3>4. QED
            BY <1>m, <3>1, <3>3
    <2>3. QED
        BY <1>4, <2>1, <2>2 DEF ReserveBay
<1>5. ASSUME NEW c \in Call, InsertHeld(c) PROVE Goal
    <2>1. (\A d \in Call \ {c} : h'[d] = h[d]) /\ h'[c].pc \in {"done", "confTech"}
        BY <1>0, <1>5, <1>h DEF InsertHeld, TypeOK, Handler
    <2>2. QED
        BY <1>n, <2>1
<1>6. ASSUME NEW c \in Call, GetHold(c) PROVE Goal
    <2>1. CASE Done(c, "404") \/ Done(c, "409")
        BY <1>d, <2>1
    <2>2. CASE h' = [h EXCEPT
                   ![c].row = h[c].req.hold,
                   ![c].pc = IF h[c].req.key = NoKey THEN "done" ELSE "keycheck",
                   ![c].reply = IF h[c].req.key = NoKey THEN "200" ELSE "none"]
        <3>1. (\A d \in Call \ {c} : h'[d] = h[d]) /\ h'[c].pc \in {"done", "keycheck"}
            BY <1>0, <1>h, <2>2 DEF TypeOK, Handler
        <3>2. QED
            BY <1>n, <3>1
    <2>3. CASE h' = [h EXCEPT ![c].row = h[c].req.hold, ![c].tech = RowOf(h[c].req.hold).tech,
                              ![c].bay = RowOf(h[c].req.hold).bay, ![c].pc = "confTech"]
        <3>1. (\A d \in Call \ {c} : h'[d] = h[d]) /\ h'[c].pc = "confTech"
            BY <1>0, <1>h, <2>3 DEF TypeOK, Handler
        <3>2. QED
            BY <1>n, <3>1
    <2>4. QED
        BY <1>6, <2>1, <2>2, <2>3 DEF GetHold
<1>7. ASSUME NEW c \in Call, ConfTech(c) \/ ConfBay(c), Compensate(c, "409"),
             \/ h[c].pc = "confTech" /\ ~Tech!CanConfirm(h[c].tech)
             \/ h[c].pc = "confBay" /\ ~Bay!CanConfirm(h[c].bay)
      PROVE  Goal
    <2>1. h[c].row \in Call /\ h[c].tech = h[c].row /\ h[c].bay = h[c].row
        BY <1>0, <1>7 DEF HandlerInv, Confirming
    <2>2. Doomed(h[c].row)
        BY <1>7, RefusedIsDoomed
    <2>3. QED
        BY <1>7, <1>c, <2>1, <2>2
<1>8. ASSUME NEW c \in Call, ConfTech(c) PROVE Goal
    <2>1. CASE Tech!Confirm(h[c].tech) /\ Goto(c, "confBay")
        <3>1. h[c].row \in Call /\ h[c].tech = h[c].row
            BY <1>0, <1>8 DEF ConfTech, HandlerInv, Confirming
        <3>2. techLedger'[h[c].row].st = "confirmed"
            BY <1>0, <2>1, <3>1, TechTyped DEF Tech!Confirm, TypeOK
        <3>3. BackedOk(c)'
            BY <1>g, <2>1, <3>2 DEF BackedOk
        <3>4. QED
            BY <1>g, <1>m, <2>1, <3>3
    <2>2. QED
        BY <1>7, <1>8, <2>1 DEF ConfTech
<1>9. ASSUME NEW c \in Call, ConfBay(c) PROVE Goal
    <2>1. CASE Bay!Confirm(h[c].bay) /\ Goto(c, "promote")
        <3>1. h[c].pc = "confBay" /\ h[c].row \in Call /\ h[c].bay = h[c].row
              /\ UNCHANGED <<techLedger, rows>>
            BY <1>0, <1>9 DEF ConfBay, HandlerInv, Confirming
        <3>2. bayLedger'[h[c].row].st = "confirmed" /\ bayLedger[h[c].row].st \notin {"lapsed", "gone"}
            BY <1>0, <2>1, <3>1, BayTyped DEF Bay!Confirm, Bay!CanConfirm, TypeOK
        <3>3. techLedger[h[c].row].st = "confirmed" \/ rows[h[c].row].status = "CANCELLED"
            BY <1>h, <3>1, <3>2 DEF BackedOk
        <3>4. BackedOk(c)'
            BY <1>g, <2>1, <3>1, <3>2, <3>3 DEF BackedOk
        <3>5. QED
            BY <1>g, <1>m, <2>1, <3>4
    <2>2. QED
        BY <1>7, <1>9, <2>1 DEF ConfBay
<1>10. ASSUME NEW c \in Call, Promote(c) PROVE Goal
    <2>0. /\ h[c].pc = "promote" /\ h[c].row \in Call /\ h[c].req \in Script[c]
          /\ rows[h[c].row].status \in {"HELD", "CONFIRMED", "CANCELLED"}
          /\ h[c].req.kind \in {"promote", "book"}
        BY <1>10, <1>h, ConfirmerReaches DEF Promote, Confirming, ReplyOk
    <2>1. CASE Goto(c, "reget")
        BY <1>g, <1>n, <2>1
    <2>2. CASE KeyTaken(c) /\ Goto(c, "recheckUniq")
        <3>1. h[c].req.kind = "book"
            BY <2>0, <2>2 DEF KeyTaken, KeylessConfirms
        <3>2. BackedOk(c)'
            BY <1>g, <2>2, <3>1 DEF BackedOk
        <3>3. QED
            BY <1>g, <1>m, <2>2, <3>2
    <2>3. CASE rows[h[c].row].status # "HELD" /\ Goto(c, "recheck") /\ UNCHANGED rows
        <3>1. BackedOk(c)'
            BY <1>g, <2>0, <2>3 DEF BackedOk, Settled
        <3>2. QED
            BY <1>g, <1>m, <2>3, <3>1
    <2>4. QED
        BY <1>10, <2>1, <2>2, <2>3 DEF Promote
<1>11. ASSUME NEW c \in Call, Recheck(c) PROVE Goal
    <2>0. /\ h[c].pc \in {"recheck", "recheckUniq"} /\ UNCHANGED rows
          /\ h[c].row \in Call /\ h[c].tech = h[c].row /\ h[c].bay = h[c].row
        BY <1>0, <1>11 DEF Recheck, Confirming, HandlerInv
    <2>1. CASE Goto(c, "reget")
        BY <1>g, <1>n, <2>1
    <2>2. ASSUME rows[h[c].row].status = "CANCELLED", NEW reply, Compensate(c, reply) PROVE Goal
        <3>1. Doomed(h[c].tech)
            BY <2>0, <2>2 DEF Doomed
        <3>2. QED
            BY <1>c, <2>0, <2>2, <3>1
    <2>3. ASSUME rows[h[c].row].status = "HELD", NEW reply, Compensate(c, reply) PROVE Goal
        <3>1. h[c].row = c /\ h[c].req.kind = "book"
            BY <1>h, <2>0, <2>3 DEF BackedOk, ReplyOk, Confirming, Settled
        <3>2. h'[c].pc = "relBay" /\ h'[c].req = h[c].req /\ h'[c].tech = c
            BY <1>0, <2>0, <2>3, <3>1, CompensateMoves DEF Moves
        <3>3. Doomed(h[c].tech)'
            BY <2>0, <2>3, <3>1, <3>2 DEF Doomed, Abandoned, Early, Confirming
        <3>4. QED
            BY <1>c, <2>0, <2>3, <3>3
    <2>4. \/ Goto(c, "reget")
          \/ rows[h[c].row].status = "CANCELLED" /\ Compensate(c, "409")
          \/ rows[h[c].row].status = "HELD" /\ (Compensate(c, "409") \/ Compensate(c, "conflict"))
        BY <1>11 DEF Recheck
    <2>5. QED
        BY <2>1, <2>2, <2>3, <2>4
<1>12. ASSUME NEW c \in Call, CancelUpdate(c) PROVE Goal
    <2>0. /\ h[c].pc = "cancelUpdate" /\ h[c].row \in Call /\ rows[h[c].row] \in Row
          /\ rows[h[c].row].status \in {"HELD", "CONFIRMED", "CANCELLED"}
          /\ h[c].tech \in {h[c].row, Nil} /\ h[c].bay = h[c].tech
        BY <1>0, <1>12, <1>h DEF CancelUpdate, ReplyOk, TypeOK, Row, HandlerInv
    <2>1. rows'[h[c].row].status = "CANCELLED"
        BY <1>12, <2>0 DEF CancelUpdate, Cancelled, Row
    <2>2. CASE h[c].tech # Nil /\ Compensate(c, "204")
        <3>1. h[c].tech = h[c].row /\ h'[c].tech = h[c].tech
            BY <1>0, <2>0, <2>2, CompensateMoves DEF Moves
        <3>2. Doomed(h[c].tech)'
            BY <2>1, <3>1 DEF Doomed
        <3>3. QED
            BY <1>c, <2>0, <2>2, <3>1, <3>2
    <2>3. QED
        BY <1>12, <1>d, <2>2 DEF CancelUpdate
<1>13. ASSUME NEW c \in Call, RelBay(c) PROVE Goal
    <2>1. h[c].pc = "relBay" /\ Goto(c, "relTech") /\ h[c].tech \in Call /\ Doomed(h[c].tech)
        BY <1>13, <1>h DEF RelBay, BackedOk
    <2>2. h'[c].pc = "relTech" /\ h'[c].tech = h[c].tech
        BY <1>g, <2>1
    <2>3. Doomed(h[c].tech)'
        <3>1. ASSUME NEW t \in Call, Doomed(t) PROVE Doomed(t)'
            BY <3>1, DoomedStays
        <3>2. QED
            BY <2>1, <2>2, <3>1 DEF Doomed, Dead, Abandoned
    <2>4. BackedOk(c)'
        BY <2>1, <2>2, <2>3 DEF BackedOk
    <2>5. QED
        BY <1>g, <1>m, <2>1, <2>4
<1>14. ASSUME NEW c \in Call, CancelGet(c) PROVE Goal
    <2>1. CASE Done(c, "404")
        BY <1>d, <2>1
    <2>2. CASE h' = [h EXCEPT ![c].row = h[c].req.hold, ![c].tech = RowOf(h[c].req.hold).tech,
                              ![c].bay = RowOf(h[c].req.hold).bay, ![c].pc = "cancelUpdate"]
        <3>1. (\A d \in Call \ {c} : h'[d] = h[d]) /\ h'[c].pc = "cancelUpdate"
            BY <1>0, <1>h, <2>2 DEF TypeOK, Handler
        <3>2. QED
            BY <1>n, <3>1
    <2>3. QED
        BY <1>14, <2>1, <2>2 DEF CancelGet
<1>15. ASSUME NEW c \in Call, KeyCheck(c) \/ Reget(c) \/ RelTech(c) \/ Abandon(c) PROVE Goal
    BY <1>15, <1>d DEF KeyCheck, Reget, RelTech, Abandon
<1>16. ASSUME NEW c \in Call PROVE ~RpcLost(c) /\ ~StoreLost(c)
    BY <1>0 DEF RpcLost, StoreLost
<1>17. CASE UNCHANGED h
    BY <1>17, BackedKept
<1>18. QED
    BY <1>1, <1>2, <1>3, <1>4, <1>5, <1>6, <1>8, <1>9, <1>10, <1>11, <1>12, <1>13, <1>14,
       <1>15, <1>16, <1>17, OtherFrame DEF Next, Step, SweeperStep, Time, vars

(* A Release that is still in the air was sent for a doomed appointment. *)
LEMMA BackedLate ==
    ASSUME NoFaults, BookInv, ReplyInv, BackedInv, [Next]_vars, Effects
    PROVE  LateReleases'
<1>0. ~(faults < MaxFaults) /\ \A m \in late : m.id \in Call
    BY DEF BookInv, TypeOK, NoFaults, Message
<1>1. ASSUME NEW t \in Call, Doomed(t) PROVE Doomed(t)'
    BY <1>1, DoomedStays
<1>2. CASE late' \subseteq late
    <2>1. ASSUME NEW m \in late', m.op = "release" PROVE Doomed(m.id)'
        BY <1>0, <1>1, <1>2, <2>1 DEF BackedInv, LateReleases
    <2>2. QED
        BY <2>1 DEF LateReleases
<1>3. ASSUME NEW c \in Call, Abandon(c) PROVE LateReleases'
    <2>1. CASE h[c].pc \in RpcPc /\ late' = late \cup {Pending(c)}
        <3>1. Pending(c).op = "release" => Pending(c).id \in Call /\ Doomed(Pending(c).id)
            BY <2>1 DEF Pending, RpcPc, BackedInv, BackedOk
        <3>2. ASSUME NEW m \in late', m.op = "release" PROVE Doomed(m.id)'
            BY <1>0, <1>1, <2>1, <3>1, <3>2 DEF BackedInv, LateReleases
        <3>3. QED
            BY <3>2 DEF LateReleases
    <2>2. QED
        BY <1>2, <1>3, <2>1 DEF Abandon
<1>4. CASE Deliver
    BY <1>2, <1>4 DEF Deliver
<1>5. CASE SweepRelBay \/ SweepRelTech
    BY <1>0, <1>2, <1>5 DEF SweepRelBay, SweepRelTech, env
<1>6. ~SweeperRestart /\ \A c \in Call : ~RpcLost(c)
    BY <1>0 DEF SweeperRestart, RpcLost
<1>7. CASE UNCHANGED late
    BY <1>2, <1>7
<1>8. QED
    BY <1>3, <1>4, <1>5, <1>6, <1>7, HandlerFrame, OtherFrame DEF Next, Step, SweeperStep, Time, vars

-----------------------------------------------------------------------------

(* Nothing is confirmed, released or in the air. *)
LEMMA BackedInit == Init => BackedInv
    BY DEF Init, Idle, NoRow, BackedInv, BackedOk, LateReleases, ConfirmedBacked

(* Every reachable state satisfies the invariant. *)
LEMMA BackedInvariant ==
    ASSUME NoFaults, KeylessConfirms
    PROVE  Spec => []BackedInv
<1>1. BookInv /\ ReplyInv /\ BackedInv /\ [Next]_vars => BackedInv'
    <2> SUFFICES ASSUME BookInv, ReplyInv, BackedInv, [Next]_vars PROVE BackedInv'
        OBVIOUS
    <2>1. Effects
        BY EffectsStep
    <2>2. \A c \in Call : BackedOk(c)'
        BY <2>1, BackedHandlers
    <2>3. LateReleases'
        BY <2>1, BackedLate
    <2>4. ConfirmedBacked'
        BY <2>1, BackedRows
    <2>5. QED
        BY <2>2, <2>3, <2>4 DEF BackedInv
<1>2. QED
    BY <1>1, BackedInit, BookInvariant, ReplyInvariant, PTL DEF Spec

(* A CONFIRMED appointment owns both its occupations: no confirmer's       *)
(* compensation, no cancel, no sweeper and no Release that arrives late    *)
(* takes them away.                                                        *)
THEOREM BookingConfirmedBacked ==
    ASSUME NoFaults, KeylessConfirms
    PROVE  Spec => []ConfirmedBacked
<1>1. BackedInv => ConfirmedBacked
    BY DEF BackedInv
<1>2. QED
    BY <1>1, BackedInvariant, PTL

(* No two CONFIRMED appointments share a technician, or a bay, at one      *)
(* time.                                                                   *)
THEOREM BookingNoDoubleBook ==
    ASSUME NoFaults, KeylessConfirms
    PROVE  Spec => []NoDoubleBook
<1>1. BookInv /\ ConfirmedBacked /\ Tech!NoOverlap /\ Bay!NoOverlap => NoDoubleBook
    <2> SUFFICES ASSUME BookInv, ConfirmedBacked, Tech!NoOverlap, Bay!NoOverlap,
                        NEW r \in Call, NEW s \in Call, r # s,
                        rows[r].status = "CONFIRMED", rows[s].status = "CONFIRMED"
                 PROVE  /\ ~Overlap(techLedger[rows[r].tech].on, techLedger[rows[s].tech].on)
                        /\ ~Overlap(bayLedger[rows[r].bay].on, bayLedger[rows[s].bay].on)
        BY DEF NoDoubleBook
    <2>1. rows[r].tech = r /\ rows[r].bay = r /\ rows[s].tech = s /\ rows[s].bay = s
        BY DEF BookInv, RowInv
    <2>2. /\ techLedger[r].st = "confirmed" /\ techLedger[s].st = "confirmed"
          /\ bayLedger[r].st = "confirmed" /\ bayLedger[s].st = "confirmed"
        BY <2>1 DEF ConfirmedBacked
    <2>3. QED
        BY <2>1, <2>2 DEF Tech!NoOverlap, Bay!NoOverlap, Tech!Live, Bay!Live, Tech!LiveState,
                          Bay!LiveState, Tech!Overlap, Bay!Overlap, Overlap
<1>2. QED
    BY <1>1, BookingConfirmedBacked, BookingNoOverlap, BookInvariant, PTL

-----------------------------------------------------------------------------
(* Compensation: what a refused request leaves behind.                     *)

Dropped == {"none", "gone"}

(* What a hold or a booking has claimed at each point. *)
FreeOk(c) ==
    /\ h[c].pc \in {"idle", "lookup", "reserveTech"} => techLedger[c].st = "none"
    /\ h[c].pc \in {"idle", "lookup", "reserveTech", "reserveBay"} => bayLedger[c].st = "none"
    /\ h[c].req.kind \in {"hold", "book"} =>
         /\ h[c].pc \in {"relBay", "relTech"} => h[c].tech = c
         /\ h[c].pc = "relBay" => h[c].bay = c
         /\ h[c].pc = "relTech" => bayLedger[c].st \in Dropped
         /\ h[c].pc = "done" /\ h[c].reply \in {"409", "conflict"} =>
              techLedger[c].st \in Dropped /\ bayLedger[c].st \in Dropped

(* A claim can arrive late only for a call that nobody answered. *)
LateReserves ==
    \A m \in late : m.op = "reserve" => h[m.id].pc = "done" /\ h[m.id].reply = "lost"

FreeInv == (\A c \in Call : FreeOk(c)) /\ LateReserves

(* An answer is final. *)
LEMMA AnswerFinal ==
    ASSUME BookInv, [Next]_vars, NEW d \in Call, h[d].pc = "done"
    PROVE  h'[d] = h[d]
<1>0. h \in [Call -> Handler]
    BY DEF BookInv, TypeOK
<1> USE DEF Goto, Done, Compensate
<1>1. ASSUME NEW c \in Call, Arrive(c) \/ Lookup(c) \/ ReserveTech(c) \/ ReserveBay(c)
      PROVE  c # d /\ h'[d] = h[d]
    BY <1>0, <1>1 DEF Arrive, Lookup, ReserveTech, ReserveBay
<1>2. ASSUME NEW c \in Call, InsertHeld(c) \/ GetHold(c) \/ KeyCheck(c) \/ ConfTech(c) \/ ConfBay(c)
      PROVE  c # d /\ h'[d] = h[d]
    BY <1>0, <1>2 DEF InsertHeld, GetHold, KeyCheck, ConfTech, ConfBay
<1>3. ASSUME NEW c \in Call, Promote(c) \/ Recheck(c) \/ Reget(c) \/ CancelGet(c) \/ CancelUpdate(c)
                             \/ RelBay(c) \/ RelTech(c)
      PROVE  c # d /\ h'[d] = h[d]
    BY <1>0, <1>3 DEF Promote, Recheck, Reget, CancelGet, CancelUpdate, RelBay, RelTech
<1>4. ASSUME NEW c \in Call, RpcLost(c) \/ StoreLost(c) \/ Abandon(c)
      PROVE  c # d /\ h'[d] = h[d]
    BY <1>0, <1>4 DEF RpcLost, StoreLost, Abandon, RpcPc, StorePc
<1>5. CASE UNCHANGED h
    BY <1>5
<1>6. QED
    BY <1>1, <1>2, <1>3, <1>4, <1>5, OtherFrame DEF Next, Step, SweeperStep, Time, vars

(* What is not claimed stays so while the call stands still. *)
LEMMA FreeKept ==
    ASSUME BookInv, FreeInv, [Next]_vars, NEW d \in Call, h'[d] = h[d]
    PROVE  FreeOk(d)'
<1>0. TechCause /\ BayCause /\ FreeOk(d)
    BY TechCaused, BayCaused DEF FreeInv
<1>1. h[d].reply # "lost" \/ h[d].pc # "done" => ~Claimer("tech", d) /\ ~Claimer("bay", d)
    BY DEF Claimer, FreeInv, LateReserves
<1>2. QED
    BY <1>0, <1>1, TechFate, BayFate DEF FreeOk, Dropped

(* The steps of the handlers. *)
LEMMA FreeHandlers ==
    ASSUME NoFaults, BookInv, ReplyInv, FreeInv, [Next]_vars
    PROVE  \A c \in Call : FreeOk(c)'
<1>0. TypeOK /\ HandlerInv /\ ~(faults < MaxFaults)
    BY DEF BookInv, TypeOK, NoFaults
<1>h. ASSUME NEW c \in Call
      PROVE  h[c] \in Handler /\ ReplyOk(c) /\ FreeOk(c)
    BY <1>0 DEF TypeOK, ReplyInv, FreeInv
<1>t. /\ techLedger \in [Call -> [st : Sts, on : Claim \cup {NoClaim}]]
      /\ bayLedger \in [Call -> [st : Sts, on : Claim \cup {NoClaim}]]
    BY <1>0, TechTyped, BayTyped DEF TypeOK
<1> DEFINE Goal == \A c \in Call : FreeOk(c)'
<1>m. ASSUME NEW c \in Call, NEW pc, NEW row, NEW tech, NEW bay, NEW reply,
             Moves(c, pc, row, tech, bay, reply), FreeOk(c)'
      PROVE  Goal
    BY <1>m, FreeKept DEF Moves
<1>n. ASSUME NEW c \in Call, NEW pc, NEW row, NEW tech, NEW bay, NEW reply,
             Moves(c, pc, row, tech, bay, reply),
             \/ pc \notin Early \cup {"relBay", "relTech", "done"}
             \/ pc = "done" /\ reply \notin {"409", "conflict"}
             \/ h[c].req.kind \notin {"hold", "book"} /\ pc \notin Early
             \/ pc = "insert"
      PROVE  Goal
    <2>1. FreeOk(c)'
        BY <1>n DEF Moves, FreeOk, Early
    <2>2. QED
        BY <1>m, <1>n, <2>1
<1>1. ASSUME NEW c \in Call, Arrive(c) PROVE Goal
    <2>1. PICK r \in Script[c] :
             \/ h' = [h EXCEPT ![c].req = r, ![c].pc = "done", ![c].reply = "400"]
             \/ h' = [h EXCEPT ![c].req = r, ![c].pc = FirstPc(r)]
        BY <1>1 DEF Arrive
    <2>2. FirstPc(r) \in {"get", "cancelGet", "lookup", "reserveTech"}
        BY DEF FirstPc
    <2>3. /\ \A d \in Call \ {c} : h'[d] = h[d]
          /\ \/ h'[c].pc \in {"get", "cancelGet", "lookup", "reserveTech"}
             \/ h'[c].pc = "done" /\ h'[c].reply = "400"
        BY <1>0, <1>h, <2>1, <2>2 DEF TypeOK, Handler
    <2>4. /\ h[c].pc = "idle" /\ UNCHANGED <<techLedger, bayLedger>>
        BY <1>1 DEF Arrive, ledgers
    <2>5. FreeOk(c)'
        BY <1>h, <2>3, <2>4 DEF FreeOk
    <2>6. QED
        BY <2>3, <2>5, FreeKept
<1>2. ASSUME NEW c \in Call, Lookup(c) PROVE Goal
    <2>0. h[c].pc = "lookup" /\ UNCHANGED <<techLedger, bayLedger>>
        BY <1>2 DEF Lookup, ledgers
    <2>1. CASE Goto(c, "reserveTech")
        <3>1. Moves(c, "reserveTech", h[c].row, h[c].tech, h[c].bay, h[c].reply)
            BY <1>0, <2>1, GotoMoves
        <3>2. FreeOk(c)'
            BY <1>h, <2>0, <3>1 DEF Moves, FreeOk
        <3>3. QED
            BY <1>m, <3>1, <3>2
    <2>2. ASSUME NEW r \in Call, h' = [h EXCEPT ![c].pc = "done", ![c].row = r, ![c].reply = "200"]
          PROVE  Goal
        <3>1. Moves(c, "done", r, h[c].tech, h[c].bay, "200")
            BY <1>0, <1>h, <2>2 DEF TypeOK, Handler, Moves
        <3>2. QED
            BY <1>n, <3>1
    <2>3. CASE Done(c, "conflict")
        <3>1. Moves(c, "done", h[c].row, Nil, Nil, "conflict")
            BY <1>0, <2>3, DoneMoves
        <3>2. FreeOk(c)'
            BY <1>h, <2>0, <3>1 DEF Moves, FreeOk, Dropped
        <3>3. QED
            BY <1>m, <3>1, <3>2
    <2>4. ConfirmedWith(h[c].req.key) \subseteq Call
        BY DEF ConfirmedWith
    <2>5. QED
        BY <1>2, <2>1, <2>2, <2>3, <2>4 DEF Lookup
<1>3. ASSUME NEW c \in Call, ReserveTech(c) PROVE Goal
    <2>0. h[c].pc = "reserveTech" /\ UNCHANGED bayLedger
        BY <1>3 DEF ReserveTech
    <2>1. CASE h' = [h EXCEPT ![c].pc = "reserveBay", ![c].tech = c]
        <3>1. Moves(c, "reserveBay", h[c].row, c, h[c].bay, h[c].reply)
            BY <1>0, <1>h, <2>1 DEF TypeOK, Handler, Moves
        <3>2. FreeOk(c)'
            BY <1>h, <2>0, <3>1 DEF Moves, FreeOk
        <3>3. QED
            BY <1>m, <3>1, <3>2
    <2>2. CASE Done(c, "409") /\ UNCHANGED techLedger
        <3>1. Moves(c, "done", h[c].row, Nil, Nil, "409")
            BY <1>0, <2>2, DoneMoves
        <3>2. FreeOk(c)'
            BY <1>h, <2>0, <2>2, <3>1 DEF Moves, FreeOk, Dropped
        <3>3. QED
            BY <1>m, <3>1, <3>2
    <2>3. QED
        BY <1>3, <2>1, <2>2 DEF ReserveTech
<1>4. ASSUME NEW c \in Call, ReserveBay(c) PROVE Goal
    <2>0. h[c].pc = "reserveBay" /\ h[c].tech = c
        BY <1>0, <1>4 DEF ReserveBay, HandlerInv
    <2>1. CASE h' = [h EXCEPT ![c].pc = "insert", ![c].bay = c]
        <3>1. Moves(c, "insert", h[c].row, h[c].tech, c, h[c].reply)
            BY <1>0, <1>h, <2>1 DEF TypeOK, Handler, Moves
        <3>2. QED
            BY <1>n, <3>1
    <2>2. CASE h' = [h EXCEPT ![c].pc = "relTech", ![c].reply = "409"] /\ UNCHANGED bayLedger
        <3>1. Moves(c, "relTech", h[c].row, h[c].tech, h[c].bay, "409")
            BY <1>0, <1>h, <2>2 DEF TypeOK, Handler, Moves
        <3>2. FreeOk(c)'
            BY <1>h, <2>0, <2>2, <3>1 DEF Moves, FreeOk, Dropped
        <3>3. QED
            BY <1>m, <3>1, <3>2
    <2>3. QED
        BY <1>4, <2>1, <2>2 DEF ReserveBay
<1>5. ASSUME NEW c \in Call, InsertHeld(c) PROVE Goal
    <2>1. CASE h' = [h EXCEPT ![c].pc = "done", ![c].row = c, ![c].reply = "201",
                              ![c].tech = Nil, ![c].bay = Nil]
        <3>1. Moves(c, "done", c, Nil, Nil, "201")
            BY <1>0, <2>1 DEF TypeOK, Moves, Handler
        <3>2. QED
            BY <1>n, <3>1
    <2>2. CASE h' = [h EXCEPT ![c].pc = "confTech", ![c].row = c]
        <3>1. Moves(c, "confTech", c, h[c].tech, h[c].bay, h[c].reply)
            BY <1>0, <2>2 DEF TypeOK, Moves, Handler
        <3>2. QED
            BY <1>n, <3>1 DEF Early
    <2>3. QED
        BY <1>5, <2>1, <2>2 DEF InsertHeld
<1>6. ASSUME NEW c \in Call, GetHold(c) \/ KeyCheck(c) \/ CancelGet(c) \/ CancelUpdate(c)
      PROVE  Goal
    <2>0. h[c].req.kind \notin {"hold", "book"}
        BY <1>6, <1>h DEF GetHold, KeyCheck, CancelGet, CancelUpdate, ReplyOk
    <2>1. ASSUME NEW reply, Done(c, reply) PROVE Goal
        <3>1. Moves(c, "done", h[c].row, Nil, Nil, reply)
            BY <1>0, <2>1, DoneMoves
        <3>2. QED
            BY <1>n, <2>0, <3>1 DEF Early
    <2>2. ASSUME NEW reply, Compensate(c, reply) PROVE Goal
        <3>1. Moves(c, "relBay", h[c].row, h[c].tech, h[c].bay, reply)
            BY <1>0, <2>2, CompensateMoves
        <3>2. QED
            BY <1>n, <2>0, <3>1 DEF Early
    <2>3. ASSUME NEW pc \in {"confTech", "cancelUpdate"},
                 h' = [h EXCEPT ![c].row = h[c].req.hold, ![c].tech = RowOf(h[c].req.hold).tech,
                                ![c].bay = RowOf(h[c].req.hold).bay, ![c].pc = pc]
          PROVE  Goal
        <3>1. Moves(c, pc, h[c].req.hold, RowOf(h[c].req.hold).tech, RowOf(h[c].req.hold).bay,
                    h[c].reply)
            BY <1>0, <1>h, <2>3 DEF TypeOK, Moves, Handler
        <3>2. QED
            BY <1>n, <3>1 DEF Early
    <2>4. CASE h' = [h EXCEPT
                   ![c].row = h[c].req.hold,
                   ![c].pc = IF h[c].req.key = NoKey THEN "done" ELSE "keycheck",
                   ![c].reply = IF h[c].req.key = NoKey THEN "200" ELSE "none"]
        <3>1. PICK pc \in {"done", "keycheck"}, reply \in {"200", "none"} :
                 h' = [h EXCEPT ![c].row = h[c].req.hold, ![c].pc = pc, ![c].reply = reply]
            BY <2>4
        <3>2. Moves(c, pc, h[c].req.hold, h[c].tech, h[c].bay, reply)
            BY <1>0, <1>h, <3>1 DEF TypeOK, Moves, Handler
        <3>3. QED
            BY <1>n, <2>0, <3>1, <3>2 DEF Early
    <2>5. CASE GetHold(c)
        BY <2>1, <2>3, <2>4, <2>5 DEF GetHold
    <2>6. CASE KeyCheck(c) \/ CancelUpdate(c)
        BY <2>1, <2>2, <2>6 DEF KeyCheck, CancelUpdate
    <2>7. CASE CancelGet(c)
        BY <2>1, <2>3, <2>7 DEF CancelGet
    <2>8. QED
        BY <1>6, <2>5, <2>6, <2>7
<1>7. ASSUME NEW c \in Call, h[c].pc \in Confirming, NEW reply, Compensate(c, reply) PROVE Goal
    <2>1. Moves(c, "relBay", h[c].row, h[c].tech, h[c].bay, reply)
        BY <1>0, <1>7, CompensateMoves
    <2>2. h[c].req.kind \in {"hold", "book"} => h[c].tech = c /\ h[c].bay = c
        BY <1>0, <1>7, <1>h DEF HandlerInv, ReplyOk
    <2>3. FreeOk(c)'
        BY <2>1, <2>2 DEF Moves, FreeOk
    <2>4. QED
        BY <1>m, <2>1, <2>3
<1>8. ASSUME NEW c \in Call, NEW pc \in {"confBay", "promote", "recheck", "recheckUniq", "reget"},
             Goto(c, pc)
      PROVE  Goal
    <2>1. Moves(c, pc, h[c].row, h[c].tech, h[c].bay, h[c].reply)
        BY <1>0, <1>8, GotoMoves
    <2>2. QED
        BY <1>n, <2>1 DEF Early
<1>9. ASSUME NEW c \in Call, ConfTech(c) \/ ConfBay(c) \/ Promote(c) \/ Recheck(c) PROVE Goal
    <2>1. h[c].pc \in Confirming
        BY <1>9 DEF ConfTech, ConfBay, Promote, Recheck, Confirming
    <2>2. QED
        BY <1>7, <1>8, <1>9, <2>1 DEF ConfTech, ConfBay, Promote, Recheck
<1>10. ASSUME NEW c \in Call, Reget(c) \/ Abandon(c) PROVE Goal
    <2>1. PICK reply \in {"201", "lost"} : Done(c, reply)
        BY <1>10 DEF Reget, Abandon
    <2>2. Moves(c, "done", h[c].row, Nil, Nil, reply)
        BY <1>0, <2>1, DoneMoves
    <2>3. QED
        BY <1>n, <2>2
<1>11. ASSUME NEW c \in Call, RelBay(c) PROVE Goal
    <2>1. h[c].pc = "relBay" /\ Bay!Release(h[c].bay) /\ Goto(c, "relTech")
        BY <1>11 DEF RelBay
    <2>2. Moves(c, "relTech", h[c].row, h[c].tech, h[c].bay, h[c].reply)
        BY <1>0, <2>1, GotoMoves
    <2>3. h[c].bay = c => bayLedger'[c].st \in Dropped
        BY <1>t, <2>1 DEF Bay!Release, Bay!Live, Bay!LiveState, Dropped, Sts
    <2>4. FreeOk(c)'
        BY <1>h, <2>1, <2>2, <2>3 DEF Moves, FreeOk
    <2>5. QED
        BY <1>m, <2>2, <2>4
<1>12. ASSUME NEW c \in Call, RelTech(c) PROVE Goal
    <2>1. h[c].pc = "relTech" /\ Tech!Release(h[c].tech) /\ Done(c, h[c].reply) /\ UNCHANGED bayLedger
        BY <1>12 DEF RelTech
    <2>2. Moves(c, "done", h[c].row, Nil, Nil, h[c].reply)
        BY <1>0, <2>1, DoneMoves
    <2>3. h[c].tech = c => techLedger'[c].st \in Dropped
        BY <1>t, <2>1 DEF Tech!Release, Tech!Live, Tech!LiveState, Dropped, Sts
    <2>4. FreeOk(c)'
        BY <1>h, <2>1, <2>2, <2>3 DEF Moves, FreeOk
    <2>5. QED
        BY <1>m, <2>2, <2>4
<1>13. ASSUME NEW c \in Call PROVE ~RpcLost(c) /\ ~StoreLost(c)
    BY <1>0 DEF RpcLost, StoreLost
<1>14. CASE UNCHANGED h
    BY <1>14, FreeKept
<1>15. QED
    BY <1>1, <1>2, <1>3, <1>4, <1>5, <1>6, <1>9, <1>10, <1>11, <1>12, <1>13, <1>14, OtherFrame
    DEF Next, Step, SweeperStep, Time, vars

(* The claims that may still arrive are those of abandoned calls. *)
LEMMA FreeLate ==
    ASSUME NoFaults, BookInv, FreeInv, [Next]_vars
    PROVE  LateReserves'
<1>0. TypeOK /\ ~(faults < MaxFaults) /\ \A m \in late : m.id \in Call
    BY DEF BookInv, TypeOK, NoFaults, Message
<1>1. ASSUME NEW m \in late, m.op = "reserve"
      PROVE  h'[m.id].pc = "done" /\ h'[m.id].reply = "lost"
    BY <1>0, <1>1, AnswerFinal DEF FreeInv, LateReserves
<1>2. CASE late' \subseteq late
    BY <1>1, <1>2 DEF LateReserves
<1>3. ASSUME NEW c \in Call, Abandon(c) PROVE LateReserves'
    <2>1. CASE h[c].pc \in RpcPc /\ late' = late \cup {Pending(c)}
        <3>1. Pending(c).op = "reserve" => Pending(c).id = c
            BY DEF Pending
        <3>2. h'[c].pc = "done" /\ h'[c].reply = "lost"
            BY <1>0, <1>3, DoneMoves DEF Abandon, Moves
        <3>3. QED
            BY <1>1, <2>1, <3>1, <3>2 DEF LateReserves
    <2>2. QED
        BY <1>2, <1>3, <2>1 DEF Abandon
<1>4. CASE Deliver
    BY <1>2, <1>4 DEF Deliver
<1>5. CASE SweepRelBay \/ SweepRelTech
    BY <1>0, <1>2, <1>5 DEF SweepRelBay, SweepRelTech, env
<1>6. ~SweeperRestart /\ \A c \in Call : ~RpcLost(c)
    BY <1>0 DEF SweeperRestart, RpcLost
<1>7. CASE UNCHANGED late
    BY <1>2, <1>7
<1>8. QED
    BY <1>3, <1>4, <1>5, <1>6, <1>7, HandlerFrame, OtherFrame DEF Next, Step, SweeperStep, Time, vars

(* Without faults, a hold or a booking that is refused leaves nothing      *)
(* claimed, whatever keys are used and whichever other calls stop half     *)
(* way: compensation releases what the call itself claimed.                *)
THEOREM BookingFailureFrees ==
    ASSUME NoFaults
    PROVE  Spec => []FailureFreesClaims
<1>1. Init => FreeInv
    BY DEF Init, Idle, Tech!Init, Bay!Init, FreeInv, FreeOk, LateReserves
<1>2. BookInv /\ ReplyInv /\ FreeInv /\ [Next]_vars => FreeInv'
    BY FreeHandlers, FreeLate DEF FreeInv
<1>3. FreeInv => FailureFreesClaims
    BY DEF FreeInv, FreeOk, Dropped, FailureFreesClaims, Tech!Live, Bay!Live, Tech!LiveState,
           Bay!LiveState
<1>4. QED
    BY <1>1, <1>2, <1>3, BookInvariant, ReplyInvariant, PTL DEF Spec

=============================================================================
