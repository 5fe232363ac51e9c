--------------------------- MODULE BookingProofs ----------------------------
(***************************************************************************)
(* Booking, for any set of calls, any scripts and any number of faults:    *)
(* typing, that no confirmed occupation is ever orphaned, and that the     *)
(* sweeper touches cancelled appointments only.                            *)
(***************************************************************************)
EXTENDS Booking, TLAPS

Early == {"idle", "lookup", "reserveTech", "reserveBay", "insert"}
Confirming == {"confTech", "confBay", "promote", "recheck", "recheckUniq"}

(* An appointment keeps both ids until both occupations are gone. *)
RowInv ==
    \A r \in Call :
        /\ rows[r].status \in {"HELD", "CONFIRMED"} => rows[r].tech = r /\ rows[r].bay = r
        /\ rows[r].status = "CANCELLED" =>
             \/ rows[r].tech = r /\ rows[r].bay = r
             \/ /\ rows[r].tech = Nil /\ rows[r].bay = Nil
                /\ techLedger[r].st = "gone" /\ bayLedger[r].st = "gone"
        /\ rows[r].status # "NONE" =>
             techLedger[r].st # "none" /\ bayLedger[r].st # "none"

(* What a handler knows of its row and of its claims. *)
HandlerInv ==
    \A c \in Call :
        /\ h[c].pc \in Early => rows[c].status = "NONE"
        /\ h[c].pc \in Early \ {"idle"} => h[c].req.body \in Body
        /\ h[c].pc = "reserveBay" => h[c].tech = c /\ techLedger[c].st # "none"
        /\ h[c].pc = "insert" => /\ h[c].tech = c /\ techLedger[c].st # "none"
                                 /\ h[c].bay = c /\ bayLedger[c].st # "none"
        /\ h[c].pc \in Confirming =>
             /\ h[c].row \in Call /\ h[c].tech = h[c].row /\ h[c].bay = h[c].row
             /\ rows[h[c].row].status # "NONE"
        /\ h[c].pc = "cancelUpdate" => h[c].tech = h[c].bay

(* What an RPC may still do after Booking has given up on it. *)
LateInv ==
    \A m \in late :
        /\ m.op = "reserve" => h[m.id].pc # "idle" /\ h[m.id].req.body \in Body
        /\ m.op = "reserve" /\ m.at = "bay" => techLedger[m.id].st # "none"
        /\ m.op = "confirm" => rows[m.id].status # "NONE"

(* Claims of technicians are those that fit some body. *)
ClaimInv ==
    \A i \in Call : techLedger[i].st # "none" =>
        \E x \in Body : techLedger[i].on \in Fit[x]

(* The sweeper works on cancelled rows and remembers what it has released. *)
SweepInv ==
    /\ \A r \in sw.todo : rows[r].status = "CANCELLED"
    /\ sw.pc \in {"idle", "next"} => sw.cur = Nil
    /\ sw.pc \in {"relBay", "relTech", "clear"} =>
         /\ sw.cur \in Call /\ rows[sw.cur].status = "CANCELLED"
         /\ rows[sw.cur].tech = sw.cur /\ rows[sw.cur].bay = sw.cur
    /\ sw.pc \in {"relTech", "clear"} /\ sw.ok => bayLedger[sw.cur].st = "gone"
    /\ sw.pc = "clear" /\ sw.ok => techLedger[sw.cur].st = "gone"

(* A confirmed occupation is named by the appointment of its own call. *)
OwnerInv ==
    \A i \in Call :
        /\ techLedger[i].st = "confirmed" => rows[i].tech = i
        /\ bayLedger[i].st = "confirmed" => rows[i].bay = i

BookInv ==
    TypeOK /\ RowInv /\ HandlerInv /\ LateInv /\ ClaimInv /\ SweepInv /\ OwnerInv

-----------------------------------------------------------------------------
(* Ledger entries.                                                         *)

Sts == {"none", "gone", "held", "lapsed", "confirmed"}
Evolves(e, f) ==
    /\ f.st \in Sts
    /\ f.on \in Claim \cup {NoClaim}
    /\ e.st # "none" => f.st # "none" /\ f.on = e.on
    /\ e.st = "gone" => f.st = "gone"

(* Nothing is claimed and nothing becomes confirmed. *)
Fades(e, f) ==
    /\ Evolves(e, f)
    /\ f.st = "confirmed" => e.st = "confirmed"
    /\ e.st = "none" => f.st = "none"

(* The entries of a typed ledger, in the terms used here. *)
LEMMA TechTyped ==
    Tech!TypeOK <=> techLedger \in [Call -> [st : Sts, on : Claim \cup {NoClaim}]]
    BY DEF Tech!TypeOK, Tech!Entry, Tech!State, Tech!LiveState, Tech!NoClaim, NoClaim, Sts

(* The type of the bay ledger, in the constants of Booking. *)
LEMMA BayTyped ==
    Bay!TypeOK <=> bayLedger \in [Call -> [st : Sts, on : Claim \cup {NoClaim}]]
    BY DEF Bay!TypeOK, Bay!Entry, Bay!State, Bay!LiveState, Bay!NoClaim, NoClaim, Sts

(* What the operations of the technician ledger do to its entries. *)
LEMMA TechOps ==
    ASSUME Tech!TypeOK, NEW id \in Call
    PROVE  /\ Tech!Release(id) =>
                /\ Tech!TypeOK'
                /\ \A i \in Call : Fades(techLedger[i], techLedger'[i])
                /\ techLedger[id].st # "none" => techLedger'[id].st = "gone"
           /\ Tech!Confirm(id) =>
                /\ Tech!TypeOK'
                /\ \A i \in Call : /\ Evolves(techLedger[i], techLedger'[i])
                                   /\ techLedger[i].st = "none" => techLedger'[i].st = "none"
                                   /\ i # id => techLedger'[i] = techLedger[i]
           /\ \A on \in Claim, s \in {"held", "lapsed"} : Tech!Reserve(id, on, s) =>
                /\ Tech!TypeOK'
                /\ \A i \in Call : /\ Evolves(techLedger[i], techLedger'[i])
                                   /\ techLedger'[i].st = "confirmed" => techLedger[i].st = "confirmed"
                                   /\ i # id => techLedger'[i] = techLedger[i]
                /\ techLedger'[id].st # "none" /\ techLedger'[id].on = on
<1> USE TechTyped
<1>t. techLedger \in [Call -> [st : Sts, on : Claim \cup {NoClaim}]]
    OBVIOUS
<1>t2. techLedger' \in [Call -> [st : Sts, on : Claim \cup {NoClaim}]] => Tech!TypeOK'
    BY DEF Tech!TypeOK, Tech!Entry, Tech!State, Tech!LiveState, Tech!NoClaim, NoClaim, Sts
<1>1. ASSUME Tech!Release(id)
      PROVE  /\ Tech!TypeOK'
             /\ \A i \in Call : Fades(techLedger[i], techLedger'[i])
             /\ techLedger[id].st # "none" => techLedger'[id].st = "gone"
    BY <1>1, <1>t, <1>t2 DEF Tech!Release, Tech!Live, Tech!LiveState, Fades, Evolves, Sts
<1>2. ASSUME Tech!Confirm(id)
      PROVE  /\ Tech!TypeOK'
             /\ \A i \in Call : /\ Evolves(techLedger[i], techLedger'[i])
                                /\ techLedger[i].st = "none" => techLedger'[i].st = "none"
                                /\ i # id => techLedger'[i] = techLedger[i]
    BY <1>2, <1>t, <1>t2 DEF Tech!Confirm, Tech!CanConfirm, Evolves, Sts
<1>3. ASSUME NEW on \in Claim, NEW s \in {"held", "lapsed"}, Tech!Reserve(id, on, s)
      PROVE  /\ Tech!TypeOK'
             /\ \A i \in Call : /\ Evolves(techLedger[i], techLedger'[i])
                                /\ techLedger'[i].st = "confirmed" => techLedger[i].st = "confirmed"
                                /\ i # id => techLedger'[i] = techLedger[i]
             /\ techLedger'[id].st # "none" /\ techLedger'[id].on = on
    BY <1>3, <1>t, <1>t2 DEF Tech!Reserve, Evolves, Sts
<1>4. QED
    BY <1>1, <1>2, <1>3

(* What the operations of the bay ledger do to its entries. *)
LEMMA BayOps ==
    ASSUME Bay!TypeOK, NEW id \in Call
    PROVE  /\ Bay!Release(id) =>
                /\ Bay!TypeOK'
                /\ \A i \in Call : Fades(bayLedger[i], bayLedger'[i])
                /\ bayLedger[id].st # "none" => bayLedger'[id].st = "gone"
           /\ Bay!Confirm(id) =>
                /\ Bay!TypeOK'
                /\ \A i \in Call : /\ Evolves(bayLedger[i], bayLedger'[i])
                                   /\ bayLedger[i].st = "none" => bayLedger'[i].st = "none"
                                   /\ i # id => bayLedger'[i] = bayLedger[i]
           /\ \A on \in Claim, s \in {"held", "lapsed"} : Bay!Reserve(id, on, s) =>
                /\ Bay!TypeOK'
                /\ \A i \in Call : /\ Evolves(bayLedger[i], bayLedger'[i])
                                   /\ bayLedger'[i].st = "confirmed" => bayLedger[i].st = "confirmed"
                                   /\ i # id => bayLedger'[i] = bayLedger[i]
                /\ bayLedger'[id].st # "none" /\ bayLedger'[id].on = on
<1> USE BayTyped
<1>t. bayLedger \in [Call -> [st : Sts, on : Claim \cup {NoClaim}]]
    OBVIOUS
<1>t2. bayLedger' \in [Call -> [st : Sts, on : Claim \cup {NoClaim}]] => Bay!TypeOK'
    BY DEF Bay!TypeOK, Bay!Entry, Bay!State, Bay!LiveState, Bay!NoClaim, NoClaim, Sts
<1>1. ASSUME Bay!Release(id)
      PROVE  /\ Bay!TypeOK'
             /\ \A i \in Call : Fades(bayLedger[i], bayLedger'[i])
             /\ bayLedger[id].st # "none" => bayLedger'[id].st = "gone"
    BY <1>1, <1>t, <1>t2 DEF Bay!Release, Bay!Live, Bay!LiveState, Fades, Evolves, Sts
<1>2. ASSUME Bay!Confirm(id)
      PROVE  /\ Bay!TypeOK'
             /\ \A i \in Call : /\ Evolves(bayLedger[i], bayLedger'[i])
                                /\ bayLedger[i].st = "none" => bayLedger'[i].st = "none"
                                /\ i # id => bayLedger'[i] = bayLedger[i]
    BY <1>2, <1>t, <1>t2 DEF Bay!Confirm, Bay!CanConfirm, Evolves, Sts
<1>3. ASSUME NEW on \in Claim, NEW s \in {"held", "lapsed"}, Bay!Reserve(id, on, s)
      PROVE  /\ Bay!TypeOK'
             /\ \A i \in Call : /\ Evolves(bayLedger[i], bayLedger'[i])
                                /\ bayLedger'[i].st = "confirmed" => bayLedger[i].st = "confirmed"
                                /\ i # id => bayLedger'[i] = bayLedger[i]
             /\ bayLedger'[id].st # "none" /\ bayLedger'[id].on = on
    BY <1>3, <1>t, <1>t2 DEF Bay!Reserve, Evolves, Sts
<1>4. QED
    BY <1>1, <1>2, <1>3

(* Expiry and the reaper only make entries fade. *)
LEMMA TechTimeFades ==
    ASSUME Tech!TypeOK, Tech!Reap \/ \E S \in SUBSET Call : Tech!Lapse(S)
    PROVE  Tech!TypeOK' /\ \A i \in Call : Fades(techLedger[i], techLedger'[i])
<1>1. techLedger \in [Call -> [st : Sts, on : Claim \cup {NoClaim}]]
    BY TechTyped
<1>2. techLedger' \in [Call -> [st : Sts, on : Claim \cup {NoClaim}]]
    BY <1>1 DEF Tech!Reap, Tech!Lapse, Sts
<1>3. Tech!TypeOK'
    BY <1>2 DEF Tech!TypeOK, Tech!Entry, Tech!State, Tech!LiveState, Tech!NoClaim, NoClaim, Sts
<1>4. \A i \in Call : Fades(techLedger[i], techLedger'[i])
    BY <1>1 DEF Tech!Reap, Tech!Lapse, Fades, Evolves, Sts
<1>5. QED
    BY <1>3, <1>4

(* The same of the bay ledger. *)
LEMMA BayTimeFades ==
    ASSUME Bay!TypeOK, Bay!Reap \/ \E S \in SUBSET Call : Bay!Lapse(S)
    PROVE  Bay!TypeOK' /\ \A i \in Call : Fades(bayLedger[i], bayLedger'[i])
<1>1. bayLedger \in [Call -> [st : Sts, on : Claim \cup {NoClaim}]]
    BY BayTyped
<1>2. bayLedger' \in [Call -> [st : Sts, on : Claim \cup {NoClaim}]]
    BY <1>1 DEF Bay!Reap, Bay!Lapse, Sts
<1>3. Bay!TypeOK'
    BY <1>2 DEF Bay!TypeOK, Bay!Entry, Bay!State, Bay!LiveState, Bay!NoClaim, NoClaim, Sts
<1>4. \A i \in Call : Fades(bayLedger[i], bayLedger'[i])
    BY <1>1 DEF Bay!Reap, Bay!Lapse, Fades, Evolves, Sts
<1>5. QED
    BY <1>3, <1>4

-----------------------------------------------------------------------------
(* Frames: what the actions leave alone.                                   *)

(* What each step of a handler leaves alone. *)
LEMMA HandlerFrame ==
    ASSUME NEW c \in Call
    PROVE  /\ Arrive(c) \/ Lookup(c) \/ GetHold(c) \/ KeyCheck(c) \/ Recheck(c)
             \/ Reget(c) \/ CancelGet(c)
                => UNCHANGED <<rows, techLedger, bayLedger, sw, late, faults>>
           /\ InsertHeld(c) \/ Promote(c) \/ CancelUpdate(c)
                => UNCHANGED <<techLedger, bayLedger, sw, late, faults>>
           /\ ReserveTech(c) \/ ConfTech(c) \/ RelTech(c)
                => UNCHANGED <<rows, bayLedger, sw, late, faults>>
           /\ ReserveBay(c) \/ ConfBay(c) \/ RelBay(c)
                => UNCHANGED <<rows, techLedger, sw, late, faults>>
           /\ RpcLost(c) => UNCHANGED <<rows, techLedger, bayLedger, sw>>
           /\ StoreLost(c) => UNCHANGED <<techLedger, bayLedger, sw, late>>
           /\ Abandon(c) => UNCHANGED <<rows, techLedger, bayLedger, sw, faults>>
<1> USE DEF ledgers, env
<1>1. Arrive(c) \/ Lookup(c) \/ GetHold(c) \/ KeyCheck(c) \/ Recheck(c)
             \/ Reget(c) \/ CancelGet(c)
                => UNCHANGED <<rows, techLedger, bayLedger, sw, late, faults>>
    BY DEF Arrive, Lookup, GetHold, KeyCheck, Recheck, Reget, CancelGet
<1>2. InsertHeld(c) \/ Promote(c) \/ CancelUpdate(c)
                => UNCHANGED <<techLedger, bayLedger, sw, late, faults>>
    BY DEF InsertHeld, Promote, CancelUpdate
<1>3. ReserveTech(c) \/ ConfTech(c) \/ RelTech(c)
                => UNCHANGED <<rows, bayLedger, sw, late, faults>>
    BY DEF ReserveTech, ConfTech, RelTech
<1>4. ReserveBay(c) \/ ConfBay(c) \/ RelBay(c)
                => UNCHANGED <<rows, techLedger, sw, late, faults>>
    BY DEF ReserveBay, ConfBay, RelBay
<1>5. RpcLost(c) => UNCHANGED <<rows, techLedger, bayLedger, sw>>
    BY DEF RpcLost
<1>6. StoreLost(c) => UNCHANGED <<techLedger, bayLedger, sw, late>>
    BY DEF StoreLost
<1>7. Abandon(c) => UNCHANGED <<rows, techLedger, bayLedger, sw, faults>>
    BY DEF Abandon
<1>8. QED
    BY <1>1, <1>2, <1>3, <1>4, <1>5, <1>6, <1>7

(* What the sweeper, the network and the passage of time leave alone. *)
LEMMA OtherFrame ==
    /\ Deliver => UNCHANGED <<rows, h, sw, faults>>
    /\ SweepBatch => UNCHANGED <<h, techLedger, bayLedger, late>>
    /\ SweepNext \/ SweepList \/ SweepEnd
         => UNCHANGED <<rows, h, techLedger, bayLedger, late, faults>>
    /\ SweepRelBay => UNCHANGED <<rows, h, techLedger>>
    /\ SweepRelTech => UNCHANGED <<rows, h, bayLedger>>
    /\ SweepClear => UNCHANGED <<h, techLedger, bayLedger, late>>
    /\ SweeperRestart => UNCHANGED <<rows, h, techLedger, bayLedger>>
    /\ \A i \in Call : RowExpire(i) => UNCHANGED <<h, techLedger, bayLedger, sw, late, faults>>
    /\ TechReap \/ (\E i \in Call : TechLapse(i))
         => UNCHANGED <<rows, h, bayLedger, sw, late, faults>>
    /\ BayReap \/ (\E i \in Call : BayLapse(i))
         => UNCHANGED <<rows, h, techLedger, sw, late, faults>>
<1> USE DEF ledgers, env
<1>1. Deliver => UNCHANGED <<rows, h, sw, faults>>
    BY DEF Deliver
<1>2. SweepBatch => UNCHANGED <<h, techLedger, bayLedger, late>>
    BY DEF SweepBatch
<1>3. SweepNext \/ SweepList \/ SweepEnd
         => UNCHANGED <<rows, h, techLedger, bayLedger, late, faults>>
    BY DEF SweepNext, SweepList, SweepEnd
<1>4. SweepRelBay => UNCHANGED <<rows, h, techLedger>>
    BY DEF SweepRelBay
<1>5. SweepRelTech => UNCHANGED <<rows, h, bayLedger>>
    BY DEF SweepRelTech
<1>6. SweepClear => UNCHANGED <<h, techLedger, bayLedger, late>>
    BY DEF SweepClear
<1>7. SweeperRestart => UNCHANGED <<rows, h, techLedger, bayLedger>>
    BY DEF SweeperRestart
<1>8. \A i \in Call : RowExpire(i) => UNCHANGED <<h, techLedger, bayLedger, sw, late, faults>>
    BY DEF RowExpire
<1>9. TechReap \/ (\E i \in Call : TechLapse(i))
         => UNCHANGED <<rows, h, bayLedger, sw, late, faults>>
    BY DEF TechReap, TechLapse
<1>10. BayReap \/ (\E i \in Call : BayLapse(i))
         => UNCHANGED <<rows, h, techLedger, sw, late, faults>>
    BY DEF BayReap, BayLapse
<1>11. QED
    BY <1>1, <1>2, <1>3, <1>4, <1>5, <1>6, <1>7, <1>8, <1>9, <1>10

-----------------------------------------------------------------------------
(* What a step does to the ledgers.                                        *)

TechEffect ==
    /\ Tech!TypeOK'
    /\ \A i \in Call :
         /\ Evolves(techLedger[i], techLedger'[i])
         /\ techLedger'[i].st = "confirmed" =>
              techLedger[i].st = "confirmed" \/ rows[i].status # "NONE"
         /\ techLedger[i].st = "none" /\ techLedger'[i].st # "none" =>
              \E x \in Body : techLedger'[i].on \in Fit[x]

BayEffect ==
    /\ Bay!TypeOK'
    /\ \A i \in Call :
         /\ Evolves(bayLedger[i], bayLedger'[i])
         /\ bayLedger'[i].st = "confirmed" =>
              bayLedger[i].st = "confirmed" \/ rows[i].status # "NONE"

(* A technician is confirmed only for an appointment that exists, and      *)
(* claimed only as some body needs it.                                     *)
LEMMA TechStep == BookInv /\ [Next]_vars => TechEffect
<1> SUFFICES ASSUME BookInv, [Next]_vars PROVE TechEffect
    OBVIOUS
<1>0. Tech!TypeOK /\ TypeOK /\ HandlerInv /\ LateInv
    BY DEF BookInv, TypeOK
<1>t. techLedger \in [Call -> [st : Sts, on : Claim \cup {NoClaim}]]
    BY <1>0, TechTyped
<1>1. ASSUME Tech!TypeOK', \A i \in Call : Fades(techLedger[i], techLedger'[i])
      PROVE  TechEffect
    BY <1>1 DEF TechEffect, Fades
<1>2. ASSUME UNCHANGED techLedger PROVE TechEffect
    <2>1. Tech!TypeOK'
        BY <1>0, <1>2 DEF Tech!TypeOK, Tech!Entry, Tech!State, Tech!LiveState, Tech!NoClaim
    <2>2. \A i \in Call : Fades(techLedger[i], techLedger'[i])
        BY <1>t, <1>2 DEF Fades, Evolves
    <2>3. QED
        BY <1>1, <2>1, <2>2
<1>3. ASSUME NEW id \in Call, Tech!Release(id) PROVE TechEffect
    BY <1>0, <1>1, <1>3, TechOps
<1>4. ASSUME NEW id \in Call, Tech!Confirm(id), rows[id].status # "NONE" PROVE TechEffect
    BY <1>0, <1>4, TechOps DEF TechEffect
<1>5. ASSUME NEW id \in Call, NEW x \in Body, NEW on \in Fit[x],
             NEW s \in {"held", "lapsed"}, Tech!Reserve(id, on, s)
      PROVE  TechEffect
    <2>1. on \in Claim
        BY FitAssumption
    <2>2. QED
        BY <1>0, <1>5, <2>1, TechOps DEF TechEffect
<1>6. ASSUME NEW c \in Call, ReserveTech(c) PROVE TechEffect
    <2>1. h[c].req.body \in Body
        BY <1>0, <1>6 DEF ReserveTech, HandlerInv, Early
    <2>2. QED
        BY <1>2, <1>5, <1>6, <2>1 DEF ReserveTech
<1>7. ASSUME NEW c \in Call, ConfTech(c) PROVE TechEffect
    <2>1. h[c].tech \in Call /\ rows[h[c].tech].status # "NONE"
        BY <1>0, <1>7 DEF ConfTech, HandlerInv, Confirming
    <2>2. QED
        BY <1>2, <1>4, <1>7, <2>1 DEF ConfTech
<1>8. ASSUME NEW c \in Call, RelTech(c) PROVE TechEffect
    <2>1. h[c].tech \in Call
        BY <1>0, <1>8 DEF RelTech, TypeOK, Handler
    <2>2. QED
        BY <1>3, <1>8, <2>1 DEF RelTech
<1>9. CASE Deliver
    <2>1. PICK m \in late : Execute(m)
        BY <1>9 DEF Deliver
    <2>2. m.id \in Call
        BY <1>0 DEF TypeOK, Message
    <2>3. CASE m.op = "reserve" /\ m.at = "tech"
        <3>1. h[m.id].req.body \in Body
            BY <1>0, <2>3 DEF LateInv
        <3>2. QED
            BY <1>5, <2>1, <2>2, <2>3, <3>1 DEF Execute
    <2>4. CASE m.op = "confirm" /\ m.at = "tech"
        <3>1. rows[m.id].status # "NONE"
            BY <1>0, <2>4 DEF LateInv
        <3>2. QED
            BY <1>4, <2>1, <2>2, <2>4, <3>1 DEF Execute
    <2>5. CASE m.op = "release" /\ m.at = "tech"
        BY <1>3, <2>1, <2>2, <2>5 DEF Execute
    <2>6. CASE m.at = "bay"
        BY <1>2, <2>1, <2>6 DEF Execute
    <2>7. QED
        BY <2>1, <2>3, <2>4, <2>5, <2>6 DEF Execute
<1>10. CASE SweepRelTech
    <2>1. rows[sw.cur].tech \in Call
        BY <1>10 DEF SweepRelTech, BookInv, SweepInv
    <2>2. QED
        BY <1>2, <1>3, <1>10, <2>1 DEF SweepRelTech
<1>11. CASE TechReap \/ \E i \in Call : TechLapse(i)
    <2>1. Tech!Reap \/ \E S \in SUBSET Call : Tech!Lapse(S)
        BY <1>11 DEF TechReap, TechLapse
    <2>2. QED
        BY <1>0, <1>1, <2>1, TechTimeFades
<1>12. QED
    BY <1>2, <1>6, <1>7, <1>8, <1>9, <1>10, <1>11, HandlerFrame, OtherFrame
    DEF Next, Step, SweeperStep, Time, vars

(* The same of bays. *)
LEMMA BayStep == BookInv /\ [Next]_vars => BayEffect
<1> SUFFICES ASSUME BookInv, [Next]_vars PROVE BayEffect
    OBVIOUS
<1>0. Bay!TypeOK /\ TypeOK /\ HandlerInv /\ LateInv /\ ClaimInv
    BY DEF BookInv, TypeOK
<1>t. bayLedger \in [Call -> [st : Sts, on : Claim \cup {NoClaim}]]
    BY <1>0, BayTyped
<1>1. ASSUME Bay!TypeOK', \A i \in Call : Fades(bayLedger[i], bayLedger'[i])
      PROVE  BayEffect
    BY <1>1 DEF BayEffect, Fades
<1>2. ASSUME UNCHANGED bayLedger PROVE BayEffect
    <2>1. Bay!TypeOK'
        BY <1>0, <1>2 DEF Bay!TypeOK, Bay!Entry, Bay!State, Bay!LiveState, Bay!NoClaim
    <2>2. \A i \in Call : Fades(bayLedger[i], bayLedger'[i])
        BY <1>t, <1>2 DEF Fades, Evolves
    <2>3. QED
        BY <1>1, <2>1, <2>2
<1>3. ASSUME NEW id \in Call, Bay!Release(id) PROVE BayEffect
    BY <1>0, <1>1, <1>3, BayOps
<1>4. ASSUME NEW id \in Call, Bay!Confirm(id), rows[id].status # "NONE" PROVE BayEffect
    BY <1>0, <1>4, BayOps DEF BayEffect
<1>5. ASSUME NEW id \in Call, NEW b \in Bays, NEW s \in {"held", "lapsed"},
             techLedger[id].st # "none", Bay!Reserve(id, BayClaim(b, techLedger[id].on), s)
      PROVE  BayEffect
    <2>1. BayClaim(b, techLedger[id].on) \in Claim
        BY <1>0, <1>5, FitAssumption DEF ClaimInv
    <2>2. QED
        BY <1>0, <1>5, <2>1, BayOps DEF BayEffect
<1>6. ASSUME NEW c \in Call, ReserveBay(c) PROVE BayEffect
    <2>1. techLedger[c].st # "none"
        BY <1>0, <1>6 DEF ReserveBay, HandlerInv
    <2>2. QED
        BY <1>2, <1>5, <1>6, <2>1 DEF ReserveBay
<1>7. ASSUME NEW c \in Call, ConfBay(c) PROVE BayEffect
    <2>1. h[c].bay \in Call /\ rows[h[c].bay].status # "NONE"
        BY <1>0, <1>7 DEF ConfBay, HandlerInv, Confirming
    <2>2. QED
        BY <1>2, <1>4, <1>7, <2>1 DEF ConfBay
<1>8. ASSUME NEW c \in Call, RelBay(c) PROVE BayEffect
    <2>1. h[c].bay \in Call
        BY <1>0, <1>8 DEF RelBay, TypeOK, Handler
    <2>2. QED
        BY <1>3, <1>8, <2>1 DEF RelBay
<1>9. CASE Deliver
    <2>1. PICK m \in late : Execute(m)
        BY <1>9 DEF Deliver
    <2>2. m.id \in Call
        BY <1>0 DEF TypeOK, Message
    <2>3. CASE m.op = "reserve" /\ m.at = "bay"
        <3>1. techLedger[m.id].st # "none"
            BY <1>0, <2>3 DEF LateInv
        <3>2. QED
            BY <1>5, <2>1, <2>2, <2>3, <3>1 DEF Execute
    <2>4. CASE m.op = "confirm" /\ m.at = "bay"
        <3>1. rows[m.id].status # "NONE"
            BY <1>0, <2>4 DEF LateInv
        <3>2. QED
            BY <1>4, <2>1, <2>2, <2>4, <3>1 DEF Execute
    <2>5. CASE m.op = "release" /\ m.at = "bay"
        BY <1>3, <2>1, <2>2, <2>5 DEF Execute
    <2>6. CASE m.at = "tech"
        BY <1>2, <2>1, <2>6 DEF Execute
    <2>7. QED
        BY <2>1, <2>3, <2>4, <2>5, <2>6 DEF Execute
<1>10. CASE SweepRelBay
    <2>1. rows[sw.cur].bay \in Call
        BY <1>10 DEF SweepRelBay, BookInv, SweepInv
    <2>2. QED
        BY <1>2, <1>3, <1>10, <2>1 DEF SweepRelBay
<1>11. CASE BayReap \/ \E i \in Call : BayLapse(i)
    <2>1. Bay!Reap \/ \E S \in SUBSET Call : Bay!Lapse(S)
        BY <1>11 DEF BayReap, BayLapse
    <2>2. QED
        BY <1>0, <1>1, <2>1, BayTimeFades
<1>12. QED
    BY <1>2, <1>6, <1>7, <1>8, <1>9, <1>10, <1>11, HandlerFrame, OtherFrame
    DEF Next, Step, SweeperStep, Time, vars

-----------------------------------------------------------------------------
(* What a step does to an appointment: nothing, the insert, expiry or      *)
(* promotion of a hold, cancellation, or the sweeper's clearing of ids.    *)

RowKept(r) ==
    rows'[r].tech = rows[r].tech /\ rows'[r].bay = rows[r].bay

RowChange(r) ==
    \/ rows'[r] = rows[r]
    \/ /\ h[r].pc = "insert" /\ h'[r].pc \notin Early
       /\ rows'[r].status = "HELD" /\ rows'[r].tech = r /\ rows'[r].bay = r
    \/ /\ rows[r].status = "HELD" /\ rows'[r].status \in {"HELD", "CONFIRMED"}
       /\ RowKept(r)
    \/ /\ rows[r].status \in {"HELD", "CONFIRMED"} /\ rows'[r].status = "CANCELLED"
       /\ RowKept(r)
    \/ /\ sw.pc = "clear" /\ sw'.pc = "next" /\ sw.ok /\ sw.cur = r
       /\ rows[r].status = "CANCELLED" /\ rows'[r].status = "CANCELLED"
       /\ rows'[r].tech = Nil /\ rows'[r].bay = Nil

RowEffect == rows' \in [Call -> Row] /\ \A r \in Call : RowChange(r)

(* The UPDATEs of Cancel and SweepBatch change rows as RowChange allows. *)
LEMMA CancelledChange ==
    ASSUME TypeOK, NEW S, rows' = Cancelled(S)
    PROVE  RowEffect
<1>1. ASSUME NEW r \in Call
      PROVE  /\ rows[r] \in Row
             /\ [rows[r] EXCEPT !.status = "CANCELLED", !.expired = FALSE] \in Row
    BY DEF TypeOK, Row
<1>2. rows' \in [Call -> Row]
    BY <1>1 DEF Cancelled
<1>3. ASSUME NEW r \in Call PROVE RowChange(r)
    BY <1>1 DEF Cancelled, Row, RowChange, RowKept
<1>4. QED
    BY <1>2, <1>3 DEF RowEffect

(* So does the INSERT of a handler that holds both occupations. *)
LEMMA InsertedChange ==
    ASSUME BookInv, NEW c \in Call, h[c].pc = "insert", h'[c].pc \notin Early,
           rows' = Inserted(c)
    PROVE  RowEffect
<1>1. h[c].tech = c /\ h[c].bay = c
    BY DEF BookInv, HandlerInv
<1>2. rows \in [Call -> Row]
    BY DEF BookInv, TypeOK
<1>3. [NoRow EXCEPT !.status = "HELD", !.tech = c, !.bay = c] \in Row
    BY DEF NoRow, Row, NoFp, Fingerprint
<1>4. rows' \in [Call -> Row]
    BY <1>1, <1>2, <1>3 DEF Inserted
<1>5. ASSUME NEW r \in Call PROVE RowChange(r)
    BY <1>1, <1>2 DEF Inserted, RowChange, NoRow
<1>6. QED
    BY <1>4, <1>5 DEF RowEffect

(* So does the UPDATE of Promote, whose WHERE clause finds a HELD row. *)
LEMMA PromotedChange ==
    ASSUME BookInv, NEW c \in Call, h[c].pc = "promote",
           rows[h[c].row].status = "HELD", rows' = Promoted(c)
    PROVE  RowEffect
<1>1. h[c].row \in Call /\ rows \in [Call -> Row] /\ h[c] \in Handler
    BY DEF BookInv, HandlerInv, Confirming, TypeOK
<1>2. FpOf(c) \in [hold : Call \cup {Nil}, body : Body \cup {NoBody}]
    BY <1>1 DEF FpOf, Fingerprint, Handler, Request
<1>3. h[c].req.key \in Key \cup {NoKey}
    BY <1>1 DEF Handler, Request
<1>4. [rows[h[c].row] EXCEPT !.status = "CONFIRMED", !.expired = FALSE,
                  !.key = h[c].req.key, !.fp = FpOf(c)] \in Row
    BY <1>1, <1>2, <1>3 DEF Row
<1>5. rows' \in [Call -> Row]
    BY <1>1, <1>4 DEF Promoted
<1>6. ASSUME NEW r \in Call PROVE RowChange(r)
    BY <1>1 DEF Promoted, RowChange, RowKept, Row
<1>7. QED
    BY <1>5, <1>6 DEF RowEffect

(* Hence every step, of a handler or the sweeper, whether or not its reply arrives. *)
LEMMA RowStep == BookInv /\ [Next]_vars => RowEffect
<1> SUFFICES ASSUME BookInv, [Next]_vars PROVE RowEffect
    OBVIOUS
<1>0. TypeOK
    BY DEF BookInv
<1>1. ASSUME UNCHANGED rows PROVE RowEffect
    BY <1>0, <1>1 DEF TypeOK, RowEffect, RowChange
<1>p. ASSUME NEW c \in Call PROVE h[c] \in Handler
    BY <1>0 DEF TypeOK
<1>2. ASSUME NEW c \in Call, InsertHeld(c) PROVE RowEffect
    <2>1. h'[c].pc \notin Early
        BY <1>0, <1>2, <1>p DEF InsertHeld, Early, TypeOK, Handler
    <2>2. QED
        BY <1>2, <2>1, InsertedChange DEF InsertHeld
<1>3. ASSUME NEW c \in Call, Promote(c) PROVE RowEffect
    BY <1>1, <1>3, PromotedChange DEF Promote
<1>4. ASSUME NEW c \in Call, CancelUpdate(c) PROVE RowEffect
    BY <1>0, <1>4, CancelledChange DEF CancelUpdate
<1>5. ASSUME NEW c \in Call, StoreLost(c) PROVE RowEffect
    <2>1. CASE UNCHANGED rows
        BY <1>1, <2>1
    <2>2. CASE h[c].pc = "insert" /\ Compensate(c, "409") /\ rows' = Inserted(c)
        <3>1. h'[c].pc \notin Early
            BY <1>0, <1>p, <2>2 DEF Compensate, Early, TypeOK, Handler
        <3>2. QED
            BY <2>2, <3>1, InsertedChange
    <2>3. CASE h[c].pc = "promote" /\ rows[h[c].row].status = "HELD" /\ rows' = Promoted(c)
        BY <2>3, PromotedChange
    <2>4. CASE rows' = Cancelled({h[c].row})
        BY <1>0, <2>4, CancelledChange
    <2>5. QED
        BY <1>5, <2>1, <2>2, <2>3, <2>4 DEF StoreLost
<1>6. CASE SweepBatch
    BY <1>0, <1>6, CancelledChange DEF SweepBatch
<1>7. CASE SweepClear
    <2>1. CASE UNCHANGED rows
        BY <1>1, <2>1
    <2>2. CASE sw.ok /\ rows' = Cleared(sw.cur)
        <3>1. /\ sw.pc = "clear" /\ sw'.pc = "next"
              /\ sw.cur \in Call /\ rows[sw.cur].status = "CANCELLED"
            BY <1>0, <1>7 DEF SweepClear, BookInv, SweepInv, TypeOK, Sweeper
        <3>r. rows[sw.cur] \in Row
            BY <1>0, <3>1 DEF TypeOK
        <3>2. [rows[sw.cur] EXCEPT !.tech = Nil, !.bay = Nil] \in Row
            BY <3>r DEF Row
        <3>3. rows' = [rows EXCEPT ![sw.cur] = [rows[sw.cur] EXCEPT !.tech = Nil, !.bay = Nil]]
            BY <2>2, <3>1 DEF Cleared
        <3>4. rows' \in [Call -> Row]
            BY <1>0, <3>1, <3>2, <3>3 DEF TypeOK
        <3>5. ASSUME NEW r \in Call PROVE RowChange(r)
            BY <1>0, <2>2, <3>1, <3>3 DEF TypeOK, RowChange, Row
        <3>6. QED
            BY <3>4, <3>5 DEF RowEffect
    <2>3. QED
        BY <1>7, <2>1, <2>2 DEF SweepClear
<1>8. ASSUME NEW i \in Call, RowExpire(i) PROVE RowEffect
    <2>1. rows' \in [Call -> Row]
        BY <1>0, <1>8 DEF RowExpire, TypeOK, Row
    <2>2. ASSUME NEW r \in Call PROVE RowChange(r)
        BY <1>0, <1>8 DEF RowExpire, TypeOK, RowChange, RowKept, Row
    <2>3. QED
        BY <2>1, <2>2 DEF RowEffect
<1>9. QED
    BY <1>1, <1>2, <1>3, <1>4, <1>5, <1>6, <1>7, <1>8, HandlerFrame, OtherFrame
    DEF Next, Step, SweeperStep, Time, vars

-----------------------------------------------------------------------------
(* The parts of the invariant that speak of rows and ledgers only.         *)

(* The table invariants follow from the effects on rows and ledgers alone. *)
LEMMA RowInvStep ==
    ASSUME BookInv, TechEffect, BayEffect, RowEffect
    PROVE  RowInv' /\ ClaimInv' /\ OwnerInv'
<1>1. ASSUME NEW r \in Call
      PROVE  /\ rows'[r].status \in {"HELD", "CONFIRMED"} => rows'[r].tech = r /\ rows'[r].bay = r
             /\ rows'[r].status = "CANCELLED" =>
                  \/ rows'[r].tech = r /\ rows'[r].bay = r
                  \/ /\ rows'[r].tech = Nil /\ rows'[r].bay = Nil
                     /\ techLedger'[r].st = "gone" /\ bayLedger'[r].st = "gone"
             /\ rows'[r].status # "NONE" =>
                  techLedger'[r].st # "none" /\ bayLedger'[r].st # "none"
    BY DEF BookInv, RowInv, HandlerInv, SweepInv, TechEffect, BayEffect, RowEffect,
           RowChange, RowKept, Evolves
<1>2. ClaimInv'
    <2>1. ASSUME NEW i \in Call, techLedger'[i].st # "none"
          PROVE  \E x \in Body : techLedger'[i].on \in Fit[x]
        BY <2>1 DEF BookInv, ClaimInv, TechEffect, Evolves
    <2>2. QED
        BY <2>1 DEF ClaimInv
<1>3. ASSUME NEW i \in Call
      PROVE  /\ techLedger'[i].st = "confirmed" => rows'[i].tech = i
             /\ bayLedger'[i].st = "confirmed" => rows'[i].bay = i
    <2>1. rows[i].status \in {"NONE", "HELD", "CONFIRMED", "CANCELLED"}
        BY DEF BookInv, TypeOK, Row
    <2>2. QED
        BY <2>1 DEF BookInv, RowInv, OwnerInv, SweepInv, TechEffect, BayEffect, RowEffect,
               RowChange, RowKept, Evolves
<1>4. QED
    BY <1>1, <1>2, <1>3 DEF RowInv, OwnerInv

-----------------------------------------------------------------------------
(* What a step does to the handlers.                                       *)

Pcs == {"idle", "done"} \cup RpcPc \cup StorePc

(* Handler c moves on to pc, with what it then knows of its row. *)
To(c, pc, row, tech, bay) ==
    /\ h' \in [Call -> Handler]
    /\ \A d \in Call \ {c} : h'[d] = h[d]
    /\ h'[c].pc = pc /\ h'[c].row = row /\ h'[c].tech = tech /\ h'[c].bay = bay
    /\ h'[c].req = h[c].req

(* At pc, handler c needs to know this. *)
Knows(c, pc, row, tech, bay) ==
    /\ pc # "idle"
    /\ pc \in {"confTech", "confBay", "relBay"} => bay # Nil
    /\ pc \in {"confTech", "confBay", "relBay", "relTech"} => tech # Nil
    /\ pc \in Early => rows[c].status = "NONE" /\ h[c].req.body \in Body
    /\ pc = "reserveBay" => tech = c /\ techLedger'[c].st # "none"
    /\ pc = "insert" => /\ tech = c /\ techLedger'[c].st # "none"
                        /\ bay = c /\ bayLedger'[c].st # "none"
    /\ pc \in Confirming => /\ row \in Call /\ tech = row /\ bay = row
                            /\ rows'[row].status # "NONE"
    /\ pc = "cancelUpdate" => tech = bay

HandlerEffect ==
    /\ h' \in [Call -> Handler]
    /\ \A c \in Call :
         /\ h'[c].pc \in {"confTech", "confBay", "relBay"} => h'[c].bay # Nil
         /\ h'[c].pc \in {"confTech", "confBay", "relBay", "relTech"} => h'[c].tech # Nil
         /\ h[c].pc # "idle" => h'[c].pc # "idle" /\ h'[c].req = h[c].req
    /\ HandlerInv'

(* Rows and claims are never undone, so what a handler knew stays true. *)
LEMMA Monotone ==
    ASSUME BookInv, TechEffect, BayEffect, RowEffect, NEW r \in Call
    PROVE  /\ rows[r].status # "NONE" => rows'[r].status # "NONE"
           /\ rows[r].status = "NONE" /\ h'[r].pc \in Early => rows'[r].status = "NONE"
           /\ techLedger[r].st # "none" => techLedger'[r].st # "none"
           /\ bayLedger[r].st # "none" => bayLedger'[r].st # "none"
<1>1. h[r].pc = "insert" => rows[r].status = "NONE"
    BY DEF BookInv, HandlerInv, Early
<1>2. QED
    BY <1>1 DEF TechEffect, BayEffect, RowEffect, RowChange, Evolves

(* A handler that does not move keeps what it knows while the others do. *)
LEMMA HandlerKept ==
    ASSUME BookInv, TechEffect, BayEffect, RowEffect, NEW d \in Call, h'[d] = h[d]
    PROVE  /\ h'[d].pc \in Early => rows'[d].status = "NONE"
           /\ h'[d].pc \in Early \ {"idle"} => h'[d].req.body \in Body
           /\ h'[d].pc = "reserveBay" => h'[d].tech = d /\ techLedger'[d].st # "none"
           /\ h'[d].pc = "insert" => /\ h'[d].tech = d /\ techLedger'[d].st # "none"
                                     /\ h'[d].bay = d /\ bayLedger'[d].st # "none"
           /\ h'[d].pc \in Confirming =>
                /\ h'[d].row \in Call /\ h'[d].tech = h'[d].row /\ h'[d].bay = h'[d].row
                /\ rows'[h'[d].row].status # "NONE"
           /\ h'[d].pc = "cancelUpdate" => h'[d].tech = h'[d].bay
           /\ h'[d].pc \in {"confTech", "confBay", "relBay"} => h'[d].bay # Nil
           /\ h'[d].pc \in {"confTech", "confBay", "relBay", "relTech"} => h'[d].tech # Nil
    BY Monotone DEF BookInv, HandlerInv, TypeOK

(* A handler that moves to pc must know what HandlerInv says of pc: the obligation of
   each action is reduced to Knows. *)
LEMMA Moved ==
    ASSUME BookInv, TechEffect, BayEffect, RowEffect, NEW c \in Call,
           NEW pc, NEW row, NEW tech, NEW bay,
           To(c, pc, row, tech, bay), Knows(c, pc, row, tech, bay)
    PROVE  HandlerEffect
<1>2. pc \in Early => rows'[c].status = "NONE"
    BY Monotone DEF To, Knows
<1>3. HandlerInv'
    <2> SUFFICES ASSUME NEW d \in Call
                 PROVE  /\ h'[d].pc \in Early => rows'[d].status = "NONE"
                        /\ h'[d].pc \in Early \ {"idle"} => h'[d].req.body \in Body
                        /\ h'[d].pc = "reserveBay" => h'[d].tech = d /\ techLedger'[d].st # "none"
                        /\ h'[d].pc = "insert" => /\ h'[d].tech = d /\ techLedger'[d].st # "none"
                                                  /\ h'[d].bay = d /\ bayLedger'[d].st # "none"
                        /\ h'[d].pc \in Confirming =>
                             /\ h'[d].row \in Call /\ h'[d].tech = h'[d].row /\ h'[d].bay = h'[d].row
                             /\ rows'[h'[d].row].status # "NONE"
                        /\ h'[d].pc = "cancelUpdate" => h'[d].tech = h'[d].bay
        BY DEF HandlerInv, Early, Confirming
    <2>1. CASE d # c
        BY <2>1, HandlerKept DEF To
    <2>2. CASE d = c
        BY <1>2, <2>2 DEF To, Knows
    <2>3. QED
        BY <2>1, <2>2
<1>4. ASSUME NEW d \in Call
      PROVE  /\ h'[d].pc \in {"confTech", "confBay", "relBay"} => h'[d].bay # Nil
             /\ h'[d].pc \in {"confTech", "confBay", "relBay", "relTech"} => h'[d].tech # Nil
             /\ h[d].pc # "idle" => h'[d].pc # "idle" /\ h'[d].req = h[d].req
    <2>1. CASE d # c
        BY <2>1, HandlerKept DEF To
    <2>2. CASE d = c
        BY <2>2 DEF To, Knows
    <2>3. QED
        BY <2>1, <2>2
<1>5. QED
    BY <1>3, <1>4 DEF HandlerEffect, To

(* When no handler moves, nothing is left to show. *)
LEMMA HandlersStay ==
    ASSUME BookInv, TechEffect, BayEffect, RowEffect, UNCHANGED h
    PROVE  HandlerEffect
<1>1. HandlerInv'
    BY HandlerKept DEF HandlerInv, Early, Confirming
<1>2. QED
    BY <1>1 DEF HandlerEffect, BookInv, TypeOK

(* The moves the actions are made of. *)
LEMMA GotoTo ==
    ASSUME TypeOK, NEW c \in Call, NEW pc \in Pcs, Goto(c, pc)
    PROVE  To(c, pc, h[c].row, h[c].tech, h[c].bay)
    BY DEF TypeOK, Goto, To, Handler, Pcs

(* Answering the client forgets both occupation ids. *)
LEMMA DoneTo ==
    ASSUME TypeOK, NEW c \in Call, NEW reply \in Reply, Done(c, reply)
    PROVE  To(c, "done", h[c].row, Nil, Nil)
<1>1. [h[c] EXCEPT !.pc = "done", !.reply = reply, !.tech = Nil, !.bay = Nil] \in Handler
    BY DEF TypeOK, Handler
<1>2. QED
    BY <1>1 DEF TypeOK, Done, To, Handler

(* Compensation goes to the Releases with the ids that the handler holds. *)
LEMMA CompensateTo ==
    ASSUME TypeOK, NEW c \in Call, NEW reply \in Reply, Compensate(c, reply)
    PROVE  To(c, "relBay", h[c].row, h[c].tech, h[c].bay)
<1>1. [h[c] EXCEPT !.pc = "relBay", !.reply = reply] \in Handler
    BY DEF TypeOK, Handler, RpcPc
<1>2. QED
    BY <1>1 DEF TypeOK, Compensate, To, Handler

(* A request arrives: the handler starts with a valid body, or answers 400 at once. *)
LEMMA ArriveStep ==
    ASSUME BookInv, TechEffect, BayEffect, RowEffect, NEW c \in Call, Arrive(c)
    PROVE  HandlerEffect
<1>0. TypeOK /\ h[c] \in Handler /\ h[c].pc = "idle" /\ rows[c].status = "NONE"
    BY DEF BookInv, TypeOK, HandlerInv, Early, Arrive
<1>1. PICK r \in Script[c] :
         \/ h' = [h EXCEPT ![c].req = r, ![c].pc = "done", ![c].reply = "400"]
         \/ h' = [h EXCEPT ![c].req = r, ![c].pc = FirstPc(r)]
    BY DEF Arrive
<1>2. r \in Request /\ (r.kind \in {"hold", "book"} => r.body \in Body)
    BY ScriptAssumption
<1>3. /\ FirstPc(r) \in {"get", "cancelGet", "lookup", "reserveTech"}
      /\ FirstPc(r) \in {"lookup", "reserveTech"} => r.body \in Body
    BY <1>2 DEF FirstPc, Request
<1>4. PICK pc \in {"done", "get", "cancelGet", "lookup", "reserveTech"} :
         /\ h' \in [Call -> Handler]
         /\ \A d \in Call \ {c} : h'[d] = h[d]
         /\ h'[c].pc = pc /\ h'[c].req = r
         /\ pc \in {"lookup", "reserveTech"} => r.body \in Body
    <2>1. CASE h' = [h EXCEPT ![c].req = r, ![c].pc = "done", ![c].reply = "400"]
        <3>1. [h[c] EXCEPT !.req = r, !.pc = "done", !.reply = "400"] \in Handler
            BY <1>0, <1>2 DEF Handler, Reply
        <3>2. QED
            BY <1>0, <2>1, <3>1 DEF TypeOK, Handler
    <2>2. CASE h' = [h EXCEPT ![c].req = r, ![c].pc = FirstPc(r)]
        <3>1. [h[c] EXCEPT !.req = r, !.pc = FirstPc(r)] \in Handler
            BY <1>0, <1>2, <1>3 DEF Handler, RpcPc, StorePc
        <3>2. QED
            BY <1>0, <1>3, <2>2, <3>1 DEF TypeOK, Handler
    <2>3. QED
        BY <1>1, <2>1, <2>2
<1>5. pc \in Early => rows'[c].status = "NONE"
    BY <1>0, <1>4, Monotone
<1>6. ASSUME NEW d \in Call
      PROVE  /\ h'[d].pc \in Early => rows'[d].status = "NONE"
             /\ h'[d].pc \in Early \ {"idle"} => h'[d].req.body \in Body
             /\ h'[d].pc = "reserveBay" => h'[d].tech = d /\ techLedger'[d].st # "none"
             /\ h'[d].pc = "insert" => /\ h'[d].tech = d /\ techLedger'[d].st # "none"
                                       /\ h'[d].bay = d /\ bayLedger'[d].st # "none"
             /\ h'[d].pc \in Confirming =>
                  /\ h'[d].row \in Call /\ h'[d].tech = h'[d].row /\ h'[d].bay = h'[d].row
                  /\ rows'[h'[d].row].status # "NONE"
             /\ h'[d].pc = "cancelUpdate" => h'[d].tech = h'[d].bay
             /\ h'[d].pc \in {"confTech", "confBay", "relBay"} => h'[d].bay # Nil
             /\ h'[d].pc \in {"confTech", "confBay", "relBay", "relTech"} => h'[d].tech # Nil
    <2>1. CASE d # c
        BY <1>4, <2>1, HandlerKept
    <2>2. CASE d = c
        BY <1>4, <1>5, <2>2 DEF Early, Confirming
    <2>3. QED
        BY <2>1, <2>2
<1>7. HandlerInv'
    BY <1>6 DEF HandlerInv, Early, Confirming
<1>8. QED
    BY <1>0, <1>4, <1>6, <1>7 DEF HandlerEffect

(* Every step of a running handler moves it to a place where it knows      *)
(* enough.                                                                 *)
LEMMA HandlerStep ==
    ASSUME BookInv, [Next]_vars, TechEffect, BayEffect, RowEffect
    PROVE  HandlerEffect
<1> USE DEF Early, Confirming
<1>0. TypeOK /\ HandlerInv /\ RowInv
    BY DEF BookInv
<1>n. Nil \notin Call
    BY NilAssumption
<1>h. ASSUME NEW c \in Call
      PROVE  /\ h[c] \in Handler
             /\ h[c].tech \in Call \cup {Nil} /\ h[c].bay \in Call \cup {Nil}
             /\ h[c].row \in Call \cup {Nil} /\ h[c].reply \in Reply
    BY <1>0 DEF TypeOK, Handler
<1>m. ASSUME NEW c \in Call, NEW pc, NEW row, NEW tech, NEW bay,
             To(c, pc, row, tech, bay), Knows(c, pc, row, tech, bay)
      PROVE  HandlerEffect
    BY <1>m, Moved
<1>d. ASSUME NEW c \in Call, NEW reply \in Reply, Done(c, reply) PROVE HandlerEffect
    <2>1. To(c, "done", h[c].row, Nil, Nil)
        BY <1>0, <1>d, DoneTo
    <2>2. Knows(c, "done", h[c].row, Nil, Nil)
        BY DEF Knows
    <2>3. QED
        BY <1>m, <2>1, <2>2
<1>c. ASSUME NEW c \in Call, NEW reply \in Reply, Compensate(c, reply),
             h[c].tech # Nil, h[c].bay # Nil
      PROVE  HandlerEffect
    <2>1. To(c, "relBay", h[c].row, h[c].tech, h[c].bay)
        BY <1>0, <1>c, CompensateTo
    <2>2. Knows(c, "relBay", h[c].row, h[c].tech, h[c].bay)
        BY <1>c DEF Knows
    <2>3. QED
        BY <1>m, <2>1, <2>2
<1>g. ASSUME NEW c \in Call, NEW pc \in Pcs, Goto(c, pc),
             Knows(c, pc, h[c].row, h[c].tech, h[c].bay)
      PROVE  HandlerEffect
    BY <1>0, <1>g, <1>m, GotoTo
<1>f. ASSUME NEW c \in Call, h[c].pc \in Confirming
      PROVE  /\ h[c].row \in Call /\ h[c].tech = h[c].row /\ h[c].bay = h[c].row
             /\ rows'[h[c].row].status # "NONE"
             /\ h[c].tech # Nil /\ h[c].bay # Nil
    BY <1>0, <1>f, <1>n, Monotone DEF HandlerInv
<1>t. ASSUME NEW c \in Call, h[c].tech # Nil,
             h' = [h EXCEPT ![c].pc = "relTech", ![c].reply = "409"]
      PROVE  HandlerEffect
    <2>1. [h[c] EXCEPT !.pc = "relTech", !.reply = "409"] \in Handler
        BY <1>h DEF Handler, RpcPc, Reply
    <2>2. To(c, "relTech", h[c].row, h[c].tech, h[c].bay)
        BY <1>0, <1>t, <2>1 DEF TypeOK, To, Handler
    <2>3. Knows(c, "relTech", h[c].row, h[c].tech, h[c].bay)
        BY <1>t DEF Knows
    <2>4. QED
        BY <1>m, <2>2, <2>3
<1>1. ASSUME NEW c \in Call, Lookup(c) PROVE HandlerEffect
    <2>1. CASE Goto(c, "reserveTech")
        <3>1. Knows(c, "reserveTech", h[c].row, h[c].tech, h[c].bay)
            BY <1>0, <1>1 DEF Lookup, HandlerInv, Knows
        <3>2. QED
            BY <1>g, <2>1, <3>1 DEF Pcs, RpcPc
    <2>2. ASSUME NEW r \in Call,
                 h' = [h EXCEPT ![c].pc = "done", ![c].row = r, ![c].reply = "200"]
          PROVE  HandlerEffect
        <3>1. [h[c] EXCEPT !.pc = "done", !.row = r, !.reply = "200"] \in Handler
            BY <1>h DEF Handler, Reply
        <3>2. To(c, "done", r, h[c].tech, h[c].bay)
            BY <1>0, <2>2, <3>1 DEF TypeOK, To, Handler
        <3>3. Knows(c, "done", r, h[c].tech, h[c].bay)
            BY DEF Knows
        <3>4. QED
            BY <1>m, <3>2, <3>3
    <2>3. CASE Done(c, "conflict")
        BY <1>d, <2>3 DEF Reply
    <2>4. ConfirmedWith(h[c].req.key) \subseteq Call
        BY DEF ConfirmedWith
    <2>5. QED
        BY <1>1, <2>1, <2>2, <2>3, <2>4 DEF Lookup
<1>2. ASSUME NEW c \in Call, ReserveTech(c) PROVE HandlerEffect
    <2>1. CASE Done(c, "409")
        BY <1>d, <2>1 DEF Reply
    <2>2. CASE /\ \E on \in Fit[h[c].req.body], s \in {"held", "lapsed"} : Tech!Reserve(c, on, s)
               /\ h' = [h EXCEPT ![c].pc = "reserveBay", ![c].tech = c]
        <3>1. techLedger'[c].st # "none"
            BY <1>0, <2>2, TechTyped DEF TypeOK, Tech!Reserve
        <3>2. [h[c] EXCEPT !.pc = "reserveBay", !.tech = c] \in Handler
            BY <1>h DEF Handler, RpcPc
        <3>3. To(c, "reserveBay", h[c].row, c, h[c].bay)
            BY <1>0, <2>2, <3>2 DEF TypeOK, To, Handler
        <3>4. Knows(c, "reserveBay", h[c].row, c, h[c].bay)
            BY <1>0, <1>2, <3>1 DEF ReserveTech, HandlerInv, Knows
        <3>5. QED
            BY <1>m, <3>3, <3>4
    <2>3. QED
        BY <1>2, <2>1, <2>2 DEF ReserveTech
<1>3. ASSUME NEW c \in Call, ReserveBay(c) PROVE HandlerEffect
    <2>0. h[c].tech = c /\ techLedger'[c].st # "none" /\ rows[c].status = "NONE"
          /\ h[c].req.body \in Body
        BY <1>0, <1>3, Monotone DEF ReserveBay, HandlerInv
    <2>1. CASE h' = [h EXCEPT ![c].pc = "relTech", ![c].reply = "409"]
        BY <1>n, <1>t, <2>0, <2>1
    <2>2. CASE /\ \E b \in Bays, s \in {"held", "lapsed"} :
                    Bay!Reserve(c, BayClaim(b, techLedger[c].on), s)
               /\ h' = [h EXCEPT ![c].pc = "insert", ![c].bay = c]
        <3>1. bayLedger'[c].st # "none"
            BY <1>0, <2>2, BayTyped DEF TypeOK, Bay!Reserve
        <3>2. [h[c] EXCEPT !.pc = "insert", !.bay = c] \in Handler
            BY <1>h DEF Handler, StorePc
        <3>3. To(c, "insert", h[c].row, c, c)
            BY <1>0, <2>0, <2>2, <3>2 DEF TypeOK, To, Handler
        <3>4. Knows(c, "insert", h[c].row, c, c)
            BY <2>0, <3>1 DEF Knows
        <3>5. QED
            BY <1>m, <3>3, <3>4
    <2>3. QED
        BY <1>3, <2>1, <2>2 DEF ReserveBay
<1>4. ASSUME NEW c \in Call, InsertHeld(c) PROVE HandlerEffect
    <2>1. CASE h' = [h EXCEPT ![c].pc = "done", ![c].row = c, ![c].reply = "201",
                              ![c].tech = Nil, ![c].bay = Nil]
        <3>1. [h[c] EXCEPT !.pc = "done", !.row = c, !.reply = "201",
                           !.tech = Nil, !.bay = Nil] \in Handler
            BY <1>h DEF Handler, Reply
        <3>2. To(c, "done", c, Nil, Nil)
            BY <1>0, <2>1, <3>1 DEF TypeOK, To, Handler
        <3>3. Knows(c, "done", c, Nil, Nil)
            BY DEF Knows
        <3>4. QED
            BY <1>m, <3>2, <3>3
    <2>2. CASE h' = [h EXCEPT ![c].pc = "confTech", ![c].row = c]
        <3>0. h[c].tech = c /\ h[c].bay = c
            BY <1>0, <1>4 DEF InsertHeld, HandlerInv
        <3>1. [h[c] EXCEPT !.pc = "confTech", !.row = c] \in Handler
            BY <1>h DEF Handler, RpcPc
        <3>2. To(c, "confTech", c, c, c)
            BY <1>0, <2>2, <3>0, <3>1 DEF TypeOK, To, Handler
        <3>3. rows'[c].status = "HELD"
            BY <1>0, <1>4 DEF InsertHeld, Inserted, NoRow, TypeOK
        <3>4. Knows(c, "confTech", c, c, c)
            BY <1>n, <3>3 DEF Knows
        <3>5. QED
            BY <1>m, <3>2, <3>4
    <2>3. QED
        BY <1>4, <2>1, <2>2 DEF InsertHeld
<1>5. ASSUME NEW c \in Call, GetHold(c) PROVE HandlerEffect
    <2> DEFINE id == h[c].req.hold
    <2>0. id \in Call \cup {Nil} /\ (RowOf(id).status # "NONE" => id \in Call /\ RowOf(id) = rows[id])
        BY <1>h DEF Handler, Request, RowOf, NoRow
    <2>1. CASE Done(c, "404") \/ Done(c, "409")
        BY <1>d, <2>1 DEF Reply
    <2>2. CASE /\ RowOf(id).status = "CONFIRMED"
               /\ h' = [h EXCEPT
                   ![c].row = id,
                   ![c].pc = IF h[c].req.key = NoKey THEN "done" ELSE "keycheck",
                   ![c].reply = IF h[c].req.key = NoKey THEN "200" ELSE "none"]
        <3>1. PICK pc \in {"done", "keycheck"}, reply \in {"200", "none"} :
                 h' = [h EXCEPT ![c].row = id, ![c].pc = pc, ![c].reply = reply]
            BY <2>2
        <3>2. [h[c] EXCEPT !.row = id, !.pc = pc, !.reply = reply] \in Handler
            BY <1>h, <2>0, <3>1 DEF Handler, Reply, StorePc
        <3>3. To(c, pc, id, h[c].tech, h[c].bay)
            BY <1>0, <3>1, <3>2 DEF TypeOK, To, Handler
        <3>4. Knows(c, pc, id, h[c].tech, h[c].bay)
            BY <3>1 DEF Knows
        <3>5. QED
            BY <1>m, <3>3, <3>4
    <2>3. CASE /\ RowOf(id).status = "HELD"
               /\ h' = [h EXCEPT ![c].row = id, ![c].tech = RowOf(id).tech,
                                 ![c].bay = RowOf(id).bay, ![c].pc = "confTech"]
        <3>1. id \in Call /\ RowOf(id).tech = id /\ RowOf(id).bay = id /\ rows[id].status = "HELD"
            BY <1>0, <2>0, <2>3 DEF RowInv
        <3>2. [h[c] EXCEPT !.row = id, !.tech = id, !.bay = id, !.pc = "confTech"] \in Handler
            BY <1>h, <3>1 DEF Handler, RpcPc
        <3>3. To(c, "confTech", id, id, id)
            BY <1>0, <2>3, <3>1, <3>2 DEF TypeOK, To, Handler
        <3>4. rows'[id].status # "NONE"
            BY <3>1, Monotone
        <3>5. Knows(c, "confTech", id, id, id)
            BY <1>n, <3>1, <3>4 DEF Knows
        <3>6. QED
            BY <1>m, <3>3, <3>5
    <2>4. QED
        BY <1>5, <2>1, <2>2, <2>3 DEF GetHold
<1>6. ASSUME NEW c \in Call, KeyCheck(c) \/ Reget(c) \/ RelTech(c) PROVE HandlerEffect
    BY <1>d, <1>h, <1>6 DEF KeyCheck, Reget, RelTech, Reply
<1>7. ASSUME NEW c \in Call, ConfTech(c) \/ ConfBay(c) PROVE HandlerEffect
    <2>0. h[c].pc \in Confirming
        BY <1>7 DEF ConfTech, ConfBay
    <2>1. CASE Compensate(c, "409")
        BY <1>c, <1>f, <2>0, <2>1 DEF Reply
    <2>2. ASSUME NEW pc \in {"confBay", "promote"}, Goto(c, pc) PROVE HandlerEffect
        <3>1. Knows(c, pc, h[c].row, h[c].tech, h[c].bay)
            BY <1>f, <2>0 DEF Knows
        <3>2. QED
            BY <1>g, <2>2, <3>1 DEF Pcs, RpcPc, StorePc
    <2>3. QED
        BY <1>7, <2>1, <2>2 DEF ConfTech, ConfBay
<1>8. ASSUME NEW c \in Call, Promote(c) \/ Recheck(c) PROVE HandlerEffect
    <2>0. h[c].pc \in Confirming
        BY <1>8 DEF Promote, Recheck
    <2>1. ASSUME NEW reply \in {"409", "conflict"}, Compensate(c, reply) PROVE HandlerEffect
        BY <1>c, <1>f, <2>0, <2>1 DEF Reply
    <2>2. ASSUME NEW pc \in {"reget", "recheck", "recheckUniq"}, Goto(c, pc) PROVE HandlerEffect
        <3>1. Knows(c, pc, h[c].row, h[c].tech, h[c].bay)
            BY <1>f, <2>0 DEF Knows
        <3>2. QED
            BY <1>g, <2>2, <3>1 DEF Pcs, RpcPc, StorePc
    <2>3. QED
        BY <1>8, <2>1, <2>2 DEF Promote, Recheck
<1>9. ASSUME NEW c \in Call, CancelGet(c) PROVE HandlerEffect
    <2> DEFINE id == h[c].req.hold
    <2>0. id \in Call \cup {Nil} /\ (RowOf(id).status # "NONE" => id \in Call /\ RowOf(id) = rows[id])
        BY <1>h DEF Handler, Request, RowOf, NoRow
    <2>1. CASE Done(c, "404")
        BY <1>d, <2>1 DEF Reply
    <2>2. CASE /\ RowOf(id).status # "NONE"
               /\ h' = [h EXCEPT ![c].row = id, ![c].tech = RowOf(id).tech,
                                 ![c].bay = RowOf(id).bay, ![c].pc = "cancelUpdate"]
        <3>0. rows[id].status \in {"HELD", "CONFIRMED", "CANCELLED"}
            BY <1>0, <2>0, <2>2 DEF TypeOK, Row
        <3>1. PICK o \in Call \cup {Nil} : RowOf(id).tech = o /\ RowOf(id).bay = o
            BY <1>0, <2>0, <2>2, <3>0 DEF RowInv
        <3>2. [h[c] EXCEPT !.row = id, !.tech = o, !.bay = o, !.pc = "cancelUpdate"] \in Handler
            BY <1>h, <2>0, <3>1 DEF Handler, StorePc
        <3>3. To(c, "cancelUpdate", id, o, o)
            BY <1>0, <2>2, <3>1, <3>2 DEF TypeOK, To, Handler
        <3>4. Knows(c, "cancelUpdate", id, o, o)
            BY DEF Knows
        <3>5. QED
            BY <1>m, <3>3, <3>4
    <2>3. QED
        BY <1>9, <2>1, <2>2 DEF CancelGet
<1>10. ASSUME NEW c \in Call, CancelUpdate(c) PROVE HandlerEffect
    <2>1. h[c].tech = h[c].bay
        BY <1>0, <1>10 DEF CancelUpdate, HandlerInv
    <2>2. QED
        BY <1>c, <1>d, <1>10, <2>1 DEF CancelUpdate, Reply
<1>11. ASSUME NEW c \in Call, h[c].pc = "relBay", Goto(c, "relTech") PROVE HandlerEffect
    <2>1. Knows(c, "relTech", h[c].row, h[c].tech, h[c].bay)
        BY <1>0, <1>11 DEF TypeOK, Knows
    <2>2. QED
        BY <1>g, <1>11, <2>1 DEF Pcs, RpcPc
<1>12. ASSUME NEW c \in Call, RpcLost(c) PROVE HandlerEffect
    <2>1. CASE h[c].pc = "reserveTech" /\ Done(c, "409")
        BY <1>d, <2>1 DEF Reply
    <2>2. CASE h[c].pc = "reserveBay" /\ h' = [h EXCEPT ![c].pc = "relTech", ![c].reply = "409"]
        BY <1>0, <1>n, <1>t, <2>2 DEF HandlerInv
    <2>3. CASE h[c].pc \in {"confTech", "confBay"} /\ Compensate(c, "409")
        BY <1>c, <1>f, <2>3 DEF Reply
    <2>4. CASE h[c].pc = "relBay" /\ Goto(c, "relTech")
        BY <1>11, <2>4
    <2>5. CASE h[c].pc = "relTech" /\ Done(c, h[c].reply)
        BY <1>d, <1>h, <2>5
    <2>6. QED
        BY <1>12, <2>1, <2>2, <2>3, <2>4, <2>5 DEF RpcLost
<1>13. ASSUME NEW c \in Call, StoreLost(c) PROVE HandlerEffect
    <2>1. ASSUME NEW reply \in {"500", "404", "409"}, Done(c, reply) PROVE HandlerEffect
        BY <1>d, <2>1 DEF Reply
    <2>2. CASE h[c].pc = "insert" /\ Compensate(c, "409")
        BY <1>0, <1>c, <1>n, <2>2 DEF HandlerInv, Reply
    <2>3. CASE h[c].pc = "promote" /\ Goto(c, "recheck")
        <3>1. Knows(c, "recheck", h[c].row, h[c].tech, h[c].bay)
            BY <1>f, <2>3 DEF Knows
        <3>2. QED
            BY <1>g, <2>3, <3>1 DEF Pcs, StorePc
    <2>4. CASE h[c].pc \in {"recheck", "recheckUniq"} /\ Compensate(c, "409")
        BY <1>c, <1>f, <2>4 DEF Reply
    <2>5. QED
        BY <1>13, <2>1, <2>2, <2>3, <2>4 DEF StoreLost
<1>14. ASSUME NEW c \in Call, Abandon(c) PROVE HandlerEffect
    BY <1>d, <1>14 DEF Abandon, Reply
<1>15. ASSUME NEW c \in Call, Step(c) PROVE HandlerEffect
    BY <1>1, <1>2, <1>3, <1>4, <1>5, <1>6, <1>7, <1>8, <1>9, <1>10, <1>11, <1>15, ArriveStep
    DEF Step, RelBay
<1>16. CASE UNCHANGED h
    BY <1>16, HandlersStay
<1>17. QED
    BY <1>12, <1>13, <1>14, <1>15, <1>16, OtherFrame DEF Next, SweeperStep, Time, vars

-----------------------------------------------------------------------------
(* RPCs in the air, the sweeper, and the bound on faults.                  *)

MessageOk(m) ==
    /\ m \in Message
    /\ m.op = "reserve" => h[m.id].pc # "idle" /\ h[m.id].req.body \in Body
    /\ m.op = "reserve" /\ m.at = "bay" => techLedger[m.id].st # "none"
    /\ m.op = "confirm" => rows[m.id].status # "NONE"

(* An RPC in flight satisfies what LateInv asks of it. *)
LEMMA PendingOk ==
    ASSUME BookInv, NEW c \in Call, h[c].pc \in RpcPc
    PROVE  MessageOk(Pending(c))
<1>0. /\ h[c].tech \in Call \cup {Nil} /\ h[c].bay \in Call \cup {Nil}
      /\ h[c].pc \in {"confTech", "confBay", "relBay"} => h[c].bay \in Call
      /\ h[c].pc \in {"confTech", "confBay", "relBay", "relTech"} => h[c].tech \in Call
    BY DEF BookInv, TypeOK, Handler
<1>1. CASE h[c].pc = "reserveTech"
    BY <1>1 DEF Pending, MessageOk, Message, BookInv, HandlerInv, Early
<1>2. CASE h[c].pc = "reserveBay"
    BY <1>2 DEF Pending, MessageOk, Message, BookInv, HandlerInv, Early
<1>3. CASE h[c].pc = "confTech"
    BY <1>0, <1>3 DEF Pending, MessageOk, Message, BookInv, HandlerInv, Confirming
<1>4. CASE h[c].pc = "confBay"
    BY <1>0, <1>4 DEF Pending, MessageOk, Message, BookInv, HandlerInv, Confirming
<1>5. CASE h[c].pc = "relBay"
    BY <1>0, <1>5 DEF Pending, MessageOk, Message
<1>6. CASE h[c].pc = "relTech"
    BY <1>0, <1>6 DEF Pending, MessageOk, Message
<1>7. QED
    BY <1>1, <1>2, <1>3, <1>4, <1>5, <1>6 DEF RpcPc

(* The sweeper only ever has Releases in flight. *)
LEMMA SweepPendingOk ==
    ASSUME BookInv, sw.pc \in {"relBay", "relTech"}
    PROVE  MessageOk(SweepPending)
<1>1. sw.cur \in Call /\ rows[sw.cur].tech = sw.cur /\ rows[sw.cur].bay = sw.cur
    BY DEF BookInv, SweepInv
<1>2. QED
    BY <1>1 DEF SweepPending, MessageOk, Message

(* Given that, the RPCs that may still execute stay harmless. *)
LEMMA LateStep ==
    ASSUME BookInv, [Next]_vars, TechEffect, BayEffect, RowEffect, HandlerEffect
    PROVE  late' \subseteq Message /\ LateInv'
<1>1. \A m \in late : MessageOk(m)
    BY DEF BookInv, TypeOK, LateInv, MessageOk
<1>2. \A m \in late' : MessageOk(m)
    <2>1. ASSUME NEW c \in Call, RpcLost(c) \/ Abandon(c) PROVE \A m \in late' : MessageOk(m)
        BY <1>1, <2>1, PendingOk DEF RpcLost, Abandon
    <2>2. CASE Deliver
        BY <1>1, <2>2 DEF Deliver
    <2>3. CASE SweepRelBay \/ SweepRelTech \/ SweeperRestart
        BY <1>1, <2>3, SweepPendingOk DEF SweepRelBay, SweepRelTech, SweeperRestart, env
    <2>4. CASE UNCHANGED late
        BY <1>1, <2>4
    <2>5. QED
        BY <2>1, <2>2, <2>3, <2>4, HandlerFrame, OtherFrame
        DEF Next, Step, SweeperStep, Time, vars
<1>3. ASSUME NEW m, MessageOk(m)
      PROVE  /\ m.op = "reserve" => h'[m.id].pc # "idle" /\ h'[m.id].req.body \in Body
             /\ m.op = "reserve" /\ m.at = "bay" => techLedger'[m.id].st # "none"
             /\ m.op = "confirm" => rows'[m.id].status # "NONE"
    <2>1. m.id \in Call
        BY <1>3 DEF MessageOk, Message
    <2>2. QED
        BY <1>3, <2>1, Monotone DEF MessageOk, HandlerEffect
<1>4. QED
    BY <1>2, <1>3 DEF MessageOk, LateInv

(* A cancelled row stays cancelled; its ids go only when the sweeper       *)
(* clears them.                                                            *)
LEMMA CancelledStays ==
    ASSUME BookInv, RowEffect, NEW r \in Call, rows[r].status = "CANCELLED"
    PROVE  /\ rows'[r].status = "CANCELLED"
           /\ sw'.pc # "next" => RowKept(r)
<1>1. h[r].pc # "insert"
    BY DEF BookInv, HandlerInv, Early
<1>2. QED
    BY <1>1 DEF RowEffect, RowChange, RowKept

(* The sweeper keeps to cancelled rows, and ok means released. *)
LEMMA SweepStep ==
    ASSUME BookInv, [Next]_vars, TechEffect, BayEffect, RowEffect
    PROVE  sw' \in Sweeper /\ SweepInv'
<1>0. sw \in Sweeper /\ SweepInv /\ RowInv /\ Nil \notin Call
    BY NilAssumption DEF BookInv, TypeOK
<1>t. \A r \in sw.todo : rows'[r].status = "CANCELLED"
    BY <1>0, CancelledStays DEF SweepInv, Sweeper
<1>g. ASSUME NEW r \in Call
      PROVE  /\ techLedger[r].st = "gone" => techLedger'[r].st = "gone"
             /\ bayLedger[r].st = "gone" => bayLedger'[r].st = "gone"
    BY DEF TechEffect, BayEffect, Evolves
<1>i. SweeperIdle \in Sweeper
    BY DEF SweeperIdle, Sweeper
<1>1. CASE UNCHANGED sw
    <2>1. sw.pc \in {"relBay", "relTech", "clear"} =>
            /\ sw.cur \in Call /\ rows'[sw.cur].status = "CANCELLED"
            /\ RowKept(sw.cur)
        BY <1>0, <1>1, CancelledStays DEF SweepInv
    <2>2. QED
        BY <1>0, <1>1, <1>t, <1>g, <2>1 DEF SweepInv, RowKept
<1>2. CASE sw' = SweeperIdle
    BY <1>0, <1>i, <1>2 DEF SweeperIdle, SweepInv
<1>3. CASE SweepBatch
    <2>1. PICK S \in Batch(ExpiredHolds) :
             /\ rows' = Cancelled(S)
             /\ sw' = [SweeperIdle EXCEPT !.pc = "next", !.todo = S] \/ UNCHANGED sw
        BY <1>3 DEF SweepBatch
    <2>2. S \subseteq ExpiredHolds
        BY DEF Batch
    <2>3. \A r \in S : r \in Call /\ rows'[r].status = "CANCELLED"
        <3>1. \A r \in S : r \in Call /\ rows[r].status = "HELD" /\ rows[r] \in Row
            BY <2>2 DEF ExpiredHolds, BookInv, TypeOK
        <3>2. QED
            BY <2>1, <3>1 DEF Cancelled, Row
    <2>4. CASE sw' = [SweeperIdle EXCEPT !.pc = "next", !.todo = S]
        BY <2>3, <2>4 DEF SweeperIdle, Sweeper, SweepInv
    <2>5. QED
        BY <1>1, <2>1, <2>4
<1>4. CASE SweepNext
    <2>1. PICK r \in sw.todo :
             sw' = [sw EXCEPT !.todo = @ \ {r},
                              !.cur = IF rows[r].tech = Nil THEN Nil ELSE r,
                              !.pc = IF rows[r].tech = Nil THEN "next" ELSE "relBay"]
        BY <1>4 DEF SweepNext
    <2>2. r \in Call /\ rows[r].status = "CANCELLED" /\ UNCHANGED rows
        BY <1>0, <1>4 DEF SweepNext, SweepInv, Sweeper
    <2>3. sw' \in Sweeper
        BY <1>0, <2>1, <2>2 DEF Sweeper
    <2>4. CASE rows[r].tech = Nil
        <3>1. sw'.pc = "next" /\ sw'.cur = Nil /\ sw'.todo = sw.todo \ {r}
            BY <1>0, <2>1, <2>4 DEF Sweeper
        <3>2. QED
            BY <1>t, <2>3, <3>1 DEF SweepInv
    <2>5. CASE rows[r].tech # Nil
        <3>1. sw'.pc = "relBay" /\ sw'.cur = r /\ sw'.todo = sw.todo \ {r}
            BY <1>0, <2>1, <2>5 DEF Sweeper
        <3>2. rows[r].tech = r /\ rows[r].bay = r
            BY <1>0, <2>2, <2>5 DEF RowInv
        <3>3. QED
            BY <1>t, <2>2, <2>3, <3>1, <3>2 DEF SweepInv
    <2>6. QED
        BY <2>4, <2>5
<1>5. CASE SweepList
    <2>1. PICK S \in Batch(NeedRelease) : sw' = [sw EXCEPT !.pass = 2, !.todo = S]
        BY <1>5 DEF SweepList
    <2>2. \A r \in S : r \in Call /\ rows[r].status = "CANCELLED"
        BY DEF Batch, NeedRelease
    <2>3. sw' \in Sweeper /\ sw'.pc = "next" /\ sw'.cur = Nil /\ sw'.todo = S
        BY <1>0, <1>5, <2>1, <2>2 DEF SweepList, Sweeper, SweepInv
    <2>4. QED
        BY <1>5, <2>2, <2>3 DEF SweepList, SweepInv
<1>6. CASE SweepRelBay
    <2>0. /\ sw.pc = "relBay" /\ sw.cur \in Call /\ rows[sw.cur].status = "CANCELLED"
          /\ rows[sw.cur].tech = sw.cur /\ rows[sw.cur].bay = sw.cur /\ UNCHANGED rows
          /\ bayLedger[sw.cur].st # "none"
        BY <1>0, <1>6 DEF SweepRelBay, SweepInv, RowInv
    <2>1. /\ sw' \in Sweeper /\ sw'.pc = "relTech" /\ sw'.cur = sw.cur /\ sw'.todo = sw.todo
          /\ sw'.ok => Bay!Release(sw.cur)
        BY <1>0, <1>6, <2>0 DEF SweepRelBay, Sweeper
    <2>2. sw'.ok => bayLedger'[sw.cur].st = "gone"
        BY <2>0, <2>1, BayOps DEF BookInv, TypeOK
    <2>3. QED
        BY <1>t, <2>0, <2>1, <2>2 DEF SweepInv
<1>7. CASE SweepRelTech
    <2>0. /\ sw.pc = "relTech" /\ sw.cur \in Call /\ rows[sw.cur].status = "CANCELLED"
          /\ rows[sw.cur].tech = sw.cur /\ rows[sw.cur].bay = sw.cur /\ UNCHANGED rows
          /\ techLedger[sw.cur].st # "none"
        BY <1>0, <1>7 DEF SweepRelTech, SweepInv, RowInv
    <2>1. /\ sw' \in Sweeper /\ sw'.pc = "clear" /\ sw'.cur = sw.cur /\ sw'.todo = sw.todo
          /\ sw'.ok => Tech!Release(sw.cur) /\ sw.ok
        BY <1>0, <1>7, <2>0 DEF SweepRelTech, Sweeper
    <2>2. sw'.ok => techLedger'[sw.cur].st = "gone"
        BY <2>0, <2>1, TechOps DEF BookInv, TypeOK
    <2>3. sw'.ok => bayLedger'[sw.cur].st = "gone"
        BY <1>0, <1>g, <2>0, <2>1 DEF SweepInv
    <2>4. QED
        BY <1>t, <2>0, <2>1, <2>2, <2>3 DEF SweepInv
<1>8. CASE SweepClear
    <2>1. sw' \in Sweeper /\ sw'.pc = "next" /\ sw'.cur = Nil /\ sw'.todo = sw.todo
        BY <1>0, <1>8 DEF SweepClear, Sweeper
    <2>2. QED
        BY <1>t, <2>1 DEF SweepInv
<1>9. QED
    BY <1>1, <1>2, <1>3, <1>4, <1>5, <1>6, <1>7, <1>8, HandlerFrame, OtherFrame
    DEF Next, Step, SweeperStep, SweepEnd, SweeperRestart, Time, vars

(* Faults are counted. *)
LEMMA FaultStep ==
    ASSUME faults \in 0..MaxFaults, [Next]_vars
    PROVE  faults' \in 0..MaxFaults
<1> USE BoundAssumption
<1>1. ASSUME NEW c \in Call, RpcLost(c) \/ StoreLost(c) PROVE faults' \in 0..MaxFaults
    BY <1>1 DEF RpcLost, StoreLost
<1>2. CASE SweepBatch \/ SweepRelBay \/ SweepRelTech \/ SweepClear \/ SweeperRestart
    <2>1. UNCHANGED faults \/ (faults < MaxFaults /\ faults' = faults + 1)
        BY <1>2 DEF SweepBatch, SweepRelBay, SweepRelTech, SweepClear, SweeperRestart, env
    <2>2. QED
        BY <2>1
<1>3. CASE UNCHANGED faults
    BY <1>3
<1>4. QED
    BY <1>1, <1>2, <1>3, HandlerFrame, OtherFrame DEF Next, Step, SweeperStep, Time, vars

-----------------------------------------------------------------------------
(* The invariant.                                                          *)

(* Init satisfies the inductive invariant. *)
LEMMA BookInit == Init => BookInv
<1> SUFFICES ASSUME Init PROVE BookInv
    OBVIOUS
<1>1. NoRow \in Row /\ Idle \in Handler /\ SweeperIdle \in Sweeper
    <2>1. NoReq \in Request
        BY DEF NoReq, Request
    <2>2. QED
        BY <2>1 DEF NoRow, Row, NoFp, Fingerprint, Idle, Handler, Reply, SweeperIdle, Sweeper
<1>2. Tech!TypeOK /\ Bay!TypeOK
    <2>1. Tech!TypeOK
        BY TechTyped DEF Init, Tech!Init, Sts, Tech!NoClaim, NoClaim
    <2>2. Bay!TypeOK
        BY BayTyped DEF Init, Bay!Init, Sts, Bay!NoClaim, NoClaim
    <2>3. QED
        BY <2>1, <2>2
<1>3. TypeOK
    BY <1>1, <1>2, BoundAssumption DEF Init, TypeOK, Idle
<1>4. RowInv /\ HandlerInv
    BY DEF Init, RowInv, HandlerInv, NoRow, Idle, Early, Confirming
<1>5. LateInv /\ SweepInv
    BY DEF Init, LateInv, SweepInv, SweeperIdle
<1>6. ClaimInv /\ OwnerInv
    BY DEF Init, Tech!Init, Bay!Init, ClaimInv, OwnerInv
<1>7. QED
    BY <1>3, <1>4, <1>5, <1>6 DEF BookInv

(* The inductive step: the effect lemmas, one for each variable, together. *)
LEMMA BookInductive == BookInv /\ [Next]_vars => BookInv'
<1> SUFFICES ASSUME BookInv, [Next]_vars PROVE BookInv'
    OBVIOUS
<1>1. TechEffect /\ BayEffect /\ RowEffect
    BY TechStep, BayStep, RowStep
<1>2. HandlerEffect
    BY <1>1, HandlerStep
<1>3. RowInv' /\ ClaimInv' /\ OwnerInv'
    BY <1>1, RowInvStep
<1>4. late' \subseteq Message /\ LateInv'
    BY <1>1, <1>2, LateStep
<1>5. sw' \in Sweeper /\ SweepInv'
    BY <1>1, SweepStep
<1>6. faults' \in 0..MaxFaults
    BY FaultStep DEF BookInv, TypeOK
<1>7. TypeOK'
    BY <1>1, <1>2, <1>4, <1>5, <1>6 DEF TypeOK, TechEffect, BayEffect, RowEffect, HandlerEffect
<1>8. QED
    BY <1>2, <1>3, <1>4, <1>5, <1>7 DEF BookInv, HandlerEffect

(* Hence BookInv holds in every reachable state. *)
LEMMA BookInvariant == Spec => []BookInv
    BY BookInit, BookInductive, PTL DEF Spec

(* Type correctness of Booking, and no Confirm or Release without an id,   *)
(* for any number of calls and faults.                                     *)
THEOREM BookingTypeCorrect == Spec => []TypeOK
    BY BookInvariant, PTL DEF BookInv

(* Whatever is lost, late, in doubt or restarted, an appointment names     *)
(* every confirmed occupation, so the sweeper or a cancel can release it.  *)
THEOREM BookingNoOrphan == Spec => []NoOrphanConfirmed
<1>1. BookInv => NoOrphanConfirmed
    BY DEF BookInv, OwnerInv, NoOrphanConfirmed
<1>2. QED
    BY <1>1, BookInvariant, PTL

(* The sweeper never works on an appointment that is held or confirmed,    *)
(* however it interleaves with confirmers.                                 *)
THEOREM BookingSweeperSafe == Spec => []SweeperOnlyTouchesCancelled
<1>1. BookInv => SweeperOnlyTouchesCancelled
    BY DEF BookInv, TypeOK, Sweeper, SweepInv, SweeperOnlyTouchesCancelled
<1>2. QED
    BY <1>1, BookInvariant, PTL

(* No interleaving and no fault revives a cancelled appointment or turns a *)
(* confirmed one back into a hold.                                         *)
THEOREM BookingCancelledIsFinal == Spec => CancelledIsFinal
<1>1. BookInv /\ [Next]_vars =>
        [\A r \in Call :
            /\ rows[r].status = "CANCELLED" => rows'[r].status = "CANCELLED"
            /\ rows[r].status = "CONFIRMED" => rows'[r].status # "HELD"]_vars
    <2> SUFFICES ASSUME BookInv, [Next]_vars, NEW r \in Call
                 PROVE  /\ rows[r].status = "CANCELLED" => rows'[r].status = "CANCELLED"
                        /\ rows[r].status = "CONFIRMED" => rows'[r].status # "HELD"
        OBVIOUS
    <2>1. RowChange(r)
        BY RowStep DEF RowEffect
    <2>2. h[r].pc = "insert" => rows[r].status = "NONE"
        BY DEF BookInv, HandlerInv, Early
    <2>3. QED
        BY <2>1, <2>2 DEF RowChange
<1>2. QED
    BY <1>1, BookInvariant, PTL DEF Spec, CancelledIsFinal

=============================================================================
