---------------------------- MODULE LedgerProofs ----------------------------
(***************************************************************************)
(* What the abstract allocator guarantees for every set of ids and claims. *)
(***************************************************************************)
EXTENDS Ledger, TLAPS

(* The inductive invariant: a live entry has a claim, and claims are apart. *)
LedgerInv == TypeOK /\ LiveHasClaim /\ NoOverlap

(* A step keeps the ledger typed: the shape the other cases start from.    *)
LEMMA LedgerTyping == TypeOK /\ [Next]_ledger => TypeOK'
<1> SUFFICES ASSUME TypeOK, [Next]_ledger PROVE TypeOK'
    OBVIOUS
<1> USE DEF TypeOK, Entry, State, LiveState
<1>1. ASSUME NEW i \in OccId, NEW c \in Claim, NEW s \in {"held", "lapsed"},
             Reserve(i, c, s)
      PROVE  TypeOK'
    BY <1>1 DEF Reserve
<1>2. ASSUME NEW i \in OccId, Confirm(i) PROVE TypeOK'
    BY <1>2 DEF Confirm
<1>3. ASSUME NEW i \in OccId, Release(i) PROVE TypeOK'
    BY <1>3 DEF Release
<1>4. ASSUME NEW S \in SUBSET OccId, Lapse(S) PROVE TypeOK'
    BY <1>4 DEF Lapse
<1>5. CASE Reap
    BY <1>5 DEF Reap
<1>6. CASE UNCHANGED ledger
    BY <1>6
<1>7. QED
    BY <1>1, <1>2, <1>3, <1>4, <1>5, <1>6 DEF Next

(* Only Reserve makes a claim live, and it does so on a free one.          *)
LEMMA OnlyReserveClaims ==
    ASSUME TypeOK, NEW i \in OccId,
           \/ \E j \in OccId : Confirm(j) \/ Release(j)
           \/ \E S \in SUBSET OccId : Lapse(S)
           \/ Reap
           \/ UNCHANGED ledger
    PROVE  /\ ledger'[i].on = ledger[i].on
           /\ Live(ledger'[i]) => Live(ledger[i])
<1> USE DEF TypeOK, Entry, State, LiveState, Live
<1>1. ASSUME NEW j \in OccId, Confirm(j)
      PROVE  ledger'[i].on = ledger[i].on /\ (Live(ledger'[i]) => Live(ledger[i]))
    BY <1>1 DEF Confirm, CanConfirm
<1>2. ASSUME NEW j \in OccId, Release(j)
      PROVE  ledger'[i].on = ledger[i].on /\ (Live(ledger'[i]) => Live(ledger[i]))
    BY <1>2 DEF Release
<1>3. ASSUME NEW S \in SUBSET OccId, Lapse(S)
      PROVE  ledger'[i].on = ledger[i].on /\ (Live(ledger'[i]) => Live(ledger[i]))
    BY <1>3 DEF Lapse
<1>4. CASE Reap
    BY <1>4 DEF Reap
<1>5. QED
    BY <1>1, <1>2, <1>3, <1>4

(* LedgerInv is inductive.                                                 *)
LEMMA LedgerStep == LedgerInv /\ [Next]_ledger => LedgerInv'
<1> SUFFICES ASSUME LedgerInv, [Next]_ledger PROVE LedgerInv'
    OBVIOUS
<1>t. TypeOK /\ TypeOK'
    BY LedgerTyping DEF LedgerInv
<1>1. ASSUME NEW i \in OccId, NEW c \in Claim, NEW s \in {"held", "lapsed"},
             Reserve(i, c, s)
      PROVE  LiveHasClaim' /\ NoOverlap'
    <2>1. \A j \in OccId : ledger'[j] = IF j = i THEN [st |-> s, on |-> c]
                                                 ELSE ledger[j]
        BY <1>t, <1>1 DEF Reserve, TypeOK
    <2>2. \A j \in OccId : Live(ledger[j]) => ~Overlap(ledger[j].on, c)
        BY <1>1 DEF Reserve, Free
    <2>3. LiveHasClaim'
        BY <2>1 DEF LedgerInv, LiveHasClaim
    <2>4. NoOverlap'
        BY <2>1, <2>2 DEF LedgerInv, NoOverlap, Overlap
    <2>5. QED
        BY <2>3, <2>4
<1>2. ASSUME \/ \E j \in OccId : Confirm(j) \/ Release(j)
             \/ \E S \in SUBSET OccId : Lapse(S)
             \/ Reap
             \/ UNCHANGED ledger
      PROVE  LiveHasClaim' /\ NoOverlap'
    <2>1. \A i \in OccId : /\ ledger'[i].on = ledger[i].on
                           /\ Live(ledger'[i]) => Live(ledger[i])
        BY <1>t, <1>2, OnlyReserveClaims
    <2>2. QED
        BY <2>1 DEF LedgerInv, LiveHasClaim, NoOverlap
<1>3. QED
    BY <1>t, <1>1, <1>2 DEF Next, LedgerInv

(* The abstract allocator never lets two live claims of one technician or  *)
(* bay overlap, for any number of occupations: what the GiST exclusion     *)
(* constraint promises to Booking.                                         *)
THEOREM LedgerNoOverlap == Spec => [](TypeOK /\ LiveHasClaim /\ NoOverlap)
<1>1. Init => LedgerInv
    BY DEF Init, LedgerInv, TypeOK, Entry, State, LiveState, LiveHasClaim,
           NoOverlap, Live
<1>2. QED
    BY <1>1, LedgerStep, PTL DEF Spec, LedgerInv

=============================================================================
