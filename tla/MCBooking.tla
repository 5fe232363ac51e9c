----------------------------- MODULE MCBooking ------------------------------
(***************************************************************************)
(* Instances of Booking: one technician, one bay, and calls that compete   *)
(* for them.  A script says which request each call carries.               *)
(***************************************************************************)
EXTENDS Booking

CONSTANTS c1, c2, c3, c4, b1, b2, k1

T(r, from, to) == [res |-> r, from |-> from, to |-> to]

MCBody == {b1, b2}

(* One technician and one bay; the two bodies ask for overlapping times. *)
ScarceFit == [b \in MCBody |-> IF b = b1 THEN {T("t1", 1, 3)} ELSE {T("t1", 2, 4)}]
ScarceBays == {"y1"}

(* One technician and one bay; the two bodies are back to back. *)
AdjacentFit == [b \in MCBody |-> IF b = b1 THEN {T("t1", 1, 3)} ELSE {T("t1", 3, 5)}]
AdjacentBays == {"y1"}

(* Room for two bookings of one body at once. *)
RoomyFit == [b \in MCBody |-> IF b = b1 THEN {T("t1", 1, 3), T("t2", 1, 3)}
                                        ELSE {}]
RoomyBays == {"y1", "y2"}

MCClaim == {T(r, from, to) : r \in {"t1", "t2", "y1", "y2"},
                             from \in 1..3, to \in 3..5} \ 
           {T(r, 3, 3) : r \in {"t1", "t2", "y1", "y2"}}

Hold(b) == [kind |-> "hold", body |-> b, hold |-> Nil, key |-> NoKey]
Book(b, k) == [kind |-> "book", body |-> b, hold |-> Nil, key |-> k]
PromoteOf(c, k) == [kind |-> "promote", body |-> NoBody, hold |-> c, key |-> k]
CancelOf(c) == [kind |-> "cancel", body |-> NoBody, hold |-> c, key |-> NoKey]

(* A hold, a confirmer of it, a second confirmer or a cancel (also of an   *)
(* unknown appointment), and a cancel or a rival for the technician.       *)
RaceScript ==
    [c \in Call |->
        CASE c = c1 -> {Hold(b1)}
          [] c = c2 -> {PromoteOf(c1, NoKey)}
          [] c = c3 -> {PromoteOf(c1, NoKey), CancelOf(c1),
                        PromoteOf(Nil, NoKey), CancelOf(Nil)}
          [] OTHER -> {CancelOf(c1), Book(b2, NoKey)}]

(* A hold, two confirmers of it, and a rival for the technician. *)
DuplicateScript ==
    [c \in Call |->
        CASE c = c1 -> {Hold(b1)}
          [] c \in {c2, c3} -> {PromoteOf(c1, NoKey)}
          [] OTHER -> {Book(b2, NoKey)}]

(* A hold, a confirmer with a key and one without, or a cancel. *)
FaultScript ==
    [c \in Call |->
        CASE c = c1 -> {Hold(b1)}
          [] c = c2 -> {PromoteOf(c1, k1)}
          [] OTHER -> {PromoteOf(c1, NoKey), CancelOf(c1)}]

(* A hold or booking and one call about it. *)
PairScript ==
    [c \in Call |->
        CASE c = c1 -> {Hold(b1), Book(b1, NoKey)}
          [] OTHER -> {PromoteOf(c1, NoKey), CancelOf(c1)}]

(* One key for two bookings, for a booking and the confirm of a hold, or   *)
(* for two confirms of one hold; the first booking may be cancelled.       *)
KeyScript ==
    [c \in Call |->
        CASE c = c1 -> {Book(b1, k1), PromoteOf(c2, k1)}
          [] c = c2 -> {Book(b1, k1), Book(b2, k1), Book(b2, NoKey), Hold(b2)}
          [] OTHER -> {PromoteOf(c2, k1), CancelOf(c1)}]

(* A retry while the first attempt is in flight. *)
RetryScript == [c \in Call |-> {Book(b1, k1)}]

(* The key of another booking is used for a hold that is being confirmed   *)
(* without it.                                                             *)
ReuseScript ==
    [c \in Call |->
        CASE c = c1 -> {Hold(b1)}
          [] c = c2 -> {Book(b2, k1)}
          [] c = c3 -> {PromoteOf(c1, k1)}
          [] OTHER -> {PromoteOf(c1, NoKey)}]

=============================================================================
