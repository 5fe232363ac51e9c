------------------------------- MODULE Claims -------------------------------
(***************************************************************************)
(* Claims on a resource (a technician or a service bay) over a half-open   *)
(* interval of time: the rows of tech_occupation and bay_occupation, with  *)
(* the CHECK (end_at > start_at) of both tables as an assumption.          *)
(***************************************************************************)
EXTENDS Integers

CONSTANT Claim  \* the claims that can be made, records [res, from, to]

ASSUME ClaimAssumption ==
    \A c \in Claim : c.from \in Int /\ c.to \in Int /\ c.from < c.to

(* The columns of an occupation nobody has inserted. *)
NoClaim == [res |-> "none", from |-> 0, to |-> 0]

(* tstzrange(a, '[)') && tstzrange(b, '[)') on the same resource. *)
Overlap(a, b) == a.res = b.res /\ a.from < b.to /\ b.from < a.to

=============================================================================
