---------------------------- MODULE MCAllocator -----------------------------
(***************************************************************************)
(* Instances of Allocator: two technicians, overlapping and back-to-back   *)
(* requests, holds that expire while calls are in flight.                  *)
(***************************************************************************)
EXTENDS Allocator, TLC

C(r, a, b) == [res |-> r, from |-> a, to |-> b]

(* t1 needs two units of time for the job, t2 one: on t1 the two requests  *)
(* overlap, on t2 they are back to back.                                   *)
MCClaim == {C("t1", 2, 4), C("t2", 2, 3), C("t1", 3, 5), C("t2", 3, 4)}
MCRequest == {[start |-> 2, fit |-> {C("t1", 2, 4), C("t2", 2, 3)}],
              [start |-> 3, fit |-> {C("t1", 3, 5), C("t2", 3, 4)}]}

(* And requests that only t1 can do, so that calls exhaust their attempts. *)
MCScarceRequest == {[start |-> 2, fit |-> {C("t1", 2, 4)}],
                    [start |-> 3, fit |-> {C("t1", 3, 5)}]}
MCMixedRequest == MCRequest \cup MCScarceRequest

MCSymmetry == Permutations(Call)

=============================================================================
