------------------------------ MODULE MCIntake ------------------------------
(***************************************************************************)
(* Instances of Intake: three days, Monday to Wednesday, with zones whose  *)
(* clock changes in the night to Tuesday.                                  *)
(***************************************************************************)
EXTENDS Intake

Hour == 60 * Minute
Fixed(offset) == [at |-> 0, before |-> offset, after |-> offset]

(* rio's clock jumps at its midnight, which therefore does not exist. *)
MCZone ==
    [london |-> [at |-> Day + Hour, before |-> 0, after |-> Hour],
     berlin |-> [at |-> Day + Hour, before |-> 2 * Hour, after |-> Hour],
     rio |-> [at |-> Day + 3 * Hour, before |-> -3 * Hour, after |-> -2 * Hour],
     tokyo |-> Fixed(9 * Hour)]

MCDealership ==
    [d1 |-> "london", d2 |-> "berlin", d3 |-> "rio", d4 |-> "tokyo",
     d5 |-> "atlantis", d6 |-> "berlin", d7 |-> "london"]

H(d, w, open, close) ==
    [dealer |-> d, weekday |-> w, open |-> open, close |-> close]

(* d1, d4 and d6 keep office hours, d2 and d3 open early and close late;   *)
(* only d2 opens on Wednesday, d5 never.  d7 closes within an hour of      *)
(* midnight on the day that has 23 hours, d6 is open on one of 25.         *)
MCOpeningHours ==
    {H("d1", w, 480, 1020) : w \in 1..2} \cup {H("d2", w, 60, 1350) : w \in 1..3}
        \cup {H("d3", w, 90, 1320) : w \in 1..2}
        \cup {H("d4", w, 480, 1020) : w \in 1..2}
        \cup {H("d6", 2, 480, 1020), H("d7", 2, 480, 1410)}

(* d4 alone, open until midnight. *)
MidnightHours == {H("d4", w, 480, 1440) : w \in 1..2}

Shift(from, to) == [w \in 1..3 |-> [start |-> from, end |-> to]]
Tech(d, tz, shift, absence) ==
    [dealer |-> d, active |-> TRUE, tz |-> tz, shift |-> shift,
     skill |-> [oil |-> 30, engine |-> 480], absence |-> absence]

MCTechnician ==
    [t1 |-> Tech("d1", "london", Shift(540, 1020), {}),
     t2 |-> Tech("d2", "berlin", Shift(0, 1440),
                 {[from |-> 10 * Hour, to |-> 12 * Hour]}),
     t3 |-> Tech("d3", "rio", Shift(60, 1380), {}),
     t4 |-> Tech("d4", "tokyo", Shift(480, 960), {}),
     t5 |-> [Tech("d1", "tokyo", Shift(0, 1440), {}) EXCEPT
               !.skill = [oil |-> 60]],
     t6 |-> [Tech("d4", "tokyo", Shift(0, 1440), {}) EXCEPT !.active = FALSE],
     t7 |-> Tech("d6", "berlin", Shift(0, 1440), {}),
     t8 |-> Tech("d7", "london", Shift(480, 1380), {})]

(* A few starts that are not on a full minute : the SQL drops seconds. *)
MCStart == {1800 * k : k \in 1..143} \cup {1800 * k + 20 : k \in 30..40}

R(d, s, c, v, t) ==
    [dealer |-> d, svc |-> s, customer |-> c, vehicle |-> v, start |-> t]

MCRequest ==
    {R(d, s, "ada", "v1", t) : d \in DOMAIN MCDealership,
                               s \in {"oil", "engine"}, t \in MCStart}
        \cup {R(d, s, c, v, 9 * Hour) : d \in {"d1", "d8"}, s \in {"oil", "paint"},
                                        c \in {"ada", "ben", "eve"},
                                        v \in {"v1", "v2"}}

MidnightRequest ==
    {R("d4", s, "ada", "v1", 1800 * k) : s \in {"oil", "engine"}, k \in 1..47}

MCServiceType == {[id |-> "oil", minutes |-> 20], [id |-> "engine", minutes |-> 600]}
MCVehicle == {[id |-> "v1", customer |-> "ada"], [id |-> "v2", customer |-> "ben"]}

=============================================================================
