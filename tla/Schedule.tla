------------------------------ MODULE Schedule ------------------------------
(***************************************************************************)
(* The calendar arithmetic of the write path: opening hours as Booking     *)
(* applies them (saga.go) and the roster predicate of the technician claim *)
(* SQL (technician/reserve.go).  Instants are seconds; day 0 is a Monday.  *)
(***************************************************************************)
EXTENDS Integers

Minute == 60
Day == 1440 * Minute

(* A zone is its UTC offset before and after its next clock change; a zone *)
(* without one has before = after.                                         *)
Offset(z, t) == IF t < z.at THEN z.before ELSE z.after

(* start.In(loc), AT TIME ZONE: the wall clock at an instant. *)
Local(z, t) == t + Offset(z, t)
DateOf(wall) == wall \div Day
Weekday(wall) == (DateOf(wall) % 7) + 1
MinuteOfDay(wall) == (wall % Day) \div Minute

(***************************************************************************)
(* time.Date: the instant of a wall clock reading.  It takes the offset    *)
(* that holds at the reading taken as UTC and corrects it once.            *)
(***************************************************************************)
GoDate(z, wall) ==
    LET o == Offset(z, wall)
        utc == wall - o
    IN IF (utc < z.at) = (wall < z.at) \/ o = 0 THEN utc
                                                ELSE wall - Offset(z, utc)

StartOfDay(z, t) == GoDate(z, DateOf(Local(z, t)) * Day)

(* Hours is a function from the weekdays on which the shop opens.  The     *)
(* minutes are added to the instant of local midnight.                     *)
WithinHours(z, hours, start) ==
    LET day == Weekday(Local(z, start)) IN
    /\ day \in DOMAIN hours
    /\ start >= StartOfDay(z, start) + hours[day].open * Minute

(* Only defined on a weekday of hours. *)
LatestEndUtc(z, hours, start) ==
    DateOf(start) * Day + hours[Weekday(Local(z, start))].close * Minute
LatestEnd(z, hours, start) ==
    StartOfDay(z, start) + hours[Weekday(Local(z, start))].close * Minute

-----------------------------------------------------------------------------

EndOf(tech, svc, start) == start + tech.skill[svc] * Minute

(* technician_shift: the minutes of the wall clock at both ends. *)
ShiftCoversStartOnly(z, shift, start, end) ==
    LET day == Weekday(Local(z, start)) IN
    day \in DOMAIN shift /\ shift[day].start <= MinuteOfDay(Local(z, start))
ShiftCovers(z, shift, start, end) ==
    LET day == Weekday(Local(z, start)) IN
    /\ day \in DOMAIN shift
    /\ shift[day].start <= MinuteOfDay(Local(z, start))
    /\ shift[day].end >= MinuteOfDay(Local(z, end))

(* technician_absence: tstzrange && tstzrange, both '[)'. *)
Absent(tech, start, end) == \E a \in tech.absence : a.from < end /\ start < a.to

(* Every predicate of the claim SQL but occupancy.  zone is the meaning of *)
(* technician.timezone.                                                    *)
Fits(tech, zone, dealer, svc, start, latest) ==
    /\ tech.dealer = dealer
    /\ tech.active
    /\ svc \in DOMAIN tech.skill
    /\ LET end == EndOf(tech, svc, start) IN
         /\ end <= latest
         /\ ShiftCovers(zone, tech.shift, start, end)
         /\ ~Absent(tech, start, end)

=============================================================================
