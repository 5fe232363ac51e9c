------------------------------- MODULE Intake -------------------------------
(***************************************************************************)
(* What happens to a booking request before anything is held: the Catalog  *)
(* snapshot (catalog_client.go, three GETs answered by catalog.go from its *)
(* tables), the opening hours, and the choice of a technician who fits.    *)
(* Module Booking starts where this one ends: its Arrive is steps 1 and 2, *)
(* its Fit is the set Candidates.                                          *)
(***************************************************************************)
EXTENDS Schedule, FiniteSets

CONSTANTS
    Zone,          \* IANA name -> zone, for the names LoadLocation knows
    Dealership,    \* dealership: id -> timezone
    OpeningHours,  \* opening_hours: rows [dealer, weekday, open, close]
    ServiceType,   \* service_type: rows [id, minutes]
    Customer,      \* customer: ids
    Vehicle,       \* vehicle: rows [id, customer]
    Technician,    \* technician, _skill, _shift, _absence: id -> record
    Request,       \* [dealer, svc, customer, vehicle, start]
    Clock          \* bound: the readings of the clock

NoTech == "none"

(* The CHECK constraints of the columns in which a window opens and closes. *)
FirstMinute == 0..1439
LastMinute == 1..1440

(* The CHECK constraints of the migrations, and one row per key. *)
ASSUME CatalogAssumption ==
    /\ \A h \in OpeningHours :
         /\ h.dealer \in DOMAIN Dealership /\ h.weekday \in 1..7
         /\ h.open \in FirstMinute /\ h.close \in LastMinute
    /\ \A h, i \in OpeningHours :
         h.dealer = i.dealer /\ h.weekday = i.weekday => h = i
    /\ \A v \in Vehicle : v.customer \in Customer
(* No zone has ever moved its clock by more than a day at once. *)
ASSUME ZoneAssumption ==
    \A n \in DOMAIN Zone : /\ Zone[n].at \in Int /\ Zone[n].before \in Int
                           /\ Zone[n].after \in Int
                           /\ Zone[n].after - Zone[n].before <= Day
                           /\ Zone[n].before - Zone[n].after <= Day
ASSUME RosterAssumption ==
    \A id \in DOMAIN Technician : LET t == Technician[id] IN
        /\ id # NoTech /\ t.tz \in DOMAIN Zone /\ t.active \in BOOLEAN
        /\ \A s \in DOMAIN t.skill : t.skill[s] \in Nat \ {0}
        /\ DOMAIN t.shift \subseteq 1..7
        /\ \A d \in DOMAIN t.shift : /\ t.shift[d].start \in FirstMinute
                                     /\ t.shift[d].end \in LastMinute
        /\ \A a \in t.absence : a.from \in Int /\ a.to \in Int
ASSUME TimeAssumption ==
    Clock \subseteq Int /\ \A r \in Request : r.start \in Int

VARIABLES
    pc,     \* the GET or check the handler is about to make
    req,    \* the request
    snap,   \* Snapshot: timezone and opening hours by weekday
    job,    \* the claim: technician, start and end
    reply,
    now

vars == <<pc, req, snap, job, reply, now>>

NoSnap == [tz |-> "none", hours |-> <<>>]
NoJob == [tech |-> NoTech, from |-> 0, to |-> 0]

Init ==
    /\ pc = "dealerships"
    /\ req \in Request
    /\ snap = NoSnap /\ job = NoJob /\ reply = "none"
    /\ now \in Clock

Answer(r) == pc' = "done" /\ reply' = r /\ UNCHANGED <<req, snap, job, now>>
Proceed(to) == pc' = to /\ UNCHANGED <<req, job, reply, now>>

(* A GET answers with another status, times out, or its body is cut short  *)
(* and does not parse: errCatalogDown.                                     *)
CatalogDown ==
    /\ pc \in {"dealerships", "serviceTypes", "vehicles"}
    /\ Answer("400")

(* listDealerships: the LEFT JOIN, grouped by dealership. *)
ListDealerships ==
    {[id |-> d, tz |-> Dealership[d],
      hours |-> {h \in OpeningHours : h.dealer = d}] : d \in DOMAIN Dealership}

(* The opening hours of the response by weekday. *)
ByWeekdayFromZero(hours) ==
    [w \in {h.weekday - 1 : h \in hours} |->
        CHOOSE h \in hours : h.weekday - 1 = w]
ByWeekday(hours) ==
    [w \in {h.weekday : h \in hours} |-> CHOOSE h \in hours : h.weekday = w]

GetDealerships ==
    /\ pc = "dealerships"
    /\ \/ \E d \in ListDealerships :
            /\ d.id = req.dealer
            /\ snap' = [tz |-> d.tz, hours |-> ByWeekday(d.hours)]
            /\ Proceed("serviceTypes")
       \/ (\A d \in ListDealerships : d.id # req.dealer) /\ Answer("400")

ListServiceTypes == {s.id : s \in ServiceType}

(* Only the existence of the service type: its duration is not used. *)
GetServiceTypes ==
    /\ pc = "serviceTypes"
    /\ \/ req.svc \in ListServiceTypes /\ Proceed("vehicles") /\ UNCHANGED snap
       \/ req.svc \notin ListServiceTypes /\ Answer("400")

(* The status, and the vehicles of the customer if it is 200. *)
ListCustomerVehiclesAll(c) ==
    [status |-> IF c \in Customer THEN 200 ELSE 404,
     body |-> {v.id : v \in Vehicle}]
ListCustomerVehicles(c) ==
    [status |-> IF c \in Customer THEN 200 ELSE 404,
     body |-> {v.id : v \in {w \in Vehicle : w.customer = c}}]

GetVehicles ==
    /\ pc = "vehicles"
    /\ LET resp == ListCustomerVehicles(req.customer)
           belongs == resp.status = 200 /\ req.vehicle \in resp.body
       IN \/ belongs /\ Proceed("hours") /\ UNCHANGED snap
          \/ ~belongs /\ Answer("400")

(* Step 2: strictly in the future, and not before opening.  A time zone    *)
(* that LoadLocation does not know is outside the hours.                   *)
CheckHours ==
    /\ pc = "hours"
    /\ LET ok == /\ req.start > now
                 /\ snap.tz \in DOMAIN Zone
                 /\ WithinHours(Zone[snap.tz], snap.hours, req.start)
       IN \/ ok /\ Proceed("reserve") /\ UNCHANGED snap
          \/ ~ok /\ Answer("400")

Candidates ==
    LET latest == LatestEnd(Zone[snap.tz], snap.hours, req.start) IN
    {t \in DOMAIN Technician :
        Fits(Technician[t], Zone[Technician[t].tz], req.dealer, req.svc,
             req.start, latest)}

(* reserveSaga, step 4, on an idle roster.  Technician checks the clock    *)
(* again; whatever its error, Booking answers 409.                         *)
Reserve ==
    /\ pc = "reserve"
    /\ \/ \E t \in Candidates :
            /\ req.start > now
            /\ job' = [tech |-> t, from |-> req.start,
                       to |-> EndOf(Technician[t], req.svc, req.start)]
            /\ pc' = "done" /\ reply' = "reserved"
            /\ UNCHANGED <<req, snap, now>>
       \/ (req.start <= now \/ Candidates = {}) /\ Answer("409")

Tick ==
    /\ \E t \in Clock : t > now /\ now' = t
    /\ UNCHANGED <<pc, req, snap, job, reply>>

Next ==
    \/ GetDealerships \/ GetServiceTypes \/ GetVehicles \/ CatalogDown
    \/ CheckHours \/ Reserve \/ Tick

Spec == Init /\ [][Next]_vars

-----------------------------------------------------------------------------

(* Every variable stays in its type. *)
TypeOK ==
    /\ pc \in {"dealerships", "serviceTypes", "vehicles", "hours", "reserve", "done"}
    /\ req \in Request
    /\ snap.tz \in {Dealership[d] : d \in DOMAIN Dealership} \cup {"none"}
    /\ DOMAIN snap.hours \subseteq 1..7
    /\ job.tech \in DOMAIN Technician \cup {NoTech}
    /\ job.from \in Int /\ job.to \in Int
    /\ reply \in {"none", "400", "409", "reserved"}
    /\ now \in Clock

Reserved == reply = "reserved"
Worker == Technician[job.tech]

(***************************************************************************)
(* Fail closed: a technician is claimed only for a vehicle of that         *)
(* customer, an existing service type that the technician can do, at the   *)
(* technician's own dealership, and outside absences, however the GETs     *)
(* fail.                                                                   *)
(***************************************************************************)
OnlyValidIsReserved ==
    Reserved =>
        /\ \E s \in ServiceType : s.id = req.svc
        /\ \E v \in Vehicle : v.id = req.vehicle /\ v.customer = req.customer
        /\ Worker.dealer = req.dealer /\ Worker.active
        /\ job.to - job.from = Worker.skill[req.svc] * Minute
        /\ \A a \in Worker.absence : job.to <= a.from \/ a.to <= job.from

(***************************************************************************)
(* By the clock on the wall, a job lies between opening and closing time   *)
(* of one day on which the shop is open.  saga.go adds minutes to the      *)
(* instant of midnight, so after a clock change both times are off by the  *)
(* change for the rest of that day: the job may start earlier by the hour  *)
(* that is gained, or end later by the hour that is lost.  At no other     *)
(* time, and in no other direction, is there a tolerance.                  *)
(***************************************************************************)
ChangeDates(z) == {DateOf(z.at + z.before), DateOf(z.at + z.after)}
Shifted(z, date, t) ==
    IF date \in ChangeDates(z) /\ t >= z.at THEN z.after - z.before ELSE 0

JobInOpeningHours ==
    Reserved =>
        LET z == Zone[Dealership[req.dealer]]
            date == DateOf(Local(z, job.from))
        IN \E h \in OpeningHours :
             /\ h.dealer = req.dealer /\ h.weekday = Weekday(Local(z, job.from))
             /\ \E e \in {0, Shifted(z, date, job.from)} :
                  Local(z, job.from) >= date * Day + h.open * Minute + e
             /\ \E e \in {0, Shifted(z, date, job.to - 1)} :
                  Local(z, job.to - 1) < date * Day + h.close * Minute + e

(***************************************************************************)
(* "TechnicianShift: one window per weekday; must cover the whole          *)
(* interval" (SYSTEM_DESIGN.md), by the clock on the wall of the           *)
(* technician, to the minute (the SQL ignores seconds).                    *)
(***************************************************************************)
ShiftCoversJob ==
    Reserved =>
        LET z == Zone[Worker.tz]
            date == DateOf(Local(z, job.from))
            day == Weekday(Local(z, job.from))
        IN /\ day \in DOMAIN Worker.shift
           /\ Local(z, job.from) >= date * Day + Worker.shift[day].start * Minute
           /\ Local(z, job.to) < date * Day + (Worker.shift[day].end + 1) * Minute

(***************************************************************************)
(* It does where the shop and the technician share a zone and the shop     *)
(* closes before midnight, by as much as the day may be shorter than 24    *)
(* hours.  The claim   *)
(* SQL compares minutes of the day and does not see midnight: it is the    *)
(* ceiling latest_end, which Booking computes, that keeps the job within   *)
(* the day.                                                                *)
(***************************************************************************)
Lost(z, date) ==
    IF date \in ChangeDates(z) /\ z.after > z.before THEN z.after - z.before ELSE 0

ClosesBeforeMidnight ==
    LET z == Zone[Worker.tz]
        wall == Local(z, job.from)
    IN \A h \in OpeningHours :
         h.dealer = req.dealer /\ h.weekday = Weekday(wall)
         => h.close * Minute + Lost(z, DateOf(wall)) < Day

CeilingKeepsShift ==
    /\ Reserved
    /\ Worker.tz = Dealership[req.dealer] /\ ClosesBeforeMidnight
    => ShiftCoversJob

=============================================================================
