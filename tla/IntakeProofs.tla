---------------------------- MODULE IntakeProofs -----------------------------
(***************************************************************************)
(* Intake, for any catalog, roster, time zones and requests: typing, that  *)
(* only valid requests are reserved, and that a job lies within the        *)
(* opening hours and, where the shop closes before midnight, within the    *)
(* shift of the technician.                                                *)
(***************************************************************************)
EXTENDS Intake, TLAPS

(* The opening hours of a dealership. *)
HoursOf(d) == {h \in OpeningHours : h.dealer = d}

(* The handler is past the first, second and third GET, or has reserved.   *)
Past(pcs) == pc \in pcs \/ Reserved

(* What the handler has learnt from the Catalog by then, and from the      *)
(* check of the hours.                                                     *)
SnapshotOk ==
    Past({"serviceTypes", "vehicles", "hours", "reserve"}) =>
        /\ req.dealer \in DOMAIN Dealership
        /\ snap.tz = Dealership[req.dealer]
        /\ snap.hours = ByWeekday(HoursOf(req.dealer))

ServiceOk ==
    Past({"vehicles", "hours", "reserve"}) => \E s \in ServiceType : s.id = req.svc

VehicleOk ==
    Past({"hours", "reserve"}) =>
        \E v \in Vehicle : v.id = req.vehicle /\ v.customer = req.customer

HoursOk ==
    Past({"reserve"}) => /\ snap.tz \in DOMAIN Zone
                         /\ WithinHours(Zone[snap.tz], snap.hours, req.start)

(* A job is that of a candidate, and an answer ends the handler. *)
JobOk ==
    /\ Reserved => /\ job.tech \in Candidates /\ job.from = req.start
                   /\ job.to = EndOf(Technician[job.tech], req.svc, req.start)
    /\ pc # "done" => reply = "none"

(* The inductive invariant of the intake. *)
IntakeInv ==
    TypeOK /\ SnapshotOk /\ ServiceOk /\ VehicleOk /\ HoursOk /\ JobOk

-----------------------------------------------------------------------------

(* The length of a day in seconds. *)
LEMMA DayFacts == Day = 86400 /\ Minute = 60
    BY DEF Day, Minute

(* A date is the day in which an instant lies. *)
LEMMA DateFacts ==
    ASSUME NEW x \in Int
    PROVE  /\ DateOf(x) \in Int
           /\ DateOf(x) * Day <= x /\ x < DateOf(x) * Day + Day
           /\ \A d \in Int : d * Day <= x /\ x < d * Day + Day => DateOf(x) = d
    BY DEF DateOf, Day, Minute

(* The time of day, to the minute. *)
LEMMA MinuteFacts ==
    ASSUME NEW x \in Int
    PROVE  /\ MinuteOfDay(x) \in Int /\ 0 <= MinuteOfDay(x) /\ MinuteOfDay(x) < 1440
           /\ DateOf(x) * Day + MinuteOfDay(x) * Minute <= x
           /\ x < DateOf(x) * Day + (MinuteOfDay(x) + 1) * Minute
    BY DEF MinuteOfDay, DateOf, Day, Minute

(***************************************************************************)
(* The opening hours count from the instant that time.Date gives for local *)
(* midnight.  For the rest of that day the wall clock shows the time since *)
(* then, exactly, or, once the clock has changed on that date, off by the  *)
(* change.                                                                 *)
(***************************************************************************)
LEMMA WallClock ==
    ASSUME NEW z, z.at \in Int, z.before \in Int, z.after \in Int,
           z.after - z.before <= Day, z.before - z.after <= Day,
           NEW start \in Int, NEW t \in Int,
           NEW date, date = DateOf(Local(z, start)),
           NEW s, s = StartOfDay(z, start),
           s <= start, start <= t, t < s + Day
    PROVE  /\ \E e \in {0, Shifted(z, date, t)} :
                Local(z, t) = date * Day + (t - s) + e
           /\ s \in Int /\ date \in Int /\ Shifted(z, date, t) \in Int
<1>1. PICK at \in Int, b \in Int, a \in Int : z.at = at /\ z.before = b /\ z.after = a
    OBVIOUS
<1>2. Day \in Nat /\ a - b <= Day /\ b - a <= Day
    BY <1>1, DayFacts
<1>3. Local(z, start) \in Int
    BY <1>1 DEF Local, Offset
<1>4. date \in Int /\ date * Day <= Local(z, start) /\ Local(z, start) < date * Day + Day
    BY <1>3, DateFacts
<1>5. PICK w \in Int : w = date * Day
    BY <1>2, <1>4
<1>6. StartOfDay(z, start) = GoDate(z, w)
    BY <1>5 DEF StartOfDay
<1>7. /\ s \in Int
      /\ s = IF w < at THEN IF w - b < at THEN w - b ELSE w - a
                       ELSE IF w - a < at THEN w - b ELSE w - a
    <2>1. CASE w < at
        BY <1>1, <1>6, <2>1 DEF GoDate, Offset
    <2>2. CASE ~(w < at)
        BY <1>1, <1>6, <2>2 DEF GoDate, Offset
    <2>3. QED
        BY <2>1, <2>2
<1>8. PICK p \in Int, q \in Int :
         /\ p = IF start < at THEN b ELSE a
         /\ q = IF t < at THEN b ELSE a
    OBVIOUS
<1>9. Local(z, start) = start + p /\ Local(z, t) = t + q
    BY <1>1, <1>8 DEF Local, Offset
<1>10. w <= start + p /\ start + p < w + Day
    BY <1>4, <1>5, <1>9
<1>11. s <= start /\ start <= t /\ t < s + Day
    BY <1>7
<1>12. Shifted(z, date, t) \in Int
    BY <1>1 DEF Shifted
<1>13. CASE s = w - q
    <2>1. Local(z, t) = date * Day + (t - s) + 0
        BY <1>4, <1>5, <1>7, <1>8, <1>9, <1>13
    <2>2. QED
        BY <1>4, <1>7, <1>12, <2>1
<1>14. CASE s # w - q
    <2>1. \/ w <= at + b /\ at + b < w + Day
          \/ w <= at + a /\ at + a < w + Day
        BY <1>2, <1>7, <1>8, <1>10, <1>11, <1>14
    <2>2. date \in ChangeDates(z)
        <3>1. date \in {DateOf(z.at + z.before), DateOf(z.at + z.after)}
            BY <1>1, <1>4, <1>5, <2>1, DateFacts
        <3>2. QED
            BY <3>1 DEF ChangeDates
    <2>3. t >= at /\ q = a /\ s = w - b
        BY <1>7, <1>8, <1>10, <1>11, <1>14
    <2>4. PICK k \in Int : k = Shifted(z, date, t) /\ k = a - b
        BY <1>1, <1>12, <2>2, <2>3 DEF Shifted
    <2>5. t + q = w + (t - s) + k
        BY <1>8, <2>3, <2>4
    <2>6. Local(z, t) = date * Day + (t - s) + k
        BY <1>5, <1>9, <2>5
    <2>7. QED
        BY <1>4, <1>7, <1>12, <2>4, <2>6
<1>15. QED
    BY <1>13, <1>14

-----------------------------------------------------------------------------

(* Windows of a day open and close at minutes of it. *)
LEMMA MinuteRanges ==
    /\ \A m \in FirstMinute : m \in Int /\ 0 <= m
    /\ \A m \in LastMinute : m \in Int /\ m <= 1440
    BY DEF FirstMinute, LastMinute

(* The columns of the roster of one technician. *)
LEMMA RosterFacts ==
    ASSUME NEW id \in DOMAIN Technician
    PROVE  /\ Technician[id].tz \in DOMAIN Zone
           /\ \A k \in DOMAIN Technician[id].skill :
                Technician[id].skill[k] \in Nat \ {0}
           /\ \A k \in DOMAIN Technician[id].shift :
                /\ Technician[id].shift[k].start \in Int
                /\ Technician[id].shift[k].end \in Int
           /\ \A k \in Technician[id].absence : k.from \in Int /\ k.to \in Int
<1>1. Technician[id].tz \in DOMAIN Zone
    BY RosterAssumption
<1>2. \A k \in DOMAIN Technician[id].skill : Technician[id].skill[k] \in Nat \ {0}
    BY RosterAssumption
<1>3. ASSUME NEW k \in DOMAIN Technician[id].shift
      PROVE  Technician[id].shift[k].start \in Int /\ Technician[id].shift[k].end \in Int
    <2>1. /\ Technician[id].shift[k].start \in FirstMinute
          /\ Technician[id].shift[k].end \in LastMinute
        BY RosterAssumption
    <2>2. QED
        BY <2>1, MinuteRanges
<1>4. \A k \in Technician[id].absence : k.from \in Int /\ k.to \in Int
    BY RosterAssumption
<1>5. QED
    BY <1>1, <1>2, <1>3, <1>4

(* A job ends the minutes of its skill after its start, in seconds. *)
LEMMA EndTyped ==
    ASSUME NEW id \in DOMAIN Technician, NEW svc \in DOMAIN Technician[id].skill,
           NEW start \in Int
    PROVE  /\ EndOf(Technician[id], svc, start) \in Int
           /\ EndOf(Technician[id], svc, start) > start
           /\ EndOf(Technician[id], svc, start) - start
                = Technician[id].skill[svc] * Minute
<1>1. PICK n \in Nat \ {0} : n = Technician[id].skill[svc]
    BY RosterFacts
<1>2. EndOf(Technician[id], svc, start) = start + n * 60
    BY <1>1 DEF EndOf, Minute
<1>3. QED
    BY <1>1, <1>2 DEF Minute

(* A candidate is a technician who satisfies the claim SQL. *)
LEMMA CandidateFacts ==
    ASSUME NEW t \in Candidates
    PROVE  /\ t \in DOMAIN Technician
           /\ Fits(Technician[t], Zone[Technician[t].tz], req.dealer, req.svc,
                   req.start, LatestEnd(Zone[snap.tz], snap.hours, req.start))
           /\ req.svc \in DOMAIN Technician[t].skill
    BY DEF Candidates, Fits

(* The opening hours of a weekday are a row of the table. *)
LEMMA HoursFacts ==
    ASSUME NEW d, NEW w \in DOMAIN ByWeekday(HoursOf(d)),
           NEW h, h = ByWeekday(HoursOf(d))[w]
    PROVE  /\ h \in OpeningHours /\ h.dealer = d /\ h.weekday = w /\ w \in 1..7
           /\ h.open \in Int /\ 0 <= h.open /\ h.close \in Int /\ h.close <= 1440
<1>1. \E i \in HoursOf(d) : i.weekday = w
    BY DEF ByWeekday
<1>2. h = CHOOSE i \in HoursOf(d) : i.weekday = w
    BY DEF ByWeekday
<1>3. h \in HoursOf(d) /\ h.weekday = w
    BY <1>1, <1>2
<1>4. h \in OpeningHours /\ h.dealer = d
    BY <1>3 DEF HoursOf
<1>5. h.open \in FirstMinute
    BY <1>4, CatalogAssumption
<1>6. h.close \in LastMinute
    BY <1>4, CatalogAssumption
<1>7. h.weekday \in 1..7
    BY <1>4, CatalogAssumption
<1>8. h.open \in Int /\ 0 <= h.open
    BY <1>5, MinuteRanges
<1>9. h.close \in Int /\ h.close <= 1440
    BY <1>6, MinuteRanges
<1>10. QED
    BY <1>3, <1>4, <1>7, <1>8, <1>9

-----------------------------------------------------------------------------

(* The first GET has not been made. *)
LEMMA IntakeInit == Init => IntakeInv
<1> SUFFICES ASSUME Init PROVE IntakeInv
    OBVIOUS
<1>1. TypeOK
    BY DEF Init, TypeOK, NoSnap, NoJob
<1>2. SnapshotOk /\ ServiceOk /\ VehicleOk /\ HoursOk /\ JobOk
    BY DEF Init, SnapshotOk, ServiceOk, VehicleOk, HoursOk, JobOk, Past, Reserved
<1>3. QED
    BY <1>1, <1>2 DEF IntakeInv

(* An answer other than a reservation ends the handler, whatever it knew.  *)
LEMMA AnswerKeeps ==
    ASSUME IntakeInv, NEW r \in {"400", "409"}, pc # "done", Answer(r)
    PROVE  IntakeInv'
<1>1. pc' = "done" /\ reply' = r /\ UNCHANGED <<req, snap, job, now>>
    BY DEF Answer
<1>2. TypeOK'
    BY <1>1 DEF IntakeInv, TypeOK
<1>3. ~Reserved'
    BY <1>1 DEF Reserved
<1>4. SnapshotOk' /\ ServiceOk' /\ VehicleOk' /\ HoursOk' /\ JobOk'
    BY <1>1, <1>3 DEF SnapshotOk, ServiceOk, VehicleOk, HoursOk, JobOk, Past
<1>5. QED
    BY <1>2, <1>4 DEF IntakeInv

(* Every step preserves the invariant: each GET and each check adds what   *)
(* the later ones rely on, and only the clock changes behind their back.   *)
LEMMA IntakeStep == IntakeInv /\ [Next]_vars => IntakeInv'
<1> SUFFICES ASSUME IntakeInv, [Next]_vars PROVE IntakeInv'
    OBVIOUS
<1> TypeOK /\ SnapshotOk /\ ServiceOk /\ VehicleOk /\ HoursOk /\ JobOk
    BY DEF IntakeInv
<1>1. CASE GetDealerships
    <2>1. ASSUME NEW d \in ListDealerships, d.id = req.dealer,
                 snap' = [tz |-> d.tz, hours |-> ByWeekday(d.hours)],
                 Proceed("serviceTypes")
          PROVE  IntakeInv'
        <3>1. /\ req.dealer \in DOMAIN Dealership
              /\ snap'.tz = Dealership[req.dealer]
              /\ snap'.hours = ByWeekday(HoursOf(req.dealer))
            BY <2>1 DEF ListDealerships, HoursOf
        <3>2. /\ pc' = "serviceTypes" /\ reply' = reply /\ req' = req
              /\ job' = job /\ now' = now /\ reply = "none"
            BY <1>1, <2>1 DEF Proceed, GetDealerships, JobOk
        <3>3. DOMAIN snap'.hours \subseteq 1..7
            BY <3>1, HoursFacts
        <3>4. TypeOK'
            BY <3>1, <3>2, <3>3 DEF TypeOK
        <3>5. SnapshotOk'
            BY <3>1, <3>2 DEF SnapshotOk, ByWeekday, HoursOf
        <3>6. ServiceOk' /\ VehicleOk' /\ HoursOk' /\ JobOk'
            BY <3>2 DEF ServiceOk, VehicleOk, HoursOk, JobOk, Past, Reserved
        <3>7. QED
            BY <3>4, <3>5, <3>6 DEF IntakeInv
    <2>2. CASE Answer("400")
        BY <1>1, <2>2, AnswerKeeps DEF GetDealerships
    <2>3. QED
        BY <1>1, <2>1, <2>2 DEF GetDealerships
<1>2. CASE GetServiceTypes
    <2>1. CASE req.svc \in ListServiceTypes /\ Proceed("vehicles") /\ UNCHANGED snap
        <3>1. /\ pc' = "vehicles" /\ UNCHANGED <<req, snap, job, reply, now>>
              /\ pc = "serviceTypes" /\ reply = "none"
            BY <1>2, <2>1 DEF Proceed, GetServiceTypes, JobOk
        <3>2. TypeOK'
            BY <3>1 DEF TypeOK
        <3>3. SnapshotOk'
            BY <3>1 DEF SnapshotOk, Past, Reserved, ByWeekday, HoursOf
        <3>4. ServiceOk'
            BY <2>1, <3>1 DEF ServiceOk, ListServiceTypes
        <3>5. VehicleOk' /\ HoursOk' /\ JobOk'
            BY <3>1 DEF VehicleOk, HoursOk, JobOk, Past, Reserved
        <3>6. QED
            BY <3>2, <3>3, <3>4, <3>5 DEF IntakeInv
    <2>2. CASE Answer("400")
        BY <1>2, <2>2, AnswerKeeps DEF GetServiceTypes
    <2>3. QED
        BY <1>2, <2>1, <2>2 DEF GetServiceTypes
<1>3. CASE GetVehicles
    <2> DEFINE resp == ListCustomerVehicles(req.customer)
    <2>1. CASE req.vehicle \in resp.body /\ Proceed("hours") /\ UNCHANGED snap
        <3>1. /\ pc' = "hours" /\ UNCHANGED <<req, snap, job, reply, now>>
              /\ pc = "vehicles" /\ reply = "none"
            BY <1>3, <2>1 DEF Proceed, GetVehicles, JobOk
        <3>2. TypeOK'
            BY <3>1 DEF TypeOK
        <3>3. SnapshotOk'
            BY <3>1 DEF SnapshotOk, Past, Reserved, ByWeekday, HoursOf
        <3>4. ServiceOk'
            BY <3>1 DEF ServiceOk, Past, Reserved
        <3>5. \E v \in Vehicle : v.id = req.vehicle /\ v.customer = req.customer
            BY <2>1 DEF ListCustomerVehicles
        <3>6. VehicleOk'
            BY <3>1, <3>5 DEF VehicleOk
        <3>7. HoursOk' /\ JobOk'
            BY <3>1 DEF HoursOk, JobOk, Past, Reserved
        <3>8. QED
            BY <3>2, <3>3, <3>4, <3>6, <3>7 DEF IntakeInv
    <2>2. CASE Answer("400")
        BY <1>3, <2>2, AnswerKeeps DEF GetVehicles
    <2>3. QED
        BY <1>3, <2>1, <2>2 DEF GetVehicles
<1>4. CASE CatalogDown
    BY <1>4, AnswerKeeps DEF CatalogDown
<1>5. CASE CheckHours
    <2>1. CASE /\ snap.tz \in DOMAIN Zone
               /\ WithinHours(Zone[snap.tz], snap.hours, req.start)
               /\ Proceed("reserve") /\ UNCHANGED snap
        <3>1. /\ pc' = "reserve" /\ UNCHANGED <<req, snap, job, reply, now>>
              /\ pc = "hours" /\ reply = "none"
            BY <1>5, <2>1 DEF Proceed, CheckHours, JobOk
        <3>2. TypeOK'
            BY <3>1 DEF TypeOK
        <3>3. SnapshotOk'
            BY <3>1 DEF SnapshotOk, Past, Reserved, ByWeekday, HoursOf
        <3>4. ServiceOk' /\ VehicleOk'
            BY <3>1 DEF ServiceOk, VehicleOk, Past, Reserved
        <3>5. HoursOk'
            BY <2>1, <3>1 DEF HoursOk
        <3>6. JobOk'
            BY <3>1 DEF JobOk, Reserved
        <3>7. QED
            BY <3>2, <3>3, <3>4, <3>5, <3>6 DEF IntakeInv
    <2>2. CASE Answer("400")
        BY <1>5, <2>2, AnswerKeeps DEF CheckHours
    <2>3. QED
        BY <1>5, <2>1, <2>2 DEF CheckHours
<1>6. CASE Reserve
    <2>1. ASSUME NEW t \in Candidates,
                 job' = [tech |-> t, from |-> req.start,
                         to |-> EndOf(Technician[t], req.svc, req.start)],
                 pc' = "done", reply' = "reserved", UNCHANGED <<req, snap, now>>
          PROVE  IntakeInv'
        <3>1. /\ job'.tech = t /\ job'.from = req.start
              /\ job'.to = EndOf(Technician[t], req.svc, req.start)
            BY <2>1
        <3>2. req.start \in Int
            BY TimeAssumption DEF TypeOK
        <3>3. t \in DOMAIN Technician /\ EndOf(Technician[t], req.svc, req.start) \in Int
            BY <3>2, CandidateFacts, EndTyped
        <3>4. TypeOK'
            BY <2>1, <3>1, <3>2, <3>3 DEF TypeOK
        <3>5. pc = "reserve"
            BY <1>6 DEF Reserve
        <3>6. SnapshotOk'
            BY <2>1, <3>5 DEF SnapshotOk, Past, ByWeekday, HoursOf
        <3>7. ServiceOk' /\ VehicleOk'
            BY <2>1, <3>5 DEF ServiceOk, VehicleOk, Past
        <3>8. HoursOk'
            BY <2>1, <3>5 DEF HoursOk, Past
        <3>9. Candidates' = Candidates
            BY <2>1 DEF Candidates
        <3>10. JobOk'
            BY <2>1, <3>1, <3>9 DEF JobOk
        <3>11. QED
            BY <3>4, <3>6, <3>7, <3>8, <3>10 DEF IntakeInv
    <2>2. CASE Answer("409")
        BY <1>6, <2>2, AnswerKeeps DEF Reserve
    <2>3. QED
        BY <1>6, <2>1, <2>2 DEF Reserve
<1>7. CASE Tick \/ UNCHANGED vars
    <2>1. UNCHANGED <<pc, req, snap, job, reply>> /\ now' \in Clock
        BY <1>7 DEF Tick, vars, TypeOK
    <2>2. TypeOK'
        BY <2>1 DEF TypeOK
    <2>3. SnapshotOk'
        BY <2>1 DEF SnapshotOk, Past, Reserved, ByWeekday, HoursOf
    <2>4. ServiceOk' /\ VehicleOk' /\ HoursOk'
        BY <2>1 DEF ServiceOk, VehicleOk, HoursOk, Past, Reserved
    <2>5. Candidates' = Candidates
        BY <2>1 DEF Candidates
    <2>6. JobOk'
        BY <2>1, <2>5 DEF JobOk, Reserved
    <2>7. QED
        BY <2>2, <2>3, <2>4, <2>6 DEF IntakeInv
<1>8. QED
    BY <1>1, <1>2, <1>3, <1>4, <1>5, <1>6, <1>7 DEF Next

(* Hence it holds in every reachable state. *)
LEMMA IntakeInvariant == Spec => []IntakeInv
    BY IntakeInit, IntakeStep, PTL DEF Spec

(* Type correctness of the intake, for any catalog and roster. *)
THEOREM IntakeTypeCorrect == Spec => []TypeOK
    BY IntakeInvariant, PTL DEF IntakeInv

(* However the GETs fail and the clock advances in between, a technician   *)
(* is claimed only for what the Catalog and the roster allow.              *)
THEOREM IntakeOnlyValid == Spec => []OnlyValidIsReserved
<1>1. IntakeInv => OnlyValidIsReserved
    <2> SUFFICES ASSUME IntakeInv, Reserved PROVE OnlyValidIsReserved
        BY DEF OnlyValidIsReserved
    <2>1. job.tech \in Candidates /\ job.from = req.start
        BY DEF IntakeInv, JobOk
    <2>2. job.to = EndOf(Worker, req.svc, req.start)
        BY DEF IntakeInv, JobOk, Worker
    <2>3. /\ job.tech \in DOMAIN Technician
          /\ req.svc \in DOMAIN Technician[job.tech].skill
          /\ Worker.dealer = req.dealer /\ Worker.active
          /\ ~Absent(Worker, job.from, job.to)
        BY <2>1, <2>2, CandidateFacts DEF Fits, Worker
    <2>4. req.start \in Int
        BY TimeAssumption DEF IntakeInv, TypeOK
    <2>5. job.to - job.from = Worker.skill[req.svc] * Minute
        BY <2>1, <2>2, <2>3, <2>4, EndTyped DEF Worker
    <2>6. job.to \in Int /\ job.from \in Int
        BY DEF IntakeInv, TypeOK
    <2>7. \A a \in Worker.absence : job.to <= a.from \/ a.to <= job.from
        <3>1. \A a \in Worker.absence : a.from \in Int /\ a.to \in Int
            BY <2>3, RosterFacts DEF Worker
        <3>2. QED
            BY <2>3, <2>6, <3>1 DEF Absent
    <2>8. \E s \in ServiceType : s.id = req.svc
        BY DEF IntakeInv, ServiceOk, Past
    <2>9. \E v \in Vehicle : v.id = req.vehicle /\ v.customer = req.customer
        BY DEF IntakeInv, VehicleOk, Past
    <2>10. QED
        BY <2>3, <2>5, <2>7, <2>8, <2>9 DEF OnlyValidIsReserved
<1>2. QED
    BY <1>1, IntakeInvariant, PTL

-----------------------------------------------------------------------------
(***************************************************************************)
(* What a reservation says about time, as integers: the row of the opening *)
(* hours, the midnight it counts from, and the bounds on the job.          *)
(***************************************************************************)
JobFacts(z, h) ==
    /\ h \in OpeningHours /\ h.dealer = req.dealer
    /\ h.weekday = Weekday(Local(z, job.from))
    /\ h.open \in Int /\ 0 <= h.open /\ h.close \in Int /\ h.close <= 1440
    /\ StartOfDay(z, job.from) \in Int
    /\ job.from \in Int /\ job.to \in Int /\ job.from < job.to
    /\ job.from >= StartOfDay(z, job.from) + h.open * Minute
    /\ job.to <= StartOfDay(z, job.from) + h.close * Minute

(* Zones are as WallClock needs them. *)
LEMMA ZoneFacts ==
    ASSUME NEW n \in DOMAIN Zone
    PROVE  /\ Zone[n].at \in Int /\ Zone[n].before \in Int /\ Zone[n].after \in Int
           /\ Zone[n].after - Zone[n].before <= Day
           /\ Zone[n].before - Zone[n].after <= Day
    BY ZoneAssumption

(* Both ends of a reserved job were compared with one row of the opening   *)
(* hours, counted from one midnight: by CheckHours and by the claim SQL.   *)
LEMMA ReservedFacts ==
    ASSUME IntakeInv, Reserved
    PROVE  /\ Dealership[req.dealer] \in DOMAIN Zone
           /\ \E h : JobFacts(Zone[Dealership[req.dealer]], h)
           /\ job.tech \in DOMAIN Technician /\ Worker.tz \in DOMAIN Zone
           /\ ShiftCovers(Zone[Worker.tz], Worker.shift, job.from, job.to)
<1>1. /\ snap.tz = Dealership[req.dealer] /\ snap.tz \in DOMAIN Zone
      /\ snap.hours = ByWeekday(HoursOf(req.dealer))
      /\ WithinHours(Zone[snap.tz], snap.hours, req.start)
    BY DEF IntakeInv, SnapshotOk, HoursOk, Past
<1>a. PICK z, w, hours, h :
         /\ z = Zone[Dealership[req.dealer]] /\ w = Weekday(Local(z, req.start))
         /\ hours = ByWeekday(HoursOf(req.dealer)) /\ h = hours[w]
    OBVIOUS
<1>2. /\ w \in DOMAIN hours
      /\ req.start >= StartOfDay(z, req.start) + h.open * Minute
    BY <1>1, <1>a DEF WithinHours
<1>3. /\ h \in OpeningHours /\ h.dealer = req.dealer /\ h.weekday = w
      /\ h.open \in Int /\ 0 <= h.open /\ h.close \in Int /\ h.close <= 1440
    BY <1>2, <1>a, HoursFacts
<1>4. /\ job.tech \in Candidates /\ job.from = req.start
      /\ job.to = EndOf(Worker, req.svc, req.start)
    BY DEF IntakeInv, JobOk, Worker
<1>5. /\ job.tech \in DOMAIN Technician
      /\ req.svc \in DOMAIN Technician[job.tech].skill
      /\ job.to <= LatestEnd(Zone[snap.tz], snap.hours, req.start)
      /\ ShiftCovers(Zone[Worker.tz], Worker.shift, job.from, job.to)
    BY <1>4, CandidateFacts DEF Fits, Worker
<1>6. job.to <= StartOfDay(z, req.start) + h.close * Minute
    BY <1>1, <1>5, <1>a DEF LatestEnd
<1>7. req.start \in Int
    BY TimeAssumption DEF IntakeInv, TypeOK
<1>8. job.to \in Int /\ job.from < job.to
    BY <1>4, <1>5, <1>7, EndTyped DEF Worker
<1>9. Worker.tz \in DOMAIN Zone
    BY <1>5, RosterFacts DEF Worker
<1>10. StartOfDay(z, req.start) \in Int
    <2>1. z.at \in Int /\ z.before \in Int /\ z.after \in Int
        BY <1>1, <1>a, ZoneFacts
    <2>2. Local(z, req.start) \in Int
        BY <1>7, <2>1 DEF Local, Offset
    <2>3. DateOf(Local(z, req.start)) * Day \in Int
        BY <2>2, DateFacts, DayFacts
    <2>4. QED
        BY <2>1, <2>3 DEF StartOfDay, GoDate, Offset
<1>11. JobFacts(z, h)
    BY <1>2, <1>3, <1>4, <1>6, <1>7, <1>8, <1>10, <1>a DEF JobFacts
<1>12. QED
    BY <1>1, <1>5, <1>9, <1>11, <1>a

(***************************************************************************)
(* For any zones, opening hours and roster: by the clock on the wall of    *)
(* the shop a job lies between opening and closing time of one day, off by *)
(* the clock change only after it and on its date.                         *)
(***************************************************************************)
THEOREM IntakeOpeningHours == Spec => []JobInOpeningHours
<1>1. IntakeInv => JobInOpeningHours
    <2> SUFFICES ASSUME IntakeInv, Reserved PROVE JobInOpeningHours
        BY DEF JobInOpeningHours
    <2>1. PICK z : z = Zone[Dealership[req.dealer]]
        OBVIOUS
    <2>2. PICK h : JobFacts(z, h)
        BY <2>1, ReservedFacts
    <2>3. PICK date : date = DateOf(Local(z, job.from))
        OBVIOUS
    <2>4. PICK s, open, close :
             /\ s = StartOfDay(z, job.from) /\ open = h.open /\ close = h.close
             /\ s \in Int /\ open \in Int /\ close \in Int
             /\ 0 <= open /\ close <= 1440
        BY <2>2 DEF JobFacts
    <2>5. PICK from \in Int, to \in Int : from = job.from /\ to = job.to /\ from < to
        BY <2>2 DEF JobFacts
    <2>6. s + open * 60 <= from /\ to <= s + close * 60
        BY <2>2, <2>4, <2>5, DayFacts DEF JobFacts
    <2>7. /\ s <= from /\ from <= from /\ from < s + Day
          /\ from <= to - 1 /\ to - 1 < s + Day /\ to - 1 \in Int
        BY <2>4, <2>5, <2>6, DayFacts
    <2>8. /\ z.at \in Int /\ z.before \in Int /\ z.after \in Int
          /\ z.after - z.before <= Day /\ z.before - z.after <= Day
        BY <2>1, ReservedFacts, ZoneFacts
    <2>9. s = StartOfDay(z, from) /\ date = DateOf(Local(z, from))
        BY <2>3, <2>4, <2>5
    <2>10. date \in Int /\ date * Day \in Int
        BY <2>5, <2>8, <2>9, DateFacts, DayFacts DEF Local, Offset
    <2>11. PICK e \in {0, Shifted(z, date, from)} :
             e \in Int /\ Local(z, from) = date * Day + (from - s) + e
        BY <2>5, <2>7, <2>8, <2>9, WallClock
    <2>12. PICK f \in {0, Shifted(z, date, to - 1)} :
             f \in Int /\ Local(z, to - 1) = date * Day + (to - 1 - s) + f
        BY <2>5, <2>7, <2>8, <2>9, WallClock
    <2>13. /\ Local(z, from) >= date * Day + open * 60 + e
           /\ Local(z, to - 1) < date * Day + close * 60 + f
        <3>1. PICK x \in Int : x = date * Day
            BY <2>10
        <3>2. /\ Local(z, from) = x + (from - s) + e
              /\ Local(z, to - 1) = x + (to - 1 - s) + f
            BY <2>11, <2>12, <3>1
        <3>3. x + (from - s) + e >= x + open * 60 + e
            BY <2>4, <2>5, <2>6, <2>11, <3>1
        <3>4. x + (to - 1 - s) + f < x + close * 60 + f
            BY <2>4, <2>5, <2>6, <2>12, <3>1
        <3>5. QED
            BY <3>1, <3>2, <3>3, <3>4
    <2>14. /\ h \in OpeningHours /\ h.dealer = req.dealer
           /\ h.weekday = Weekday(Local(z, job.from))
        BY <2>2 DEF JobFacts
    <2>15. QED
        <3>1. \E x \in {0, Shifted(z, date, job.from)} :
                Local(z, job.from) >= date * Day + h.open * Minute + x
            BY <2>4, <2>5, <2>11, <2>13, DayFacts
        <3>2. \E x \in {0, Shifted(z, date, job.to - 1)} :
                Local(z, job.to - 1) < date * Day + h.close * Minute + x
            BY <2>4, <2>5, <2>12, <2>13, DayFacts
        <3>3. QED
            BY <2>1, <2>3, <2>14, <3>1, <3>2 DEF JobInOpeningHours
<1>2. QED
    BY <1>1, IntakeInvariant, PTL

(***************************************************************************)
(* For any zones, shifts and durations: where the shop and the technician  *)
(* share a zone and the shop closes before midnight, the shift covers the  *)
(* whole job, although the claim SQL compares minutes of the day.          *)
(***************************************************************************)
THEOREM IntakeShift == Spec => []CeilingKeepsShift
<1>1. IntakeInv => CeilingKeepsShift
    <2> SUFFICES ASSUME IntakeInv, Reserved, Worker.tz = Dealership[req.dealer],
                        ClosesBeforeMidnight
                 PROVE  ShiftCoversJob
        BY DEF CeilingKeepsShift
    <2>1. PICK z : z = Zone[Dealership[req.dealer]]
        OBVIOUS
    <2>2. PICK h : JobFacts(z, h)
        BY <2>1, ReservedFacts
    <2>3. PICK date : date = DateOf(Local(z, job.from))
        OBVIOUS
    <2>4. PICK s, open, close :
             /\ s = StartOfDay(z, job.from) /\ open = h.open /\ close = h.close
             /\ s \in Int /\ open \in Int /\ close \in Int
             /\ 0 <= open /\ close <= 1440
        BY <2>2 DEF JobFacts
    <2>5. PICK from \in Int, to \in Int : from = job.from /\ to = job.to /\ from < to
        BY <2>2 DEF JobFacts
    <2>6. s + open * 60 <= from /\ to <= s + close * 60
        BY <2>2, <2>4, <2>5, DayFacts DEF JobFacts
    <2>7. Lost(z, date) \in Nat
        <3>1. z.before \in Int /\ z.after \in Int
            BY <2>1, ReservedFacts, ZoneFacts
        <3>2. QED
            BY <3>1 DEF Lost
    <2>8. close * 60 + Lost(z, date) < Day
        BY <2>1, <2>2, <2>3, <2>4, DayFacts DEF ClosesBeforeMidnight, JobFacts
    <2>9. s <= from /\ from <= to /\ to < s + Day
        BY <2>4, <2>5, <2>6, <2>7, <2>8, DayFacts
    <2>10. /\ z.at \in Int /\ z.before \in Int /\ z.after \in Int
           /\ z.after - z.before <= Day /\ z.before - z.after <= Day
        BY <2>1, ReservedFacts, ZoneFacts
    <2>11. /\ Local(z, to) <= date * Day + (to - s) + Lost(z, date)
           /\ date \in Int
        <3>1. s = StartOfDay(z, from) /\ date = DateOf(Local(z, from))
            BY <2>3, <2>4, <2>5
        <3>2. /\ date \in Int
              /\ \E e \in {0, Shifted(z, date, to)} :
                   e \in Int /\ Local(z, to) = date * Day + (to - s) + e
            BY <2>5, <2>9, <2>10, <3>1, WallClock
        <3>3. PICK e \in Int : /\ e \in {0, Shifted(z, date, to)}
                               /\ Local(z, to) = date * Day + (to - s) + e
            BY <3>2
        <3>4. e <= Lost(z, date)
            BY <2>10, <3>3 DEF Shifted, Lost
        <3>5. date * Day \in Int
            BY <3>2, DayFacts
        <3>6. QED
            BY <2>4, <2>5, <2>7, <3>2, <3>3, <3>4, <3>5
    <2>12. Local(z, from) \in Int /\ Local(z, to) \in Int
        BY <2>10 DEF Local, Offset
    <2>13. Local(z, to) < date * Day + Day
        BY <2>4, <2>6, <2>7, <2>8, <2>11, <2>12, DayFacts
    <2>d. PICK day : day = Weekday(Local(z, from))
        OBVIOUS
    <2>14. /\ day \in DOMAIN Worker.shift
           /\ Worker.shift[day].start <= MinuteOfDay(Local(z, from))
           /\ MinuteOfDay(Local(z, to)) <= Worker.shift[day].end
        BY <2>1, <2>5, <2>d, ReservedFacts DEF ShiftCovers
    <2>15. \A k \in DOMAIN Worker.shift : /\ Worker.shift[k].start \in Int
                                          /\ Worker.shift[k].end \in Int
        BY ReservedFacts, RosterFacts DEF Worker
    <2>16. PICK start, end :
              /\ start = Worker.shift[day].start /\ end = Worker.shift[day].end
              /\ start \in Int /\ end \in Int
        BY <2>14, <2>15
    <2>17. Local(z, from) >= date * Day + start * 60
        <3>1. PICK m \in Int : m = MinuteOfDay(Local(z, from))
            BY <2>12, MinuteFacts
        <3>2. date * Day + m * 60 <= Local(z, from)
            BY <2>3, <2>5, <2>12, <3>1, MinuteFacts, DayFacts
        <3>3. start <= m
            BY <2>14, <2>16, <3>1
        <3>4. QED
            BY <2>11, <2>12, <2>16, <3>2, <3>3, DayFacts
    <2>18. Local(z, to) < date * Day + (end + 1) * 60
        <3>1. PICK D \in Int, m \in Int :
                 /\ D = DateOf(Local(z, to)) /\ m = MinuteOfDay(Local(z, to))
                 /\ 0 <= m /\ m < 1440
            BY <2>12, DateFacts, MinuteFacts
        <3>2. D * Day + m * 60 <= Local(z, to) /\ Local(z, to) < D * Day + (m + 1) * 60
            BY <2>12, <3>1, MinuteFacts, DayFacts
        <3>3. D <= date
            BY <2>11, <2>12, <2>13, <3>1, <3>2, DayFacts
        <3>4. m <= end
            BY <2>14, <2>16, <3>1
        <3>5. QED
            BY <2>11, <2>12, <2>16, <3>1, <3>2, <3>3, <3>4, DayFacts
    <2>19. QED
        BY <2>1, <2>3, <2>5, <2>d, <2>14, <2>16, <2>17, <2>18, DayFacts
        DEF ShiftCoversJob
<1>2. QED
    BY <1>1, IntakeInvariant, PTL

=============================================================================
