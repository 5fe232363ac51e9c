# Verification of the Unified Service Scheduler

TLA+ modules for the scheduler: the Booking service (Go, HTTP), the Technician and Bay allocators
it calls over gRPC, their three Postgres databases, the Catalog snapshot and the calendar rules in
front of them, and the migrations runner. TLC checks
the modules on small instances; TLAPS proves the results listed under *Proofs* for every value
of the constants.

Paths below are relative to `src/backend/services/` unless they start with `src/`.

## 1. Inventory

| Component | State | Operations | Talks to | What is hard |
|---|---|---|---|---|
| Booking write path (`booking/service.go`, `saga.go`, `http.go`) | none of its own between calls; each HTTP handler keeps a row and two occupation ids in local variables | `CreateHold`, `Confirm` (with `holdId`: promote in place; without: full saga), `Cancel`, `Get` | appointment store (SQL), allocators (gRPC), Catalog (HTTP) | several statements and RPCs per call, no transaction around them; concurrent confirmers, cancellers and the sweeper on one row; RPCs that fail but execute; compensation on a request context that may be cancelled |
| Appointment store (`booking/store.go`, migration) | table `appointment`: status HELD / CONFIRMED / CANCELLED, the two occupation ids, expiry, key, fingerprint | `InsertHeld`, `Get`, `GetConfirmedByIdempotencyKey`, `Promote`, `Cancel`, `SweepBatch`, `ListCancelledNeedingRelease`, `ClearOccupationIDs` | booking DB | compare-and-set by `WHERE status = ...`; a partial unique index on the key of CONFIRMED rows |
| Sweeper (`booking/service.go`) | loop position, the rows of the current pass | CAS expired HELD to CANCELLED, release both occupations of CANCELLED rows, clear their ids | store, allocators | races a confirmer; crashes between its steps; one of two Releases fails |
| Idempotency (`service.go`, `booking.go`) | key and fingerprint columns | replay lookup, fingerprint comparison, unique violation on `Promote` | store | lookup and store of the key are a whole saga apart |
| Technician, Bay (`technician/reserve.go`, `bay/reserve.go`) | table of occupations: HELD / CONFIRMED / RELEASED with an interval and an expiry | `Reserve` (up to three claim statements with an inline DELETE of expired holds), `Confirm`, `Release` | own DB | claim statement: snapshot, then insert; a GiST exclusion constraint decides races; expired holds keep blocking until deleted |
| Reaper (`src/backend/shared/pkg/reaper`) | none | periodic DELETE of expired HELD rows | allocator DB | races `Confirm` |
| Roster predicate (claim SQL of Technician) | roster tables, seeded | which technicians fit (skill, duration, shift, absence, closing time) | - | local time at both ends of the job, midnight |
| Opening hours (`booking/saga.go`) | none | `withinHours`, `latestEnd` | Catalog snapshot | local time, clock changes |
| Catalog (`catalog/catalog.go`) and its client (`booking/catalog_client.go`) | read-only tables | three GETs: dealerships with hours, service types, a customer's vehicles | catalog DB | any of the GETs may fail or find nothing; nothing may be reserved then |
| Gateway | none | reverse proxy | Catalog, Booking | - |
| Migrations runner (`src/backend/shared/migrate`) | `schema_migrations` in each database | apply the SQL files of four databases, one transaction per file | all DBs | overlapping runs, crash inside a file, commit in doubt, one database that fails |

What makes the system correct: a technician or bay never has two overlapping live occupations
(the allocators' promise); a CONFIRMED appointment owns a confirmed technician and a confirmed bay
for its interval, and no two CONFIRMED appointments overlap on either (Booking's promise); a
failed, abandoned or cancelled call gives everything back, sooner or later; an Idempotency-Key
books once; a job lies in the opening hours of the shop and in the shift of its technician; each
migration is applied once, in order.

## 2. Modules

| Module | Models | Role |
|---|---|---|
| `Claims` | the interval columns and the range overlap of both occupation tables | shared by all |
| `Ledger` | one allocator as Booking sees it: every operation one atomic step, no clock | abstract specification |
| `Allocator` | one allocator as it is: concurrent `Reserve` handlers with their retry loop, the occupation table, the clock, the reaper | implements `Ledger` |
| `Booking` | the Booking handlers, the store, the sweeper, and two copies of `Ledger` (`Tech`, `Bay`) | the composition |
| `Schedule` | the calendar arithmetic: time zones, opening hours, the roster predicate of the claim SQL | pure operators |
| `Intake` | a request before anything is held: the Catalog GETs, the opening hours, the choice of a technician | composes Catalog, Booking's checks and the roster; its `Candidates` is the `Fit` of `Booking` |
| `Migrate` | overlapping runs of the migrations runner | independent |
| `MCAllocator`, `MCBooking`, `MCIntake`, `MCMigrate` | instances for TLC | - |
| `LedgerProofs`, `AllocatorProofs` | theorems about one allocator, abstract and detailed | - |
| `BookingProofs` | the inductive invariant of Booking with all its faults: typing, no orphans, the sweeper, finality | - |
| `BookingReplyProofs` | on top of it: what replies and Idempotency-Keys promise | - |
| `BookingBackedProofs` | on top of both: Booking as a user of the two ledgers; without faults, what a CONFIRMED row owns and what a refusal gives back | - |
| `MigrateProofs`, `IntakeProofs` | theorems about the runner and about the intake with its calendar | - |

So the chain is: `Allocator` implements `Ledger` (checked and proved), and `Booking` is verified
on top of `Ledger`, never on the details of `Allocator`.

### Ledger and Allocator

`table` is the occupation table. An occupation is named after the Reserve call that inserts it
(its id is a fresh random UUID; a call inserts at most one). `status` has two values that are not
in the column: `NONE` (not inserted) and `DELETED` (removed by a DELETE). A request carries
`fit`, the set of claims (resource and interval) that satisfy every predicate of the claim SQL
except occupancy: that is where Technician and Bay differ, and the roster is abstracted into it.

`Reserve` is split where Postgres lets others in: `Begin` (validation, "strictly in the
future"), `Pick` (the subquery on the statement's snapshot, any candidate because the order is
a hash), `Insert` (the exclusion constraint against what has committed since), `ReapAndRetry`
(inline DELETE and the next attempt, or ErrUnavailable after the last), and the error branches
`ClaimError` and `ReapError`. `ClaimError` includes the row that commits although its reply is
lost. `Confirm`, `Release` and the reaper's DELETE are single statements and single steps.
`Confirm` tests `hold_expires_at > now()` as the code does. `Busy` counts expired holds, as both
the NOT EXISTS and the index do.

`Ledger` forgets clock, attempts and handlers: a hold may lapse at any time; a lapsed hold still
excludes others and can no longer be confirmed; a reap makes it go away.

### Booking

`rows` is the appointment table; `h[c]` the handler of HTTP call `c`; `sw` the sweeper; `late` the
RPCs Booking has given up on that may still execute; `faults` counts faults. A `pc` names the
next statement or RPC, and each action executes it together with the local decision that follows
its result. The appointment and the two occupations that a call creates are named after the call.
The correspondence of actions and code:

- `Arrive` - `createHold`, `confirm`, `cancel` of `http.go` and the checks before any claim (they pass, or answer 400);
- `Lookup` - `replay`; `ReserveTech`, `ReserveBay` - `reserveSaga` with its compensation; `InsertHeld` - `Store.InsertHeld` and what `CreateHold` / `confirmWithoutHold` do next;
- `GetHold`, `KeyCheck` - `confirmHold`;
- `ConfTech`, `ConfBay`, `Promote`, `Recheck` - `promoteConfirmed`; `Reget` - the Get that fetches the answer;
- `CancelGet`, `CancelUpdate` - `Cancel`; `RelBay`, `RelTech` - `releaseBoth` / `releaseBay` / `releaseTech`;
- `SweepBatch`, `SweepNext`, `SweepList`, `SweepEnd`, `SweepRelBay`, `SweepRelTech`, `SweepClear` - `sweepOnce` and `releaseCancelled`.

Failures: `RpcLost` (an RPC returns an error; it may have executed, execute later, or never),
`StoreLost` (a statement fails, or commits and its result is lost), `Abandon` (the client
disconnects or the process dies: compensation runs on the same cancelled context and does
nothing), `Deliver` (a late RPC arrives), `SweeperRestart`. There is no clock: holds of the
allocators lapse and appointment holds expire independently and at any moment, which covers
every duration of the steps in between and every skew of the three databases.

Data is abstracted to what decides something: a request body is a model value with a set of
fitting technician claims, a fingerprint is the pair of hold id and body (the hash is assumed
collision free), replies are HTTP status classes ("conflict" is the 409 of
ErrIdempotencyConflict).

### Schedule and Intake

An instant is a number of seconds, day 0 is a Monday, and a zone is its UTC offset before and
after one clock change. `Local` is both `start.In(loc)` and `AT TIME ZONE`. `GoDate` is Go's
`time.Date` (external): it guesses the offset and corrects it once, so a midnight that a clock
change skips becomes an instant one hour off. `WithinHours` and `LatestEnd` are `withinHours`
and `latestEnd` of `saga.go`: minutes added to the instant of local midnight. `ShiftCovers`
compares minutes of the day at both ends as the SQL does, without dates and without seconds;
`Fits` is every predicate of the claim SQL but occupancy.

`Intake` follows one request: `GetDealerships`, `GetServiceTypes` and `GetVehicles` are the three
GETs of `Snapshot` in order, each with the answer of the Catalog handler (`ListDealerships`,
`ListServiceTypes`, `ListCustomerVehicles`) and its not-found branch; `CatalogDown` is every
failure of a GET (refused, timed out, another status, a body that does not parse); `CheckHours` is step 2, `Reserve` the choice of a
technician. Time passes between any two. Catalog has no operation that changes its tables, so they
are constants, with the CHECK constraints of its migration as assumptions. Occupancy is left to
`Allocator`: here the roster is idle.

### Migrate

`applied[d]` is what the committed files have done to database `d`, in order, `recorded[d]` the
rows of its `schema_migrations`, `run[r]` a run with its position and the flag of `main`. `Connect`
is everything before the loop, `Check` the SELECT EXISTS (with `skip`, and the return after the
last file), `Exec` the SQL of the file in a new transaction, `Record` the INSERT of its row, `Commit`
the commit; `Return` is the return to `main` and its next database or exit. `Fault` is every error
return (a COMMIT that reports an error may have taken effect), `Crash` the death of the process,
`Rerun` the next pod of the Job (`restartPolicy: Never` with the default back-off) or the next
`docker compose up`. Postgres is external: DDL and keyed INSERTs wait for a transaction that
has done the same and fail if it commits; a second INSERT of a primary key likewise. `Repeatable`
names the files whose SQL does not fail a second time. None of the present files is repeatable;
the run has one all the same, because only then does the order depend on the row in
`schema_migrations` alone. File names are well formed (`migrationFiles` accepts them) and sorted.

## 3. Runs

Passing runs:

| Run | Instance | Shows |
|---|---|---|
| `allocator_safety` | 3 calls, 2 technicians, requests that overlap on one and are back to back on the other, 3 attempts (the real `maxReserveAttempts`), clock 0..3, TTL 1; symmetry on calls | `TypeOK`, `NoOverlap`, `ExpiredHoldsDoNotRefuse` (1.3 million states) |
| `allocator_refinement` | 2 calls, requests for both or for one technician, 3 attempts, `FairSpec` | `RefinesLedger`, `ReserveAnswers`, `NoPermanentHold` |
| `booking_races` | a hold, a confirmer, a second confirmer or a cancel (or a call about an unknown id), and a cancel or a rival for the only technician and bay; sweeper, expiry, disconnects; no faults, no keys | `TypeOK` (also: no RPC without an id), `ConfirmedBacked`, `SweeperOnlyTouchesCancelled`, `NoDoubleBook`, `FailureFreesClaims`, `CancelledIsFinal` (about 2 minutes) |
| `booking_faults` | a hold, a confirmer with a key, one without or a cancel; two faults | `NoOrphanConfirmed`, `ConfirmedReplyIsPromoted` |
| `booking_keys` | one key, two bodies: a booking, or a first confirm of the second call's hold; a second booking with or without the key, or a hold; a confirm of it or a cancel. One call may be abandoned, and one RPC or statement fail or be in doubt | `BookedOncePerKey`, `ReplayMatches` (about a minute and a half) |
| `booking_liveness` | a hold or booking and a call about it; handlers may stop for good anywhere; two faults; `FairSpec` | `NoPermanentPin` |
| `intake` | every half hour of three days, seven shops in four zones (London loses an hour, Berlin gains one, Rio's change skips its midnight, Tokyo has none; one zone name is unknown; one shop closes half an hour before midnight on the day of 23 hours), technicians with short and long shifts, an absence, another zone; unknown dealership, service, customer, foreign vehicle; every GET may fail | `TypeOK`, `OnlyValidIsReserved`, `JobInOpeningHours`, `CeilingKeepsShift` |
| `migrate` | 2 overlapping runs, 2 databases with 3 and 2 files, two faults or crashes, `FairSpec` | `TypeOK`, `AppliedOnceInOrder`, `SuccessMeansMigrated`, `EventuallyMigrated` |

Runs that end in a violation, each a disagreement between the code and what the repository says:

- `booking_duplicate_confirm` (`NoDoubleBook`). A confirm whose Confirm RPC fails releases both
  occupations at once (`service.go:219`) without looking at the row. If its twin has already been
  promoted, the CONFIRMED appointment loses its technician and bay, and the next booking takes
  them. One failed RPC and a duplicated click are enough. Only the branch after a failed
  `Promote` re-reads the row.
- `booking_key_reuse` (`ConfirmedBacked`). The re-read does not close the race: a confirm that hits
  the unique index re-reads HELD, and another confirmer of the same hold promotes the row before the
  Releases arrive. No fault is needed.
- `booking_retry` (`SameRequestNeverConflicts`). A retry with the same key and body while the first
  attempt is in flight is answered 409 conflict; the API description promises a replay.
- `intake_midnight` (`ShiftCoversJob`). The shift test compares the minute of the day at which the job
  ends and not its date. A job that ends at local midnight ends at minute 0, which every shift
  covers: a technician who goes home at 16:00 gets a job from 16:00 to midnight. It takes a shop that
  closes at 1440, which the schema allows. `CeilingKeepsShift` shows that it happens only then (or
  where technician and shop are in different zones): `latest_end` keeps every other job within its day.

Also seen, and not given a run:

- `Cancel` keeps `idempotency_key` and `request_fingerprint` on the CANCELLED row, against "only on
  CONFIRMED" (`SYSTEM_DESIGN.md:179`), and `Release` leaves `hold_expires_at` set, against "set iff
  HELD" (`SYSTEM_DESIGN.md:148`). Every reader also tests the status, so nothing follows from either.
- After a clock change, opening and closing time are off by the change for the rest of that day,
  because minutes are added to the instant of midnight. `catalog.yaml` says "local minutes from midnight",
  which may mean either reading, so neither is claimed. `JobInOpeningHours` allows an earlier start where an
  hour is gained and a later end where one is lost, after the change and on its date (`Shifted`), and is exact
  everywhere else; each of its two tolerances is needed in the run.
- The shift SQL drops seconds: a job may end up to 59 seconds after the shift.

### Bounds and why they are enough

The races are between two or three parties on one row or one resource: a winner, a loser and,
where a slot must be seen to be taken twice, a rival. `booking_races` has four calls so that two
confirmers and a cancel, or a rival, can meet; the fourth call is not abandoned there. `SweepLimit` is 1 so that the limit is reached. Two faults let
a failed step meet a failed compensation. `MaxTime` 3 and `TTL` 1 let a hold expire before, during
and after each attempt of another call. `MayStop` names the calls that may be abandoned; in the
violation runs nobody is, to keep the traces short. Deadlock is not checked: when every call has
been answered and nothing is left to expire or to sweep, the system rests; so it does when a request
has its answer (`Intake`) or every run has succeeded (`Migrate`).

Three days hold the day before, of and after a clock change, and starts every half hour meet every
opening, closing and shift boundary of the instance exactly, and just before and after; some starts are not
on a full minute. Two runs suffice for `migrate` because a run only ever meets the others through
one transaction on the same file; three files in one database leave a file before and after the one
that fails.

`BookedOncePerKey` is about appointments and not about answers: it compares the key with which each was booked, or
with which its hold was confirmed, so it covers a booking whose caller never got its reply and who tries
again. `ReplayMatches` is about every 200: of a booking (the appointment has its key and its fingerprint, so
a hold that was confirmed with the key is never returned) and of a confirm (the appointment is the one the
request names, with that appointment's own fingerprint).

`booking_races` checks `ConfirmedBacked` and `NoDoubleBook` without failed RPCs and
without keys, because with them the properties are false: that is what the first two violation runs
show. It does include disconnects at any point and late RPCs of abandoned handlers.

### Fairness

`Allocator`: a running handler takes its next step (statements return or fail), the reaper's ticker
fires and its DELETE eventually succeeds, the clock advances. Nothing is assumed about Confirm and
Release. `Booking`: only the sweeper, the expiry of holds and the allocators' reapers are fair;
handlers may stop anywhere, and late RPCs may never arrive. The sweeper has no deadline on its
RPCs, so its fairness is an assumption about the network that the code does not enforce (listed as
a hazard). `Migrate`: a live run goes on (again, its statements have no deadline), and a run that failed
or died is repeated; the Job does so up to its back-off limit, which exceeds the faults of the run.

## 4. Proofs

| Theorem | States | Assumptions on the constants |
|---|---|---|
| `LedgerNoOverlap` | the abstract ledger never has two overlapping live claims on a resource | none |
| `AllocatorTypeCorrect`, `AllocatorNoOverlap` | the same of the allocator with racing handlers, and its typing | `RequestAssumption` (the fitting claims of a request start when it says), `NumberAssumption` |
| `AllocatorImplementsLedger` | `RefinesLedger`, so Booking may be verified on the ledger | the same |
| `AllocatorRefusals` | `ExpiredHoldsDoNotRefuse` | the same |
| `BookingTypeCorrect` | typing; no Confirm or Release without an id | `NilAssumption`, `ScriptAssumption`, `FitAssumption`, `BoundAssumption`: nil is no id, requests are well formed, fitting claims are claims |
| `BookingNoOrphan` | `NoOrphanConfirmed` | the same |
| `BookingSweeperSafe` | `SweeperOnlyTouchesCancelled` | the same |
| `BookingCancelledIsFinal` | `CancelledIsFinal` | the same |
| `BookingReplyTrue` | `ConfirmedReplyIsPromoted` | the same |
| `BookingOncePerKey` | `BookedOncePerKey` | the same |
| `BookingReplayMatches` | `ReplayMatches` | the same |
| `BookingUsesLedgers` | Booking implements `Ledger` twice: `Tech!Spec /\ Bay!Spec` | the same |
| `BookingNoOverlap` | in both ledgers no two live claims overlap, with every fault | the same |
| `BookingConfirmedBacked` | `ConfirmedBacked` | the same, `NoFaults` and `KeylessConfirms` |
| `BookingNoDoubleBook` | `NoDoubleBook` | the same, `NoFaults` and `KeylessConfirms` |
| `BookingFailureFrees` | `FailureFreesClaims` | the same and `NoFaults` |
| `MigrateTypeCorrect`, `MigrateOnceInOrder`, `MigrateSuccess` | `TypeOK`, `AppliedOnceInOrder`, `SuccessMeansMigrated` | `MigrateAssumption` |
| `IntakeTypeCorrect`, `IntakeOnlyValid` | `TypeOK`, `OnlyValidIsReserved` | `CatalogAssumption`, `ZoneAssumption`, `RosterAssumption`, `TimeAssumption`: the CHECK constraints of the tables, and no zone moves its clock by more than a day at once |
| `IntakeOpeningHours` | `JobInOpeningHours` | the same |
| `IntakeShift` | `CeilingKeepsShift` | the same |

`NoFaults` (`MaxFaults = 0`) says that no RPC and no statement fails and that the sweeper is not restarted;
handlers may still stop anywhere, and the RPC they had in flight may execute at any later time.
`KeylessConfirms` says that a confirm of a hold carries no Idempotency-Key; a booking without
a hold may carry one. Both are hypotheses of the theorems and not assumptions on the constants, because the code
enforces neither: without the first, `booking_duplicate_confirm` refutes `NoDoubleBook`; without the
second, `booking_key_reuse` refutes `ConfirmedBacked` with no fault at all. So they are what
these two promises need. All other theorems of Booking hold with faults, but for
`BookingFailureFrees`: a Release that failed leaves the claim to the sweeper or the reaper, and giving it back
is then the liveness property `NoPermanentPin`.

None depends on the size of a set, on the script of a call or on the number of faults.

**Allocator.** `NoOverlap` is not inductive alone: an `Insert` checks the claim that its handler
picked against the table, so the invariant must say that rows come from calls and carry a claim.
`AllocatorInv` is `TypeOK /\ RowsComeFromCalls /\ NoOverlap`. `TableStep` classifies what a step
does to the table (one fresh claim that passed the exclusion constraint, or changes that make
nothing live), and `NoOverlapStep` needs only that classification. The refinement is shown action by action
through `LedgerView`: time is `Lapse`, both DELETEs are `Reap`, `Insert` and the claim that
commits unseen are `Reserve`, `Confirm` and `Release` are themselves, and everything else stutters.

`ExpiredHoldsDoNotRefuse` counts: it compares the attempts a call has made with the rows it can have met.
Its invariant `RefusalInv` says of a call that has been accepted: either some rival (a row that
competes for one of its candidates) is confirmed or was valid when the call began, which lasts,
because an expiry only ever becomes NULL (`RivalLasts`); or there is an injection from the failed
attempts into rivals that are dead, or expired and about to be removed by the call's own DELETE. A new failed
attempt met a live row (`AttemptFails`); all rivals that were met before are dead by then
(`ReapClears`), so this one is new and the injection grows. A refusal after three attempts with no valid rival
therefore takes three different expired ones.

**Booking.** `NoOrphanConfirmed` says that a confirmed occupation has an appointment that names it.
Alone it says nothing about the RPCs that are still to execute, so the inductive invariant `BookInv`
adds, to the types:

- `RowInv`: an appointment names both its occupations until both are gone. Needed because only
  `ClearOccupationIDs` removes ids, and a Confirm may execute after it: it must find the occupation gone;
- `HandlerInv`: what a handler knows at each statement (before its INSERT it has no row; while it
  confirms, its ids are those of an existing row);
- `LateInv`: an RPC that Booking gave up on was allowed when it was sent, and still is (a Confirm
  is only sent for an id that an appointment has);
- `ClaimInv`: claims fit a request, which gives the bay a claim of the same interval;
- `SweepInv`: the rows of the current pass are CANCELLED, and `ok` means that the Releases so far
  have taken effect, which is what makes clearing the ids safe;
- `OwnerInv`: the appointment that names a confirmed occupation is that of the call that reserved it.

The step is proved per variable rather than per action: one lemma says what any step may do to
each ledger (`TechStep`, `BayStep`: entries are never un-claimed and gone is final), to the rows (`RowStep`:
insert, promote or expire, cancel, clear), to the handlers (`HandlerStep`), the late RPCs (`LateStep`) and the
sweeper (`SweepStep`), each by cases on the actions. The invariants of the table then follow
from these effects alone (`RowInvStep`).

**Replies and keys.** `ReplyInv` says what a handler has established when it is about to make each
statement. Its two notions are *settled* (the row is CONFIRMED or CANCELLED, which never goes back)
and *reached* (the row of a hold that exists, or a settled one: what another client can know the id of).
A handler that confirms works on a reached row or on its own; a booking or a confirm is only answered 201 of a settled one, also by
the re-Get after a Promote in doubt. `KeyInv` says that a confirmed appointment carries its own fingerprint (of its
body, or of the hold it was), a confirmed booking also its own key, and that the partial unique index holds.
The first part needs that whoever confirms a hold names it: a booking is only ever promoted by its own handler. A
repeated confirm that is answered 200 shows a row with that fingerprint (`ShowsOwn`), which lasts. Only
`Promote` writes keys, under that index, and nothing changes them afterwards (`KeyStep`), so all three theorems survive every fault.

**What a CONFIRMED appointment owns.** `BookingUsesLedgers` comes first: every step, late RPCs and the
sweeper included, does to each ledger what `Ledger` allows. With `AllocatorImplementsLedger` on the other
side, that is the whole contract between Booking and an allocator, and `NoOverlap` of both ledgers comes from it. `TechCause` and `BayCause` then say
who can be the cause of a change. The heart of `BackedInv` is *doomed*: an appointment
that is cancelled; or HELD with an occupation that has lapsed or is gone, or
with a booking handler (the only one that knows it) that has given up; or never inserted by
a call that is past its claims. A doomed appointment is never confirmed (`DoomedStays`), and every Release,
whether of a compensation, of a cancel or late from a handler that stopped, is for a doomed one (`ReleaserDoomed`). A
confirmer between its RPCs and its Promote keeps what it has confirmed, or the row has been cancelled.
Without `NoFaults` a Confirm that fails need not mean that the hold lapsed, and without
`KeylessConfirms` a Promote can fail on a row that another confirmer may still promote: in
both cases a Release is sent for an appointment that is not doomed, which is exactly the two
violation runs. `NoDoubleBook` follows from `ConfirmedBacked` and `NoOverlap`.

**Refusals of Booking.** `FreeInv` follows the claims of a call: nothing is claimed before the RPC that claims it,
the compensation works on the call's own ids, and a claim can only arrive late for a call that nobody answered.

**Migrate.** `RunOk` says what a run knows: the files before its position are applied; when it is about
to commit, nobody has recorded its file; unless something failed, the databases behind it are complete.
`OneCommit` is the primary key: two transactions never have both inserted one row. With these,
a commit appends the next file and no other (`MigrateStep`, by the ways a run can move).
That the blocking of Postgres makes `OneCommit` true is the external part of the model.

**Intake.** The invariant `IntakeInv` says what the handler has learnt after each GET. The two calendar theorems rest on the
lemma `WallClock`: for the rest of a day, counted from the instant that Go's `time.Date` gives for its midnight,
the wall clock shows the time since then, exactly, or, after a clock change on that date, off by the change. This holds for every zone with one change, in either
direction, also when the change skips midnight, provided that the change is at most a day (the largest on
record are the moves across the date line, of one day). The rest is arithmetic on minutes: where the shop
closes before midnight (by more than the day is short of 24 hours) the job ends on the day it began, so that comparing minutes without dates loses nothing.

What stays with TLC: the liveness properties `ReserveAnswers`, `NoPermanentHold`, `NoPermanentPin` and
`EventuallyMigrated` (the prover has no support for fairness), and the violations, which are counterexamples.
Every safety property that a passing run checks is stated by a theorem.

## 5. Not modelled

The Gateway (a proxy that keeps nothing between requests and adds a request id), generated gRPC code,
`GET /appointments/{id}` (read-only), the `cmd` mains (flags and wiring), deployment, the browser harness and the
tests. Parsing of the start time and of UUIDs is part of the 400 of `Arrive`. Five hazards have no property, each
with its reason in `PROJECT.json`: the cap of three attempts; the starvation of the sweeper's batch by rows
whose Release fails for ever; RPCs without a deadline; the CONFIRMED row whose occupations are released when the result
of its Promote and the re-Get are both lost, which the code accepts; and the reading of opening hours after a
clock change.

## 6. Plan

Done: all components that keep or decide something are modelled and checked, and every safety property of a
passing run is proved. What is left is to say more with proofs:

1. `Booking` with faults: what the promises become when an RPC fails. `ConfirmedBacked` for the appointments that
   only one call ever confirms, and `FailureFreesClaims` for what the sweeper will find.
2. A theorem that puts the allocator and Booking together: Booking over two copies of `Allocator` in the place of `Ledger`.
3. `Migrate`: the action property that nothing is ever un-applied.
