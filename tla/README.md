# CP Hub backend: verification

TLA+ models of the CP Hub backend, the TLC runs that check them and the theorems
TLAPS proves about them. The backend (FastAPI, SQLAlchemy, PostgreSQL) lets
students of an English school book classes: one-on-one lessons in the slots a
teacher offers, and batch classes of the group they belong to. The source is in
`src/app`, its migrations in `src/alembic`; every definition of the modules that
stands for code is listed in `PROJECT.json` under `map` with the lines it stands for.

## The system

There is one process type, the request: a route handler calls a service method
with a database session of its own, `DBSession` (`src/app/api/deps.py:10-15`).
The method reads rows, checks, changes ORM objects and commits once, unless said
otherwise below; an exception leaves the session uncommitted, which is a rollback.
Requests run concurrently and share nothing but the database. The isolation is
PostgreSQL's default, READ COMMITTED, so what a method has read may be stale when
it commits, unless it took the row with `SELECT ... FOR UPDATE`. There is one
command besides the requests, `generate-teacher-slots`
(`src/app/commands/generate_teacher_slots.py`), to be run from outside again and
again, and the migrations, run before the code that needs them.

| Component (`src/app/modules/...`) | State it keeps | Operations that write | What is hard |
|---|---|---|---|
| `bookings` | bookings, their audit trail | book (one-on-one, batch), cancel and reschedule (student, administrator), mark attendance (one booking, a class), add a student to a class | locks on booking, class and slot in differing orders; rows written only at the session's flush; checks with and without locks; 3 h and 24 h limits; two rows per rescheduling |
| `students` | program, status, access window | create, update (PATCH), switch program | PATCH without locks; a switch undoes bookings and membership |
| `student_access_grants` | grants | create a grant | moves the student's window, from a stale read of the student and of the package |
| `batch_groups` | groups, memberships | create, update, void, assign, transfer, generate classes | undoes the bookings and classes of others, without locks |
| `classes` | class sessions | create a batch class | overlap check without lock; the exclusion constraint of migration 0011 stands behind it |
| `schedules` | weekly rules, slots | create, update, delete rules; create (one, many, a block), update, delete slots; generate slots | two transactions per rule change; generation against bookings and edits |
| `packages` | packages: days, price, status | create, update, void | edited and voided between the steps of a grant |
| `student_payments`, `users`, `teachers` | reference rows | create, edit | nothing that interacts |
| `leads` | none: a mapped class without an operation or a migration | none | none |
| `src/alembic` | the schema and its version | `upgrade`, `downgrade` over fourteen revisions, a run in one transaction | statements that fail on what an earlier downgrade left; runs broken off |

How they interact: bookings read students, memberships, slots and classes, and
write slots and classes. A switch of program calls
`BookingService.cancel_future_bookings_for_student` and
`BatchGroupService.end_active_student_membership` in its own transaction; voiding
a group and transferring a student write bookings, events and classes directly.
Generation and the administrators' edits write the slots that bookings lock.
Grants read packages and write students. The services leave the races they do
not lock out to unique indexes, check constraints and an exclusion constraint,
which the migrations create.

What makes each part correct:

* bookings: no class has more students than seats; no student has two classes on
  one UTC day; a cancelled class has nobody booked into it; a class is completed
  exactly when all its attendance is taken; a slot is held exactly while a class
  holds it, by one class, and does not stay booked without one; the audit trail
  replays to the booking's status; a rescheduling moves one seat, atomically;
  concurrent requests have the effect of some order, and deadlock only where
  the code takes locks in opposite orders;
* enrolment: coming seats are in classes of the student's own group and program;
  an inactive group has no coming activity;
* access: a grant gives whole days; an extension follows the access there is, without a
  gap; the window is never inverted;
* availability: a teacher's slots do not overlap, unless a cancellation puts one back
  that was withdrawn; slots follow the rules in the end, whatever transaction is lost;
* timetable: a group's classes do not overlap, and the constraint refuses only
  requests that were overtaken;
* migrations: the schema is the one of its version, whichever way it was reached,
  and at the head it has what the code relies on.

## The modules

| Module | Models | Extends or uses |
|---|---|---|
| `Schema` | the tables, their row types and the queries shared | |
| `Bookings` | `BookingService`, one request at a time | `Schema`, `ClassRoster` and `SlotDiary` (refinements) |
| `ClassRoster` | abstract: who has a seat in which class | |
| `SlotDiary` | abstract: who has a class in which slot | |
| `ClassSeats` | the booking requests on batch classes, statement by statement, with row locks and commits | `ClassRoster` (refinement) |
| `SlotSeats` | the requests about a slot (one-on-one booking, cancellation, rescheduling, marking, the switch of a program, edit and deletion of the slot), flush by flush, with row locks and commits | `SlotDiary` (refinement) |
| `Enrolment` | `Bookings` composed with student updates, program switches, memberships and groups | `Bookings` |
| `AccessWindows` | grants and PATCHes, with the gap between read and commit, over packages that change | |
| `Availability` | rules, slots, generation, and the bookings that claim slots | |
| `BatchTimetable` | creation and generation of batch classes, voiding and reactivation of groups, the exclusion constraint | |
| `Migrations` | the fourteen revisions, both ways, as statements, and runs over them | |
| `BookingsSafety` | theorems about the tables, the bookings and the trails of `Bookings` | `Bookings`, TLAPS |
| `BookingsClasses` | theorems about its classes and slots, and the refinements | `BookingsSafety` |
| `EnrolmentSafety` | theorems about `Enrolment`, which cite the lemmas about the operators of `Bookings` | `Enrolment`, `BookingsClasses` |
| `AccessWindowsSafety`, `AvailabilitySafety`, `BatchTimetableSafety`, `ClassSeatsSafety`, `SlotSeatsSafety` | theorems about the module of the name | TLAPS |
| `MC...` | constants for TLC | the module of the name |

Reading guide, with the code beside it:

* A table is a function from keys to rows (`Schema`); a free key stands for a
  `uuid4`. Time is in hours, the unit of every limit in the code; a UTC day is 24
  of them.
* In `Bookings` and `Enrolment` a request is one step: what the handler does to
  its tables is an operator from tables to tables (`AddBooking`,
  `CancelExistingBooking`, `WithdrawBookings`, ...) and `Commit` stores the result.
  This is how one service calls another with `commit=False`. A check that raises is
  a guard: the transaction is rolled back and nothing happens.
* In `ClassSeats` a request is a list of statements (`LOCK`, `CLOCK`,
  `CHECK_DAY`, `TAKE_SEAT`, `CANCEL`, `MARK`, `COMPLETE`), each a step. A transaction keeps its own
  writes until its commit; statements see committed rows overlaid with those.
  A deadlock is broken by aborting one of the requests, as PostgreSQL does.
* In `SlotSeats` the rows a handler changes stay in its session and reach the
  database at the next query or commit, one UPDATE after the other (`FlushRow`),
  each waiting for its row's lock. The order of a flush is SQLAlchemy's and is left
  open, so that every order is covered. A status
  CANCELLED of the slot stands for BLOCKED as well, both being statuses from which no
  booking takes it. The row of a slot tells whether it was a booking that wrote BOOKED
  last or an edit, which may do so by hand (`BOOKED_BY_HAND`): the code does not tell
  them apart (`TakenStatuses`), `NoSlotStranded` does. The audit trail is left out.
* In `AccessWindows`, `Availability` and `BatchTimetable` a request is a step that
  reads and decides and a step that commits. The commit writes the columns whose
  value the handler changed, as SQLAlchemy's UPDATE does, over whatever others have
  committed in between. Generation reads twice and flushes in between
  (`ReadGeneratedSlots`, `ReadActiveSlots`); flushed rows stay locked. New classes get
  their keys in the commit (`Written`), which the exclusion constraint may refuse.
  Packages change between the two steps of a grant (`UpdatePackage`). In `Availability`
  a cancellation is two steps as well, `ReadSlotOfClass`, without a lock, and `CancelClass`:
  requests that edit, delete and generate slots come in between, and may withdraw the slot
  that is then put back on offer; `revived` remembers which slots that happened to.
* `LoseConnection` may end any of those requests before its commit. The change of
  a rule is one transaction, its generation the next: that is why it matters.
* In `Migrations` a revision is two sequences of statements, a run the
  concatenation of those between two versions. A statement that names something
  that is there already, or is not there, fails; a failing statement or a lost
  connection takes the whole run back. The one row kept is a batch class, the only
  kind of row that a statement of the revisions can refuse.

## The runs

Bounds are small sets of keys; `MC*.tla` says which hours and why. Where a bound
is not a CONSTANT of the code's own data it is named in the module: `MaxMarks`
(in `Bookings` the attendance events of a booking, in `ClassSeats` the seats one
class request marks), `MaxGrants`, the sets of keys (`BookingIds`, `SlotIds`, ...;
`OutOfKeys` marks where keys end in the liveness properties of `Availability`),
`MaxClasses` and one cancellation of each kind at a time for a slot (`Availability`).

| Run | Checks | Bounds, and what it shows |
|---|---|---|
| `bookings` | `TypeOK`, `CapacityRespected`, `OneActiveClassPerDay`, `SlotHeldByItsClass`, `CancelledClassHasNobodyBooked`, `CompletedWhenAttendanceTaken`, `AuditTrailReplays`, `RescheduleLinks`, `SlotReleasedWithItsClass`, `BookingLifecycle`, `ImplementsRoster`, `ImplementsDiary` | a batch student and a one-on-one student; batch classes at hours 48 (two seats) and 70 (one seat), one day, and 80 (another group); slots at 48 and 80; seen at hours 24, 25, 45, 48, 70: before, at and after each limit. Three bookings are a full class, a rescheduling and a second student, or a chain of two reschedulings |
| `empty_class` | violation of `EmptyClassIsEmpty` | finding below |
| `class_seats` | `CapacityRespected`, `CancelledClassHasNobodyBooked`, `CompletedWhenAttendanceTaken`, `NoLostUpdate`, `ImplementsRoster` | two requests of any kinds interleaved statement by statement; two students, two classes (two seats and one) on two days, which start one after the other, two bookings: every race needs two requests and one shared row |
| `class_seats_liveness` | `RequestsFinish` | bookings, reschedulings both ways and class attendance, which take locks in opposite orders, still end. A class request marks one seat here, which is enough to meet a booking from the other side |
| `class_seats_one_day` | violation of `OneActiveClassPerDay` | finding |
| `slot_seats` | `OneLiveClassPerSlot`, `CancelledWithItsBooking`, `NoSlotStranded`, `DeadlocksHaveACause`, `ImplementsDiary` | two requests of any kinds, two students, one slot, three bookings: booked, given back and booked again while a stale request still holds what it read. A rescheduling moves between a slot and itself; two slots with all kinds of request are out of TLC's reach, so a move from one slot to another, and the deadlock of two such moves, are covered by the proofs and, served serially, the move by `bookings`. A slot starts on offer; edits then put it on any status |
| `enrolment` | `FutureSeatsBelongToMembers`, `InactiveGroupHasNoFutureActivity`, `CancelledClassHasNobodyBooked`, `SlotHeldByItsClass`, `AuditTrailReplays` | switches, transfers and voiding among bookings: one student, two groups with a class each (hours 48 and 75), a slot at 100, seen at 24, 49, 90 |
| `access_serial` | `GrantsCountWholeDays`, `WindowValid`, `ExtensionFollowsAccess` | requests one at a time over a package that is edited and voided; datetimes at, before and after midnight, one and two days, two grants |
| `slots_one_admin` | `OnlyRevivedSlotsOverlap` | one administrator with a rule and two slots, students booking, cancellations and a switch that read the slot long before they write it, lost connections |
| `slots_rules` | `RuleEventuallyCovered`, `StaleSlotsWithdrawn` | a rule created and changed between two shapes while its slots are booked and released and transactions are lost; four slots; the generation window of 14 days moves by more than a week |
| `timetable_two_admins` | `TypeOK`, `RefusedOnlyWhenOvertaken` | two administrators over one group and three classes; templates from 22 to 2 and from 1 to 3 on two consecutive days meet over midnight, within a generation and between requests |
| `migrations` | `SchemaFollowsVersion`, `RunsFailOnUngroupedClassesOnly`, `HeadServesTheCode` | all runs between any two of the fourteen versions, one after the other, broken off anywhere; no bound |

`CHECK_DEADLOCK FALSE` is set in `bookings`, `empty_class` and `enrolment` only,
whose clock and keys run out: a school with nothing left to book is no error. In
`class_seats` and `slot_seats` a deadlock of the model would be one of the code.

Some properties hold when requests come one after the other and fail when two
overlap. `OneActiveClassPerDay` is one: `bookings` checks it of serial requests and
`class_seats_one_day` violates it. The same is what TLC answers of `WindowValid`,
`ExtensionFollowsAccess` and `OnlyRevivedSlotsOverlap` when `Workers` has two elements:
nothing locks the student or the teacher's calendar. Those runs have one worker,
beside bookings, cancellations, ticks, package edits and lost connections, and hold
only for a school with one administrator at work at a time. That a group's classes never
overlap does hold of two, but by the exclusion constraint alone, which `Commit` tests
as the database does; what is left to check of the services is `RefusedOnlyWhenOvertaken`.

### Findings

Each is a run that violates one property; `PROJECT.json` quotes the line that
states it.

1. `empty_class`: a class in which a student has been marked is cancelled "as
   empty" when the last unmarked booking goes.
2. `class_seats_one_day`: two requests give one student two classes on one day.

Noticed while modelling, where the repository states nothing that a run could
hold the code to (the hazards in `PROJECT.json` give the lines):

* generation lays a slot over one in progress;
* a cancellation puts a slot back on offer over another one, even with one
  administrator. A deletion reads a slot as available; a student books it, and cancels:
  the cancellation reads it booked, without a lock; the deletion commits; the administrator
  moves another slot to that time, where the check finds nothing; the cancellation
  commits AVAILABLE, and then the edit. The plain statement, that coming slots never
  overlap, therefore fails after eleven steps on the instance of `slots_one_admin`; `OnlyRevivedSlotsOverlap`
  says that there is no other way;
* an edit of a slot to BOOKED by hand leaves it booked with nobody's class in it,
  and no request of a student ever puts it back on offer;
* a slot can be deleted while it is being booked, and its class goes on without it;
* a booking checks the student's program before it waits for the slot, so a
  switch that is committed meanwhile leaves a batch student a one-on-one class;
* a class that is created while its group is voided stays, to come, in an inactive
  group;
* a PATCH of the program leaves the membership behind;
* extending access moves the start of the window to the end of the current access:
  what is left of it cannot be used, since `bookings/service.py:667-674` refuses a
  booking before the start (`ExtensionFollowsAccess` says where the new days are);
* the slots of a deleted rule stay on offer when the second transaction is lost;
* two administrators at once lose an extension, invert a window, or leave
  overlapping slots.

### Fairness

* `ClassSeats!Fairness`: a statement that can run infinitely often runs (strong
  fairness of `Execute`: PostgreSQL queues the waiters of a row lock, so none is
  passed over for ever), and a deadlock is detected (weak fairness of
  `AbortDeadlocked`, `deadlock_timeout`). Nothing is assumed about new requests.
* `Availability!FairSpec`: a request ends, by its next step or by losing its
  connection; the command is run again and again, and of the runs that reach a
  step some take it. The second part is an assumption on the deployment, which
  the repository leaves to whoever schedules the command; without it a rule whose
  second transaction is lost has no slots.
* `SlotSeats` states none: `DeadlocksHaveACause` says of every state who can be in a
  deadlock, with the locks and not with ENABLED, so that it can be proved.

## What is proved

TLAPS proves each theorem for every value of the constants that satisfies the
assumptions; the run of the same property shows it on an instance.

| Module | Theorem | Property |
|---|---|---|
| `BookingsSafety` | `TypeCorrect` | `TypeOK` |
| | `NeverOverbooked` | `CapacityRespected` |
| | `OneClassADay` | `OneActiveClassPerDay` |
| | `BookingsOnlyMoveOn` | `BookingLifecycle` |
| | `TrailTellsTheStory` | `AuditTrailReplays` |
| | `LinksNeverBreak` | `RescheduleLinks` |
| `BookingsClasses` | `NobodyBookedIntoCancelled` | `CancelledClassHasNobodyBooked` |
| | `CompletedWithAttendance` | `CompletedWhenAttendanceTaken` |
| | `RosterPromiseKept` | `ImplementsRoster` |
| | `SlotsFollowClasses` | `SlotHeldByItsClass` |
| | `SlotsReleasedWithTheirClass` | `SlotReleasedWithItsClass` |
| | `SlotPromiseKept` | `ImplementsDiary` |
| `EnrolmentSafety` | `EnrolmentTypeCorrect` (no run checks it) | `EnrolmentTypeOK` |
| | `SeatsBelongToMembers` | `FutureSeatsBelongToMembers` |
| | `InactiveGroupsAreQuiet` | `InactiveGroupHasNoFutureActivity` |
| | `NobodyLeftBookedByChanges` | `CancelledClassHasNobodyBooked` |
| | `ChangesKeepSlotsWithClasses` | `SlotHeldByItsClass` |
| | `ChangesAreOnTheTrail` | `AuditTrailReplays` |
| | `ChangesKeepClassesInOrder` | `CapacityRespected`, `OneActiveClassPerDay`, `CompletedWhenAttendanceTaken` |
| | `ChangesOnlyCancel` | `BookingLifecycle` |
| | `ChangesBreakNoLink` | `RescheduleLinks` |
| | `ChangesReleaseSlotsRightly` | `SlotReleasedWithItsClass` |
| | `ChangesKeepTheDiary` | `ImplementsDiary` |
| `AccessWindowsSafety` | `TypesCorrect` (no run checks it) | `TypeOK` |
| | `GrantsAreWholeDays` | `GrantsCountWholeDays` |
| | `WindowStaysValid` (one worker) | `WindowValid` |
| | `ExtensionsFollow` (one worker) | `ExtensionFollowsAccess` |
| `AvailabilitySafety` | `RevivedSlotsAloneOverlap` (one worker) | `OnlyRevivedSlotsOverlap` |
| `BatchTimetableSafety` | `TypesCorrect` | `TypeOK` |
| | `ChecksCoverTheConstraint` | `RefusedOnlyWhenOvertaken` |
| `ClassSeatsSafety` | `NeverOverbooked` | `CapacityRespected` |
| | `CancelledClassEmpty` | `CancelledClassHasNobodyBooked` |
| | `CompletedWithAttendance` | `CompletedWhenAttendanceTaken` |
| | `NothingLost` | `NoLostUpdate` |
| | `RosterPromiseKept` | `ImplementsRoster` |
| | `OneSeatPerStudent` (no run states it alone) | |
| | `DeadlockCauses` (checked apart with TLC) | `DeadlocksHaveACause` |
| `SlotSeatsSafety` | `OneRequestGetsTheSlot` | `OneLiveClassPerSlot` |
| | `ClassGoesWithItsBooking` | `CancelledWithItsBooking` |
| | `NoComingSlotIsStranded` | `NoSlotStranded` |
| | `DiaryPromiseKept` | `ImplementsDiary` |
| | `DeadlockCauses` | `DeadlocksHaveACause` |

**Bookings.** The theorems hold for every set of students, groups, slots, classes
and instants, any finite set of booking keys, and whatever tables the other services
have stored at the start. They rest on the assumptions of `Schema` and `Bookings`
(`InstantsAssumption`, `KeysAssumption`, `InitialTablesAssumption`): the rows stored
at the start have the shape of the check constraints, no slot is booked yet, every
class is a batch class that is scheduled. TLC evaluates them in every run of `Bookings`.

`TypeOK` alone is not inductive: nothing in it says that the class of
a booking exists, or that the slot of a one-on-one class does, and every handler
follows those keys. `WellTyped` adds that, for any record of tables, so that each
operator of `Bookings` can have a lemma of its own (`AddBookingTyped`,
`CancelExistingBookingTyped`, `MarkBookingsTyped`, ...): well-typed tables in,
well-typed tables out. A request is a composition of operators, and its case of
`NextTyped` a composition of lemmas. For capacity and days the invariant is `Safe`,
the types with the two properties stated of a record of tables. Requests that create
no row only move statuses forward (`Continues`), which no upper bound on active
bookings can notice (`ContinuesCapacity`, `ContinuesOneClassPerDay`); the two
operators that create a booking carry the checks that make room for it
(`AddBookingCapacity`, `AddBookingOneClassPerDay`), and after a cancellation within
the same request they meet tables that are `Safe` again. Cardinalities are handled
with the library's `FiniteSetTheorems`.

`Told` adds to `Safe` what a class's status tells of its bookings (`StatusesTell`):
a cancelled class has no booked one, and a class is completed if and only if it has
active bookings and all are marked. It is inductive because each handler that
changes a booking ends by looking at its class. `Held` adds to `Told` that a live
one-on-one class holds its slot alone and that a coming booked slot has such a class
(`HeldIn`); it needs `Told` because a slot is given back when the class of
a booking is cancelled, and it is there that a class with nobody left is.

The refinement: `RosterOf` is the roster of a record of tables, and each operator of
`Bookings` is shown to do to it what a step of `ClassRoster` does (`AddBookingSeats`,
`AddOneOnOneBookingSeats`, `CancelExistingBookingUnseats`, `AttendanceTakenCompletes`),
so that a rescheduling is a `Move` because it is a cancellation and a creation. A roster
holds students, the tables hold bookings: a cancellation takes the student out of the
roster only because the student has no other active booking for the class
(`OneBookingPerSeat`, from one class a day in `Safe`), and the class it leaves is
scheduled only by `Told`.

`SlotDiary` is implemented in the same way, from `Held`: the diary of a record of tables
says of each slot whose bookings are kept of its live class. That it is never two
students' is `OneHolder`: one live class (`Held`), one seat (its capacity), so that a
manual addition to a one-on-one class finds it full (`AddBookingKeepsDiary`). A
rescheduling frees one slot and takes another in the same commit
(`CancelExistingBookingGivesUp`, `AddOneOnOneBookingTakes`), and onto the slot it came
from it changes nothing.

The trails need no more than the types. `TrailsReplay` says that each trail leads to
the status of its row, and `TrailContinues` that an event which applies to that status
takes the trail to the next: an induction over steps, with no recursion over the
trail. `Linked` adds both directions of `RescheduleLinks`; a booking gets no second
replacement because one that has been replaced is cancelled, and only a booked one can
be moved (`LinkMade`). All properties of the run `bookings` are proved.

**Enrolment.** It adds no constants to those of `Bookings`. The changes an administrator makes undo bookings without
the checks of `BookingService`, and still every invariant proved of `Bookings` holds
under `EnrolmentSpec`. The reason is what they undo: bookings that are to come and
still booked, together with the slots and classes they held. `Undone` says that of two
tables, for some withdrawn bookings, closed classes and released slots, and `GoTogether`
that these belong together; each change of an administrator is such a step, and each
such step keeps `Held` and `TrailsReplay`. The invariant, `Enrolled`, adds to these two that a
coming booked seat has no mark (`UnmarkedToCome`: attendance waits for the start), that
it is a member's (`SeatsBelong`), and that an inactive group has nothing to come
(`GroupsQuiet`). Booking never looks at the status of the group: a voided group stays
quiet because its coming classes were cancelled with it, and only a scheduled class
takes anybody in, an administrator's manual addition included.

What a step may do follows from `Undone` as well (`ChangeUndoes`): every step of
`Enrolment` is one of `Bookings`, leaves the tables alone, or undoes the future of
students of whom at most one has one-on-one classes (`OfOneStudent`: a switch is of one
student, a transfer and a voided group are about batch classes). So bookings only get
cancelled (`UndoneMovesOn`), the links of reschedulings stay (`UndoneLinks`: no trail
gains or loses a RESCHEDULED event), slots are freed with their classes (`UndoneReleases`),
and the diary sees one student give up slots (`UndoneGivesUp`). With this, every
property proved of `Bookings` holds of `Enrolment`, but for `ImplementsRoster`, which
it does not have: a voided group takes many students out of their classes in one step.

**AccessWindows.** `WindowsAssumption`: instants and datetimes are hours, a grant is for
at least a day. For any number of workers `WellTyped` and `GrantsWhole` (every grant,
recorded or decided on, runs between midnights, but for its start) are inductive: a
grant is computed from what one request has read and is written as it is.
`WindowStaysValid` and `ExtensionsFollow` assume `\A v, w \in Workers : v = w`; their
invariant, `Serial`, adds `UpToDate`: what the request in progress has read is what is
stored, so that its UPDATE by columns makes the row it checked.

**Availability.** `AvailabilityAssumption`: rules and windows end after they begin,
instants are hours, and there are finitely many keys for rules. Any rules, any slots,
one worker (`\A v, w \in Workers : v = w`), whose request is still not alone: between
what it reads and its commit, slots are booked, cancellations read them and put them
back, and time passes. `OnlyRevivedSlotsOverlap` is not inductive because a commit
writes columns decided on earlier. The argument is about the slots that no
cancellation has revived (`Steady`): `Coherent` says of the request in progress that
neither the window of such a slot nor whether it is cancelled is other than it read
(`ReadAsIs`, kept by bookings and cancellations: `StandingStill`), and that those slots as it
will leave them (`Target`) and the slots it will insert are apart (`TargetsDisjoint`,
`InsertsDisjoint`). A cancellation that commits either leaves its slot active, or revives
it and takes it out of the argument. An UPDATE of the changed columns makes the target whatever the
booking status is by then (`UpdatedTargets`). Generation looks only at the slots from now to the end
of the fourteenth day; that is enough because a window it asks for ends on that day
at the latest (`ExpectedWindows`), so later slots cannot be in its way, and
earlier ones have started, which is why the theorem is about coming slots.

**BatchTimetable.** `TimetableAssumption`: the windows asked for end after they begin, and
no template ends when it begins. Any number of workers. The invariant is `TypeOK`, the
type of the requests in progress, and `RefusedOnlyWhenOvertaken` itself: it is inductive
because classes are never moved nor brought back (`Continues`), so what a
request saw to be free stays free of what it saw.

**ClassSeats.** `SeatsAssumption`: finitely many keys and workers, every class has a seat,
and the keys of classes and bookings differ. Any number of workers, classes and
students. None of the properties is inductive, for a step of one transaction can break
them only through what another has in flight. `IInv` says so for each transaction
(`Keeps`): the statements it has still to do come after the locks they need
(`Planned`); what it has written it has locked, or inserted under the lock of the class,
and only coming seats and classes were changed (`Wrote`); every class it has locked is,
with its own writes, as a committed one has to be, but for the statement that
completes it (`Views`). Two transactions never write the same booking (`Apart`).
A statement disturbs its own transaction only (`StatementKeeps`, with
`BookingWrite` for those that write a booking), a commit only rows that no other
has locked (`CommitChanges`, `OthersKeep`), and a class that gets locked has no write of
its new owner yet, so it is seen as committed (`NewlyLocked`). This is the argument for
the code's rule that whatever concerns a class is counted and written under its lock.

That `ClassSeats` implements `ClassRoster` takes a second invariant over `IInv`, `RInv`,
because a request that is half done would not be a step of the roster. For each
transaction, `Plays` compares the tables it would commit with the committed ones: they
have the same roster (`OthersSame` of no class), or its student has left a
class (`Left`), or joined one, moved, or completed one (`Joined`, `Moved`, `Completed`);
a class that has been left may only be followed by the statements that take another
seat, and the other three only by the commit (`Effect`, from the order of the
statements, `Order`). The classes it did this to are locked (`Mine`), so another's commit
changes neither side of the comparison (`OthersPlay`). The student that a cancellation
takes off the roster is gone, and the one a new booking puts there is new, since no two
active bookings of a class are one student's (`OneSeatEach`); `OneSeatPerStudent` states
this for every reachable state. Between classes of one day it is not so, as the run
`class_seats_one_day` shows.

Who can be in a deadlock takes a third invariant, `InLockOrder`:
a request that neither reschedules nor marks a class locks its booking and then its
class, and asks for nothing more once it has the class (`BookingBeforeClass`,
`HoldsLess`). Such requests, waiting for each other, hold no class, so each must be
waiting for a booking; but a request that holds a booking and waits waits for a class
(`DeadlockCauses`). TLC agrees on both sides: without those two kinds it finds no
deadlock, with either it does.

**SlotSeats.** `SlotSeatsAssumption`: finitely many workers and booking keys, and `None` is no
key. Any number of workers, students and slots. A switch, a release of a slot and
an administrator's edit write what they have read without a lock, so it is not true,
as it is in `ClassSeats`, that rows do not change between being read and being written.
`IInv` says of each transaction what is true instead (`Keeps`): its rows are a
table in which each class comes with its booking, both cancelled or neither
(`WellFormed`); a class it inserts is the only live one of a slot it has locked,
and a class it changes keeps its slot and is cancelled, unless it is live and locked
(`Wrote`); before it may commit that a live class is cancelled, it has locked the
class and then looked at the slot, which is in its writes unless it has started or
was not booked (`GivesBack`, `SlotSeenTo`). An unlocked write can then only cancel a
class, or put a slot on a status that is not BOOKED, which no property forbids, and
a lost release of a slot is impossible because nobody else can book the slot for
another class while the class that is being cancelled is live. The commit is the
one step that disturbs others (`Committed`, `OthersKeep`): it changes only rows it
has locked, and inserts classes only under a lock that no other insert can hold.

That `SlotSeats` implements `SlotDiary` takes a second invariant, `DInv`: the bookings a
transaction withdraws or creates are all of one student. A commit is then one
student's step (`CommitIsDiaryStep`): slots given up, a free one taken, or a move, of which
`IInv` says that the slot taken has no other live class. A switch that overtakes a
cancellation withdraws what is cancelled already, and the diary does not move. A third
invariant, `LockOrder`, gives `DeadlocksHaveACause`. It says of each stage of a request
what it has locked and which of the rows it has written it has still to lock
(`InOrder`): a request that is no switch takes its booking, then its class, then one
slot, whatever the order of a flush, because it has locked the booking and the class
when it writes them and only the slot is left for a flush to lock. A worker that waits for
another in a deadlock without a switch and without two reschedulings would have to
wait for a row that comes before one that the other holds, all the way round. A
rescheduling is the exception: it locks the slot it moves to when its old slot, sent by
the query before, is locked already.

Only model-checked: the liveness properties (`RequestsFinish`, `RuleEventuallyCovered`,
`StaleSlotsWithdrawn`; liveness under fairness is out of the prover's reach), and
`Migrations`, which has no constants, so that TLC's run covers all there is and a proof
would add nothing. Every other property of a passing run is proved.

## Not modelled

* `student_payments`, `users`, `teachers`: rows that are created and
  edited one at a time; others read them to see that they exist. `leads` is empty.
* Prices and names of packages; the creation of students, groups and packages, which
  the initial states stand for; the uniqueness of the names of active groups.
* Pagination, formatting, routing and configuration; the actor, reason and metadata
  of events; notes, and the history of program changes.
* Columns in the migrations, but for the one that comes and goes, and rows other than a
  batch class.
* `created_at` and therefore the order in which events are listed: the trail here
  is in the order of commits.
* Minutes and seconds: hours are the unit of every limit.
* The interleaving of transfers and voiding with bookings, which `Enrolment` has
  serially, and of two updates of one rule (the hazards in `PROJECT.json` name them).

## Plan

Done, in this order: `Schema`, `Bookings`, `ClassRoster`, `ClassSeats`,
`BookingsSafety`, `Enrolment`, `AccessWindows`, `Availability`, `BatchTimetable`,
`SlotSeats`, `Migrations`, `BookingsClasses`, `AccessWindowsSafety`,
`BatchTimetableSafety`, `ClassSeatsSafety`, `EnrolmentSafety`, `SlotSeatsSafety`,
`AvailabilitySafety`, `SlotDiary`.

Next, by importance:

1. The statements of transfers and voiding beside bookings, in `ClassSeats`: seats
   kept in a group left, seats in a class that is voided meanwhile.
2. An abstract calendar, "a time is offered, held or gone", around `SlotDiary`, that the
   serial `Availability` implements as well.
3. Runs of `AccessWindows` and `Availability` with two administrators, and the
   statements that a class keeps its slot and that an extension keeps the access left.

Theorems to prove next: what `AccessWindows` and `Availability` keep when several
administrators work at once, of which the runs have one.
