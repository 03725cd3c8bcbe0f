------------------------------ MODULE Bookings ------------------------------
(***************************************************************************)
(* BookingService: booking, cancelling, rescheduling, attendance and the    *)
(* administrator's manual additions, each request one transaction.         *)
(* Requests are served one after the other here; module ClassSeats           *)
(* interleaves them statement by statement.                                 *)
(***************************************************************************)
EXTENDS Schema

CONSTANTS
  InitialStudents, InitialMemberships,  \* what other services have stored
  InitialSlots, InitialSessions,
  MaxMarks          \* bound: attendance events recorded for one booking

ASSUME InitialTablesAssumption ==
  /\ InitialStudents \in [StudentIds -> Student]
  /\ InitialMemberships \in [StudentIds -> GroupIds \cup {None}]
  /\ InitialSlots \in [SlotIds -> Slot]
  /\ \A slot \in SlotIds : InitialSlots[slot].status # "BOOKED"
  /\ DOMAIN InitialSessions \subseteq SessionIds
  /\ InitialSessions \in [DOMAIN InitialSessions -> BatchSession]
  /\ \A s \in DOMAIN InitialSessions : InitialSessions[s].status = "SCHEDULED"

vars == <<now, students, memberships, slots, sessions, bookings, events>>

(* Nobody has booked yet; the batch sessions of the groups are scheduled. *)
Init ==
  /\ now \in Instants
  /\ students = InitialStudents
  /\ memberships = InitialMemberships
  /\ slots = InitialSlots
  /\ sessions = InitialSessions
  /\ bookings = EmptyTable
  /\ events = EmptyTable

BATCH_BOOKING_CLOSES_BEFORE_START == 3
STUDENT_BOOKING_CHANGE_CUTOFF == 24

-----------------------------------------------------------------------------
(* Checks. *)

HasActiveAccess(st) ==
  /\ students[st].active
  /\ students[st].accessStartsAt <= now
  /\ now < students[st].accessEndsAt

CanBook(st, program) ==
  /\ students[st].program = program
  /\ HasActiveAccess(st)

(* Mutant: a class whose attendance has been marked does not count. *)
NoBookedClassOnDay(db, st, startsAt) ==
  \A b \in ActiveClassesOf(db.bookings, db.sessions, st) :
    db.bookings[b].status = "BOOKED" =>
      Day(db.sessions[db.bookings[b].session].startsAt) # Day(startsAt)

NoActiveClassOnDay(db, st, startsAt) ==
  \A b \in ActiveClassesOf(db.bookings, db.sessions, st) :
    Day(db.sessions[db.bookings[b].session].startsAt) # Day(startsAt)

NoActiveBookingForClass(db, st, s) ==
  \A b \in ActiveBookingsOf(db.bookings, s) : db.bookings[b].student # st

(* Mutant: off by one. *)
CapacityNotExceeded(db, s) ==
  Cardinality(ActiveBookingsOf(db.bookings, s)) <= db.sessions[s].capacity

CapacityAvailable(db, s) ==
  Cardinality(ActiveBookingsOf(db.bookings, s)) < db.sessions[s].capacity

CanChangeBooking(b) ==
  LET startsAt == sessions[bookings[b].session].startsAt IN
    /\ startsAt > now
    /\ startsAt - now >= STUDENT_BOOKING_CHANGE_CUTOFF

(* Mutant: the booking's status is not looked at. *)
CanMarkClass(b) ==
  LET s == bookings[b].session IN
    sessions[s].status # "CANCELLED" /\ sessions[s].startsAt <= now

CanMarkAttendance(b) ==
  LET s == bookings[b].session IN
    /\ bookings[b].status # "CANCELLED"
    /\ sessions[s].status # "CANCELLED"
    /\ sessions[s].startsAt <= now

-----------------------------------------------------------------------------
(* Creating bookings. *)

(* Mutant: the event is forgotten. *)
AddBookingOnly(db, st, s, event) ==
  LET b == NewKey(BookingIds, db.bookings) IN
    [db EXCEPT
       !.bookings = Insert(@, b, [student |-> st, session |-> s, status |-> "BOOKED"])]

AddBooking(db, st, s, event) ==
  LET b == NewKey(BookingIds, db.bookings) IN
    [db EXCEPT
       !.bookings = Insert(@, b, [student |-> st, session |-> s, status |-> "BOOKED"]),
       !.events = Insert(@, b, <<event>>)]

CanCreateBatchBooking(db, st, s) ==
  /\ CanBook(st, "BATCH")
  /\ db.sessions[s].program = "BATCH"
  /\ memberships[st] # None
  /\ memberships[st] = db.sessions[s].group
  /\ db.sessions[s].status = "SCHEDULED"
  /\ db.sessions[s].startsAt > now
  /\ db.sessions[s].startsAt - now > BATCH_BOOKING_CLOSES_BEFORE_START
  /\ NoActiveClassOnDay(db, st, db.sessions[s].startsAt)
  /\ CapacityAvailable(db, s)
  /\ HasNewKey(BookingIds, db.bookings)

CanCreateOneOnOneBooking(db, st, slot) ==
  /\ CanBook(st, "ONE_ON_ONE")
  /\ db.slots[slot].status = "AVAILABLE"
  /\ db.slots[slot].startsAt > now
  /\ NoActiveClassOnDay(db, st, db.slots[slot].startsAt)
  /\ LiveSessionsOf(db.sessions, slot) = {}
  /\ HasNewKey(BookingIds, db.bookings)
  /\ HasNewKey(SessionIds, db.sessions)

(* The slot becomes a class of its own: a session for one student. *)
ClaimSlot(db, slot) ==
  [db EXCEPT
     !.sessions = Insert(@, NewKey(SessionIds, @),
       [program |-> "ONE_ON_ONE", slot |-> slot, group |-> None,
        startsAt |-> db.slots[slot].startsAt, status |-> "SCHEDULED", capacity |-> 1]),
     !.slots[slot].status = "BOOKED"]

AddOneOnOneBooking(db, st, slot, event) ==
  AddBooking(ClaimSlot(db, slot), st, NewKey(SessionIds, db.sessions), event)

CreateBatchBooking(st, s) ==
  /\ CanCreateBatchBooking(Tables, st, s)
  /\ Commit(AddBooking(Tables, st, s, Event("BOOKED")))
  /\ UNCHANGED <<now, students, memberships>>

CreateOneOnOneBooking(st, slot) ==
  /\ CanCreateOneOnOneBooking(Tables, st, slot)
  /\ Commit(AddOneOnOneBooking(Tables, st, slot, Event("BOOKED")))
  /\ UNCHANGED <<now, students, memberships>>

(* Mutant: a class that is over is not refused. *)
AdminAddStudentToAnyClass(st, s) ==
  /\ HasActiveAccess(st)
  /\ NoActiveBookingForClass(Tables, st, s)
  /\ NoActiveClassOnDay(Tables, st, sessions[s].startsAt)
  /\ CapacityAvailable(Tables, s)
  /\ HasNewKey(BookingIds, bookings)
  /\ Commit(AddBooking(Tables, st, s, Event("MANUALLY_ADDED_BY_ADMIN")))
  /\ UNCHANGED <<now, students, memberships>>

(* Any program may be added, and to a class that has started. *)
AdminAddStudentToClass(st, s) ==
  /\ HasActiveAccess(st)
  /\ sessions[s].status = "SCHEDULED"
  /\ NoActiveBookingForClass(Tables, st, s)
  /\ NoActiveClassOnDay(Tables, st, sessions[s].startsAt)
  /\ CapacityAvailable(Tables, s)
  /\ HasNewKey(BookingIds, bookings)
  /\ Commit(AddBooking(Tables, st, s, Event("MANUALLY_ADDED_BY_ADMIN")))
  /\ UNCHANGED <<now, students, memberships>>

-----------------------------------------------------------------------------
(* Cancelling bookings. *)

(* Mutant: every class goes with its booking. *)
ClosesAnyClass(db, b) == db.sessions[db.bookings[b].session].status = "SCHEDULED"

(* A one-on-one class goes with its booking; a batch class only when nobody
   is booked into it any more. *)
ClosesClass(db, b) ==
  LET s == db.bookings[b].session IN
    /\ db.sessions[s].status = "SCHEDULED"
    /\ \/ db.sessions[s].program = "ONE_ON_ONE"
       \/ BookedBookingsOf(db.bookings, s) = {b}

(* Mutants: the slot is offered again after its start, or only when the student
   could still have cancelled. *)
ReleasesStartedSlot(db, b) ==
  LET s == db.sessions[db.bookings[b].session] IN
    s.program = "ONE_ON_ONE" /\ db.slots[s.slot].status = "BOOKED"
ReleasesSlotBeforeCutoff(db, b) ==
  LET s == db.sessions[db.bookings[b].session] IN
    /\ s.program = "ONE_ON_ONE"
    /\ s.startsAt - now >= STUDENT_BOOKING_CHANGE_CUTOFF
    /\ db.slots[s.slot].status = "BOOKED"

(* The slot of a one-on-one class is offered again unless it has started. *)
ReleasesSlot(db, b) ==
  LET s == db.sessions[db.bookings[b].session] IN
    /\ s.program = "ONE_ON_ONE"
    /\ s.startsAt > now
    /\ db.slots[s.slot].status = "BOOKED"

CancelEvents(db, b, type) ==
  IF ClosesClass(db, b) /\ db.sessions[db.bookings[b].session].program = "BATCH"
  THEN <<Event(type), Event("CLASS_CANCELLED_EMPTY")>>
  ELSE <<Event(type)>>

(* The tables after booking b, which is BOOKED, is cancelled. *)
CancelExistingBooking(db, b, type) ==
  LET s == db.bookings[b].session
      slot == db.sessions[s].slot
  IN [bookings |-> [db.bookings EXCEPT ![b].status = "CANCELLED"],
      sessions |-> IF ClosesClass(db, b)
                   THEN [db.sessions EXCEPT ![s].status = "CANCELLED"]
                   ELSE db.sessions,
      slots |-> IF ReleasesSlot(db, b)
                THEN [db.slots EXCEPT ![slot].status = "AVAILABLE"]
                ELSE db.slots,
      events |-> [db.events EXCEPT ![b] = @ \o CancelEvents(db, b, type)]]

(* Mutant: a booking that has been marked may be cancelled. *)
CanCancelMarked(b, enforceStudentCutoff) ==
  /\ bookings[b].status # "CANCELLED"
  /\ enforceStudentCutoff => CanChangeBooking(b)

CanCancel(b, enforceStudentCutoff) ==
  /\ bookings[b].status = "BOOKED"
  /\ enforceStudentCutoff => CanChangeBooking(b)

CancelBooking(b) ==
  /\ CanCancel(b, TRUE)
  /\ Commit(CancelExistingBooking(Tables, b, "CANCELLED_BY_STUDENT"))
  /\ UNCHANGED <<now, students, memberships>>

AdminCancelBooking(b) ==
  /\ CanCancel(b, FALSE)
  /\ Commit(CancelExistingBooking(Tables, b, "CANCELLED_BY_ADMIN"))
  /\ UNCHANGED <<now, students, memberships>>

-----------------------------------------------------------------------------
(* Rescheduling: a cancellation and a creation in one transaction.  The
   creation's checks see the cancellation; when one fails both are undone. *)

RescheduledTo(b) == [Event("RESCHEDULED_TO") EXCEPT !.from = b]

(* Mutants: the cancellation is committed before the creation is tried. *)
RescheduleBatchInTwoCommits(b, s, enforceStudentCutoff) ==
  /\ sessions[bookings[b].session].program = "BATCH"
  /\ CanCancel(b, enforceStudentCutoff)
  /\ Commit(CancelExistingBooking(Tables, b, "RESCHEDULED_FROM"))
  /\ UNCHANGED <<now, students, memberships>>
RescheduleOneOnOneInTwoCommits(b, slot, enforceStudentCutoff) ==
  /\ sessions[bookings[b].session].program = "ONE_ON_ONE"
  /\ CanCancel(b, enforceStudentCutoff)
  /\ Commit(CancelExistingBooking(Tables, b, "RESCHEDULED_FROM"))
  /\ UNCHANGED <<now, students, memberships>>

RescheduleBatchBooking(b, s, enforceStudentCutoff) ==
  LET db == CancelExistingBooking(Tables, b, "RESCHEDULED_FROM")
      st == bookings[b].student
  IN /\ sessions[bookings[b].session].program = "BATCH"
     /\ CanCancel(b, enforceStudentCutoff)
     /\ CanCreateBatchBooking(db, st, s)
     /\ Commit(AddBooking(db, st, s, RescheduledTo(b)))
     /\ UNCHANGED <<now, students, memberships>>

RescheduleOneOnOneBooking(b, slot, enforceStudentCutoff) ==
  LET db == CancelExistingBooking(Tables, b, "RESCHEDULED_FROM")
      st == bookings[b].student
  IN /\ sessions[bookings[b].session].program = "ONE_ON_ONE"
     /\ CanCancel(b, enforceStudentCutoff)
     /\ CanCreateOneOnOneBooking(db, st, slot)
     /\ Commit(AddOneOnOneBooking(db, st, slot, RescheduledTo(b)))
     /\ UNCHANGED <<now, students, memberships>>

-----------------------------------------------------------------------------
(* Attendance. *)

(* Mutant: the old status is read after the new one is assigned. *)
AttendanceMarkedAfterwards(old, new) ==
  [type |-> "ATTENDANCE_MARKED", old |-> new, new |-> new, from |-> None]

AttendanceMarked(old, new) ==
  [type |-> "ATTENDANCE_MARKED", old |-> old, new |-> new, from |-> None]

(* marks: the status given to each booking of the request. *)
MarkBookings(db, marks) ==
  [db EXCEPT
     !.bookings = [b \in DOMAIN @ |->
        IF b \in DOMAIN marks THEN [@[b] EXCEPT !.status = marks[b]] ELSE @[b]],
     !.events = [b \in DOMAIN @ |->
        IF b \in DOMAIN marks
        THEN Append(@[b], AttendanceMarked(db.bookings[b].status, marks[b]))
        ELSE @[b]]]

(* Mutants: one mark is enough; only students who came count as marked. *)
CompletesClassAtFirstMark(db, s) ==
  /\ db.sessions[s].status # "CANCELLED"
  /\ ActiveBookingsOf(db.bookings, s) # BookedBookingsOf(db.bookings, s)
CompletesClassIfAllAttended(db, s) ==
  /\ db.sessions[s].status # "CANCELLED"
  /\ ActiveBookingsOf(db.bookings, s) # {}
  /\ \A b \in ActiveBookingsOf(db.bookings, s) : db.bookings[b].status = "ATTENDED"

CompletesClass(db, s) ==
  /\ db.sessions[s].status # "CANCELLED"
  /\ ActiveBookingsOf(db.bookings, s) # {}
  /\ BookedBookingsOf(db.bookings, s) = {}

CompleteClassSessionIfAttendanceMarked(db, s) ==
  IF CompletesClass(db, s) THEN [db EXCEPT !.sessions[s].status = "COMPLETED"] ELSE db

(* Bound: a mark can be corrected any number of times in the code. *)
Marks(b) == Cardinality({i \in DOMAIN events[b] : events[b][i].type = "ATTENDANCE_MARKED"})

MarkAttendance(s, marks) ==
  /\ \A b \in DOMAIN marks : CanMarkAttendance(b) /\ Marks(b) < MaxMarks
  /\ Commit(CompleteClassSessionIfAttendanceMarked(MarkBookings(Tables, marks), s))
  /\ UNCHANGED <<now, students, memberships>>

MarkBookingAttendance(b, status) ==
  MarkAttendance(bookings[b].session, [x \in {b} |-> status])

(* Every record must name a booking of the class: one that does not, or that
   cannot be marked, fails the whole request. *)
MarkClassAttendance(s, marks) ==
  /\ \A b \in DOMAIN marks : bookings[b].session = s
  /\ MarkAttendance(s, marks)

-----------------------------------------------------------------------------

Tick ==
  /\ now' \in {t \in Instants : t > now}
  /\ UNCHANGED <<students, memberships, slots, sessions, bookings, events>>

Next ==
  \/ \E st \in StudentIds, s \in DOMAIN sessions :
       CreateBatchBooking(st, s) \/ AdminAddStudentToClass(st, s)
  \/ \E st \in StudentIds, slot \in SlotIds : CreateOneOnOneBooking(st, slot)
  \/ \E b \in DOMAIN bookings : CancelBooking(b) \/ AdminCancelBooking(b)
  \/ \E b \in DOMAIN bookings, s \in DOMAIN sessions, cutoff \in BOOLEAN :
       RescheduleBatchBooking(b, s, cutoff)
  \/ \E b \in DOMAIN bookings, slot \in SlotIds, cutoff \in BOOLEAN :
       RescheduleOneOnOneBooking(b, slot, cutoff)
  \/ \E b \in DOMAIN bookings, status \in AttendanceStatuses :
       MarkBookingAttendance(b, status)
  \/ \E s \in DOMAIN sessions, named \in (SUBSET DOMAIN bookings) \ {{}} :
       \E marks \in [named -> AttendanceStatuses] : MarkClassAttendance(s, marks)
  \/ Tick

Spec == Init /\ [][Next]_vars

-----------------------------------------------------------------------------
(* Properties. *)

(* A class never holds more students than it has seats: every path that seats
   a student (booking, rescheduling, manual addition) counts the seats left. *)
CapacityRespected ==
  \A s \in DOMAIN sessions :
    Cardinality(ActiveBookingsOf(bookings, s)) <= sessions[s].capacity

(* A student has at most one active class on a UTC day, whatever mix of
   one-on-one bookings, batch bookings, reschedulings and manual additions
   led there. *)
OneActiveClassPerDay ==
  \A st \in StudentIds :
    \A b1, b2 \in ActiveClassesOf(bookings, sessions, st) :
      Day(sessions[bookings[b1].session].startsAt)
        = Day(sessions[bookings[b2].session].startsAt)
      => b1 = b2

(* Nobody is left booked into a class that will not take place. *)
CancelledClassHasNobodyBooked ==
  \A s \in DOMAIN sessions :
    sessions[s].status = "CANCELLED" => BookedBookingsOf(bookings, s) = {}

(* A class is completed exactly when attendance has been taken of everybody in
   it: it is not completed while a seat is unmarked, and it does not stay
   scheduled once the last one is marked. *)
CompletedWhenAttendanceTaken ==
  \A s \in DOMAIN sessions :
    LET active == ActiveBookingsOf(bookings, s)
        unmarked == BookedBookingsOf(bookings, s)
    IN /\ sessions[s].status = "COMPLETED" => active # {} /\ unmarked = {}
       /\ sessions[s].status = "SCHEDULED" => active = {} \/ unmarked # {}

(* A one-on-one class that is not cancelled keeps its slot booked, at the
   slot's time, is the only such class of the slot and has its student; a
   booked slot that is still to come has such a class. *)
SlotHeldByItsClass ==
  /\ \A s1 \in DOMAIN sessions :
       sessions[s1].program = "ONE_ON_ONE" /\ sessions[s1].status # "CANCELLED" =>
         LET slot == sessions[s1].slot IN
           /\ slots[slot].status = "BOOKED"
           /\ slots[slot].startsAt = sessions[s1].startsAt
           /\ LiveSessionsOf(sessions, slot) = {s1}
           /\ ActiveBookingsOf(bookings, s1) # {}
  /\ \A slot \in SlotIds :
       slots[slot].status = "BOOKED" /\ slots[slot].startsAt > now
         => LiveSessionsOf(sessions, slot) # {}

(* The status an event leaves its booking in. *)
StatusAfter(event, status) ==
  CASE event.type \in CreationEvents -> "BOOKED"
    [] event.type \in CancellationEvents -> "CANCELLED"
    [] event.type = "ATTENDANCE_MARKED" -> event.new
    [] event.type = "CLASS_CANCELLED_EMPTY" -> status

(* The audit trail of a booking tells its story: it opens with one creation,
   each later event applies to the status the earlier ones lead to, attendance
   events name that status as the old one, nothing but the closing of the class
   follows a cancellation, and the last status is the row's. *)
AuditTrailReplays ==
  \A b \in DOMAIN bookings :
    \E status \in [DOMAIN events[b] -> BookingStatuses] :
      LET trail == events[b] IN
        /\ trail[1].type \in CreationEvents /\ status[1] = "BOOKED"
        /\ \A i \in 2 .. Len(trail) :
             /\ trail[i].type \notin CreationEvents
             /\ trail[i].type \in CancellationEvents => status[i-1] = "BOOKED"
             /\ trail[i].type = "ATTENDANCE_MARKED" =>
                  trail[i].old = status[i-1] /\ status[i-1] # "CANCELLED"
             /\ trail[i].type = "CLASS_CANCELLED_EMPTY" =>
                  trail[i-1].type \in CancellationEvents
             /\ status[i] = StatusAfter(trail[i], status[i-1])
        /\ status[Len(trail)] = bookings[b].status

(* A rescheduled booking has exactly one replacement, of the same student and
   the same program, and a replacement replaces a rescheduled booking: no seat
   is given up without the other one, and none is taken twice. *)
RescheduleLinks ==
  LET Rescheduled ==
        {b \in DOMAIN bookings : \E i \in DOMAIN events[b] : events[b][i].type = "RESCHEDULED_FROM"}
      Replacements == {b \in DOMAIN bookings : events[b][1].type = "RESCHEDULED_TO"}
  IN /\ \A b \in Rescheduled :
          \E r \in Replacements :
            {x \in Replacements : events[x][1].from = b} = {r}
     /\ \A r \in Replacements :
          LET b == events[r][1].from IN
            /\ b \in Rescheduled \ {r}
            /\ bookings[b].status = "CANCELLED"
            /\ bookings[r].student = bookings[b].student
            /\ sessions[bookings[r].session].program
                 = sessions[bookings[b].session].program

(* A booking keeps its student and its class; a cancelled booking stays
   cancelled and attendance, once taken, is corrected but never withdrawn. *)
BookingLifecycle ==
  [][\A b \in DOMAIN bookings :
       LET before == bookings[b]
           after == bookings'[b]
       IN /\ after.student = before.student /\ after.session = before.session
          /\ before.status = "CANCELLED" => after.status = "CANCELLED"
          /\ before.status \in AttendanceStatuses => after.status \in AttendanceStatuses]_vars

(* A booked slot is offered again only when it has not started and in the step
   that cancels its class, unless the same step books it again. *)
SlotReleasedWithItsClass ==
  [][\A slot \in SlotIds :
       slots[slot].status = "BOOKED" /\ slots'[slot].status # "BOOKED" =>
         /\ slots'[slot].status = "AVAILABLE"
         /\ slots[slot].startsAt > now
         /\ LiveSessionsOf(sessions, slot) # {}
         /\ LiveSessionsOf(sessions', slot) = {}]_vars

(* Seen as a roster, the service keeps the promise of ClassRoster: each request
   seats, unseats or moves one student or completes one class, never beyond the
   capacity, and leaves the classes that are over alone. *)
Roster ==
  INSTANCE ClassRoster WITH
    Students <- StudentIds, Classes <- SessionIds,
    roster <- [s \in DOMAIN sessions |->
                 [seats |-> {bookings[b].student : b \in ActiveBookingsOf(bookings, s)},
                  capacity |-> sessions[s].capacity,
                  phase |-> sessions[s].status]]

ImplementsRoster == Roster!RosterSpec

(* The bookings that are kept of the live classes in a slot. *)
HoldersOf(bks, ses, slot) ==
  {b \in DOMAIN bks :
     bks[b].status # "CANCELLED" /\ bks[b].session \in LiveSessionsOf(ses, slot)}

(* Seen as a diary, it keeps the promise of SlotDiary: a slot is one student's
   at a time, whoever is added to classes by hand, a student who moves has the
   old slot or the new one, and nobody loses a slot by what another does. *)
Diary ==
  INSTANCE SlotDiary WITH
    Students <- StudentIds, Slots <- SlotIds,
    diary <- [slot \in SlotIds |->
                {bookings[b].student : b \in HoldersOf(bookings, sessions, slot)}]

ImplementsDiary == Diary!DiarySpec

(* What the reason "empty class" and the event CLASS_CANCELLED_EMPTY say: a
   class that was cancelled because it was empty has no seat in use. *)
EmptyClassIsEmpty ==
  \A b \in DOMAIN bookings :
    (\E i \in DOMAIN events[b] : events[b][i].type = "CLASS_CANCELLED_EMPTY")
      => ActiveBookingsOf(bookings, bookings[b].session) = {}

=============================================================================
