--------------------------- MODULE BookingsSafety ---------------------------
(***************************************************************************)
(* The safety theorems about Bookings, for any students, groups, slots,      *)
(* sessions and instants and any tables the other services have stored: the   *)
(* types of the tables, what holds of every student and every class, and the  *)
(* bookings with their audit trails: how a booking may move on, that its trail *)
(* tells the story of its row, and that a rescheduled booking and its          *)
(* replacement are linked.                                                   *)
(*                                                                         *)
(* What a request does to the tables is a composition of AddBooking,          *)
(* ClaimSlot, CancelExistingBooking and the two attendance operators, so each  *)
(* invariant is stated of a record of tables, each operator is shown to        *)
(* preserve it, and the requests follow.                                     *)
(***************************************************************************)
EXTENDS Bookings, FiniteSetTheorems, TLAPS

-----------------------------------------------------------------------------
(* Tables. *)

IsTables(db) ==
  db = [name \in {"bookings", "sessions", "slots", "events"} |-> db[name]]

WellTyped(db) ==
  /\ IsTables(db)
  /\ db.slots \in [SlotIds -> Slot]
  /\ DOMAIN db.sessions \subseteq SessionIds
  /\ db.sessions \in [DOMAIN db.sessions -> Session]
  /\ DOMAIN db.bookings \subseteq BookingIds
  /\ db.bookings \in [DOMAIN db.bookings -> Booking]
  /\ \A b \in DOMAIN db.bookings : db.bookings[b].session \in DOMAIN db.sessions
  /\ db.events \in [DOMAIN db.bookings -> Seq(BookingEvent)]

(* The rows of the other services are typed and every booking names a session
   that exists (its foreign key). *)
Typed == TypeOK /\ WellTyped(Tables)

(* A new key is a key, and not one of the table's. *)
LEMMA NewKeyIsNew ==
  ASSUME NEW keys, NEW table, HasNewKey(keys, table)
  PROVE  NewKey(keys, table) \in keys /\ NewKey(keys, table) \notin DOMAIN table
BY DEF HasNewKey, NewKey

(* Writing a status keeps a row's type and its other columns. *)
LEMMA BookingStatusWritten ==
  ASSUME NEW row \in Booking, NEW status \in BookingStatuses
  PROVE  /\ [row EXCEPT !.status = status] \in Booking
         /\ [row EXCEPT !.status = status].session = row.session
         /\ [row EXCEPT !.status = status].student = row.student
         /\ [row EXCEPT !.status = status].status = status
BY DEF Booking

LEMMA SlotStatusWritten ==
  ASSUME NEW row \in Slot, NEW status \in SlotStatuses
  PROVE  /\ [row EXCEPT !.status = status] \in Slot
         /\ [row EXCEPT !.status = status].startsAt = row.startsAt
         /\ [row EXCEPT !.status = status].status = status
BY DEF Slot

LEMMA SessionStatusWritten ==
  ASSUME NEW row \in Session, NEW status \in SessionStatuses
  PROVE  /\ [row EXCEPT !.status = status] \in Session
         /\ [row EXCEPT !.status = status].status = status
         /\ [row EXCEPT !.status = status].startsAt = row.startsAt
         /\ [row EXCEPT !.status = status].capacity = row.capacity
         /\ [row EXCEPT !.status = status].program = row.program
         /\ [row EXCEPT !.status = status].slot = row.slot
<1>1. CASE row \in OneOnOneSession
  BY <1>1 DEF OneOnOneSession, Session
<1>2. CASE row \in BatchSession
  BY <1>2 DEF BatchSession, Session
<1> QED
  BY <1>1, <1>2 DEF Session

(* Adding a booking to a session that exists keeps the tables well typed. *)
LEMMA AddBookingTyped ==
  ASSUME NEW db, WellTyped(db), NEW st \in StudentIds, NEW s \in DOMAIN db.sessions,
         NEW event \in BookingEvent, HasNewKey(BookingIds, db.bookings)
  PROVE  WellTyped(AddBooking(db, st, s, event))
<1> DEFINE b == NewKey(BookingIds, db.bookings)
           row == [student |-> st, session |-> s, status |-> "BOOKED"]
           new == AddBooking(db, st, s, event)
<1>1. b \in BookingIds /\ b \notin DOMAIN db.bookings
  BY NewKeyIsNew
<1>2. /\ new.bookings = Insert(db.bookings, b, row)
      /\ new.events = Insert(db.events, b, <<event>>)
      /\ new.sessions = db.sessions /\ new.slots = db.slots
      /\ IsTables(new)
  BY DEF AddBooking, WellTyped, IsTables
<1>3. row \in Booking
  BY DEF WellTyped, Booking, BookingStatuses
<1>4. <<event>> \in Seq(BookingEvent)
  OBVIOUS
<1> HIDE DEF b, row, new
<1>5. /\ DOMAIN new.bookings = DOMAIN db.bookings \cup {b}
      /\ new.bookings \in [DOMAIN new.bookings -> Booking]
  BY <1>2, <1>3 DEF Insert, WellTyped
<1>6. new.events \in [DOMAIN new.bookings -> Seq(BookingEvent)]
  BY <1>2, <1>4, <1>5 DEF Insert, WellTyped
<1>7. \A x \in DOMAIN new.bookings : new.bookings[x].session \in DOMAIN new.sessions
  BY <1>2 DEF Insert, WellTyped, row
<1> QED
  BY <1>1, <1>2, <1>5, <1>6, <1>7 DEF WellTyped, new

(* Claiming an available slot adds a one-on-one session for it. *)
LEMMA ClaimSlotTyped ==
  ASSUME NEW db, WellTyped(db), NEW slot \in SlotIds, HasNewKey(SessionIds, db.sessions)
  PROVE  /\ WellTyped(ClaimSlot(db, slot))
         /\ NewKey(SessionIds, db.sessions) \in DOMAIN ClaimSlot(db, slot).sessions
         /\ ClaimSlot(db, slot).bookings = db.bookings
<1> DEFINE s == NewKey(SessionIds, db.sessions)
           row == [program |-> "ONE_ON_ONE", slot |-> slot, group |-> None,
                   startsAt |-> db.slots[slot].startsAt, status |-> "SCHEDULED",
                   capacity |-> 1]
           new == ClaimSlot(db, slot)
<1>1. s \in SessionIds /\ s \notin DOMAIN db.sessions
  BY NewKeyIsNew
<1>2. /\ new.sessions = Insert(db.sessions, s, row)
      /\ new.slots = [db.slots EXCEPT ![slot].status = "BOOKED"]
      /\ new.bookings = db.bookings /\ new.events = db.events
      /\ IsTables(new)
  BY DEF ClaimSlot, WellTyped, IsTables
<1>3. row \in Session
  BY DEF WellTyped, Session, OneOnOneSession, Slot, SessionStatuses
<1> HIDE DEF s, row, new
<1>4. /\ DOMAIN new.sessions = DOMAIN db.sessions \cup {s}
      /\ new.sessions \in [DOMAIN new.sessions -> Session]
  BY <1>2, <1>3 DEF Insert, WellTyped
<1>5. new.slots \in [SlotIds -> Slot]
  BY <1>2 DEF WellTyped, Slot, SlotStatuses
<1> QED
  BY <1>1, <1>2, <1>4, <1>5 DEF WellTyped, new, s

(* Cancelling a booking changes statuses only. *)
LEMMA CancelExistingBookingTyped ==
  ASSUME NEW db, WellTyped(db), NEW b \in DOMAIN db.bookings,
         NEW type \in CancellationEvents
  PROVE  /\ WellTyped(CancelExistingBooking(db, b, type))
         /\ DOMAIN CancelExistingBooking(db, b, type).sessions = DOMAIN db.sessions
         /\ DOMAIN CancelExistingBooking(db, b, type).bookings = DOMAIN db.bookings
<1> DEFINE s == db.bookings[b].session
           slot == db.sessions[s].slot
           new == CancelExistingBooking(db, b, type)
<1>1. /\ new.bookings = [db.bookings EXCEPT ![b].status = "CANCELLED"]
      /\ new.sessions = IF ClosesClass(db, b)
                        THEN [db.sessions EXCEPT ![s].status = "CANCELLED"]
                        ELSE db.sessions
      /\ new.slots = IF ReleasesSlot(db, b)
                     THEN [db.slots EXCEPT ![slot].status = "AVAILABLE"]
                     ELSE db.slots
      /\ new.events = [db.events EXCEPT ![b] = @ \o CancelEvents(db, b, type)]
      /\ IsTables(new)
  BY DEF CancelExistingBooking, IsTables
<1>2. s \in DOMAIN db.sessions
  BY DEF WellTyped
<1>3. CancelEvents(db, b, type) \in Seq(BookingEvent)
  <2>1. Event(type) \in BookingEvent /\ Event("CLASS_CANCELLED_EMPTY") \in BookingEvent
    BY DEF Event, BookingEvent, EventTypes, CancellationEvents
  <2> QED
    BY <2>1 DEF CancelEvents
<1> HIDE DEF s, slot, new
<1>4. /\ DOMAIN new.bookings = DOMAIN db.bookings
      /\ new.bookings \in [DOMAIN db.bookings -> Booking]
      /\ \A x \in DOMAIN db.bookings : new.bookings[x].session = db.bookings[x].session
  <2>1. /\ [db.bookings[b] EXCEPT !.status = "CANCELLED"] \in Booking
        /\ [db.bookings[b] EXCEPT !.status = "CANCELLED"].session = db.bookings[b].session
    BY BookingStatusWritten DEF WellTyped, BookingStatuses
  <2> QED
    BY <1>1, <2>1 DEF WellTyped
<1>5. /\ DOMAIN new.sessions = DOMAIN db.sessions
      /\ new.sessions \in [DOMAIN db.sessions -> Session]
  <2>1. [db.sessions[s] EXCEPT !.status = "CANCELLED"] \in Session
    BY <1>2, SessionStatusWritten DEF WellTyped, SessionStatuses
  <2> QED
    BY <1>1, <1>2, <2>1 DEF WellTyped
<1>6. new.slots \in [SlotIds -> Slot]
  <2>1. slot \in SlotIds => [db.slots[slot] EXCEPT !.status = "AVAILABLE"] \in Slot
    BY SlotStatusWritten DEF WellTyped, SlotStatuses
  <2> QED
    BY <1>1, <2>1 DEF WellTyped
<1>7. new.events \in [DOMAIN db.bookings -> Seq(BookingEvent)]
  <2>1. db.events[b] \o CancelEvents(db, b, type) \in Seq(BookingEvent)
    BY <1>3 DEF WellTyped
  <2> QED
    BY <1>1, <2>1 DEF WellTyped
<1> QED
  BY <1>1, <1>4, <1>5, <1>6, <1>7 DEF WellTyped, new

(* Marking attendance writes an attendance status and appends one event. *)
LEMMA MarkBookingsTyped ==
  ASSUME NEW db, WellTyped(db), NEW marks, DOMAIN marks \subseteq DOMAIN db.bookings,
         \A b \in DOMAIN marks : marks[b] \in AttendanceStatuses
  PROVE  /\ WellTyped(MarkBookings(db, marks))
         /\ DOMAIN MarkBookings(db, marks).bookings = DOMAIN db.bookings
         /\ MarkBookings(db, marks).sessions = db.sessions
<1> DEFINE new == MarkBookings(db, marks)
<1>1. /\ new.bookings = [b \in DOMAIN db.bookings |->
            IF b \in DOMAIN marks
            THEN [db.bookings[b] EXCEPT !.status = marks[b]] ELSE db.bookings[b]]
      /\ new.events = [b \in DOMAIN db.events |->
            IF b \in DOMAIN marks
            THEN Append(db.events[b], AttendanceMarked(db.bookings[b].status, marks[b]))
            ELSE db.events[b]]
      /\ new.sessions = db.sessions /\ new.slots = db.slots
      /\ IsTables(new)
  BY DEF MarkBookings, WellTyped, IsTables
<1> HIDE DEF new
<1>2. /\ new.bookings \in [DOMAIN db.bookings -> Booking]
      /\ \A b \in DOMAIN db.bookings : new.bookings[b].session = db.bookings[b].session
  BY <1>1, BookingStatusWritten DEF WellTyped, BookingStatuses
<1>3. new.events \in [DOMAIN db.bookings -> Seq(BookingEvent)]
  <2>1. ASSUME NEW b \in DOMAIN db.bookings
        PROVE  new.events[b] \in Seq(BookingEvent)
    <3>1. CASE b \in DOMAIN marks
      <4>1. AttendanceMarked(db.bookings[b].status, marks[b]) \in BookingEvent
        BY <3>1 DEF WellTyped, AttendanceMarked, BookingEvent, EventTypes, Booking, BookingStatuses
      <4> QED
        BY <1>1, <3>1, <4>1 DEF WellTyped
    <3>2. CASE b \notin DOMAIN marks
      BY <1>1, <3>2 DEF WellTyped
    <3> QED
      BY <3>1, <3>2
  <2> QED
    BY <1>1, <2>1 DEF WellTyped
<1> QED
  BY <1>1, <1>2, <1>3 DEF WellTyped, new

LEMMA CompleteClassSessionTyped ==
  ASSUME NEW db, WellTyped(db), NEW s \in DOMAIN db.sessions
  PROVE  WellTyped(CompleteClassSessionIfAttendanceMarked(db, s))
<1> DEFINE new == [db EXCEPT !.sessions[s].status = "COMPLETED"]
<1>1. /\ new.sessions = [db.sessions EXCEPT ![s].status = "COMPLETED"]
      /\ new.bookings = db.bookings /\ new.slots = db.slots /\ new.events = db.events
      /\ IsTables(new)
  BY DEF WellTyped, IsTables
<1> HIDE DEF new
<1>2. [db.sessions[s] EXCEPT !.status = "COMPLETED"] \in Session
  BY SessionStatusWritten DEF WellTyped, SessionStatuses
<1>3. WellTyped(new)
  BY <1>1, <1>2 DEF WellTyped
<1> QED
  BY <1>3 DEF CompleteClassSessionIfAttendanceMarked, new

-----------------------------------------------------------------------------
(* Type correctness. *)

LEMMA TablesFields ==
  /\ Tables.bookings = bookings /\ Tables.sessions = sessions
  /\ Tables.slots = slots /\ Tables.events = events
  /\ IsTables(Tables)
BY DEF Tables, IsTables

LEMMA InitTyped == Init => Typed
<1> SUFFICES ASSUME Init PROVE Typed
  OBVIOUS
<1> USE DEF Init, EmptyTable
<1>1. InitialSessions \in [DOMAIN InitialSessions -> Session]
  BY InitialTablesAssumption DEF Session
<1>2. DOMAIN EmptyTable = {}
  OBVIOUS
<1>3. TypeOK
  BY <1>1, <1>2, InitialTablesAssumption DEF TypeOK
<1>4. WellTyped(Tables)
  BY <1>2, <1>3, TablesFields DEF WellTyped, TypeOK
<1> QED
  BY <1>3, <1>4 DEF Typed

(* A request that commits well-typed tables and leaves the rest alone. *)
LEMMA CommitTyped ==
  ASSUME Typed, NEW db, WellTyped(db), Commit(db),
         UNCHANGED <<now, students, memberships>>
  PROVE  Typed'
<1>1. /\ bookings' = db.bookings /\ sessions' = db.sessions
      /\ slots' = db.slots /\ events' = db.events
  BY DEF Commit
<1>2. TypeOK'
  BY <1>1 DEF Typed, TypeOK, WellTyped
<1>3. WellTyped(Tables)'
  BY <1>1 DEF WellTyped, Tables, IsTables
<1> QED
  BY <1>2, <1>3 DEF Typed

(* The events the requests record. *)
LEMMA EventsTyped ==
  /\ \A type \in CreationEvents : Event(type) \in BookingEvent
  /\ \A b \in BookingIds : RescheduledTo(b) \in BookingEvent
<1>1. \A type \in CreationEvents : Event(type) \in BookingEvent
  BY DEF Event, BookingEvent, EventTypes, CreationEvents
<1>2. ASSUME NEW b \in BookingIds
      PROVE  RescheduledTo(b) \in BookingEvent
  <2>1. RescheduledTo(b) = [type |-> "RESCHEDULED_TO", old |-> None, new |-> None, from |-> b]
    BY DEF RescheduledTo, Event
  <2> QED
    BY <2>1 DEF BookingEvent, EventTypes, CreationEvents
<1> QED
  BY <1>1, <1>2

LEMMA AddOneOnOneBookingTyped ==
  ASSUME NEW db, WellTyped(db), NEW st \in StudentIds, NEW slot \in SlotIds,
         NEW event \in BookingEvent,
         HasNewKey(BookingIds, db.bookings), HasNewKey(SessionIds, db.sessions)
  PROVE  WellTyped(AddOneOnOneBooking(db, st, slot, event))
BY ClaimSlotTyped, AddBookingTyped DEF AddOneOnOneBooking

LEMMA NextTyped == Typed /\ [Next]_vars => Typed'
<1> SUFFICES ASSUME Typed, [Next]_vars PROVE Typed'
  OBVIOUS
<1>0. /\ WellTyped(Tables)
      /\ Tables.bookings = bookings /\ Tables.sessions = sessions
      /\ DOMAIN bookings \subseteq BookingIds
      /\ \A b \in DOMAIN bookings :
           bookings[b].student \in StudentIds /\ bookings[b].session \in DOMAIN sessions
  BY TablesFields DEF Typed, TypeOK, WellTyped, Booking
<1>1. ASSUME NEW st \in StudentIds, NEW s \in DOMAIN sessions, CreateBatchBooking(st, s)
      PROVE  Typed'
  BY <1>0, <1>1, AddBookingTyped, EventsTyped, CommitTyped
     DEF CreateBatchBooking, CanCreateBatchBooking, CreationEvents
<1>2. ASSUME NEW st \in StudentIds, NEW s \in DOMAIN sessions, AdminAddStudentToClass(st, s)
      PROVE  Typed'
  BY <1>0, <1>2, AddBookingTyped, EventsTyped, CommitTyped
     DEF AdminAddStudentToClass, CreationEvents
<1>3. ASSUME NEW st \in StudentIds, NEW slot \in SlotIds, CreateOneOnOneBooking(st, slot)
      PROVE  Typed'
  BY <1>0, <1>3, AddOneOnOneBookingTyped, EventsTyped, CommitTyped
     DEF CreateOneOnOneBooking, CanCreateOneOnOneBooking, CreationEvents
<1>4. ASSUME NEW b \in DOMAIN bookings, CancelBooking(b) \/ AdminCancelBooking(b)
      PROVE  Typed'
  BY <1>0, <1>4, CancelExistingBookingTyped, CommitTyped
     DEF CancelBooking, AdminCancelBooking, CancellationEvents
<1>5. ASSUME NEW b \in DOMAIN bookings, NEW s \in DOMAIN sessions, NEW cutoff \in BOOLEAN,
             RescheduleBatchBooking(b, s, cutoff)
      PROVE  Typed'
  <2> DEFINE db == CancelExistingBooking(Tables, b, "RESCHEDULED_FROM")
  <2>1. WellTyped(db) /\ DOMAIN db.sessions = DOMAIN sessions
    BY <1>0, CancelExistingBookingTyped DEF CancellationEvents
  <2> HIDE DEF db
  <2>2. /\ CanCreateBatchBooking(db, bookings[b].student, s)
        /\ Commit(AddBooking(db, bookings[b].student, s, RescheduledTo(b)))
        /\ UNCHANGED <<now, students, memberships>>
    BY <1>5 DEF RescheduleBatchBooking, db
  <2>3. WellTyped(AddBooking(db, bookings[b].student, s, RescheduledTo(b)))
    BY <1>0, <2>1, <2>2, AddBookingTyped, EventsTyped DEF CanCreateBatchBooking
  <2> QED
    BY <2>2, <2>3, CommitTyped
<1>6. ASSUME NEW b \in DOMAIN bookings, NEW slot \in SlotIds, NEW cutoff \in BOOLEAN,
             RescheduleOneOnOneBooking(b, slot, cutoff)
      PROVE  Typed'
  <2> DEFINE db == CancelExistingBooking(Tables, b, "RESCHEDULED_FROM")
  <2>1. WellTyped(db)
    BY <1>0, CancelExistingBookingTyped DEF CancellationEvents
  <2> HIDE DEF db
  <2>2. /\ CanCreateOneOnOneBooking(db, bookings[b].student, slot)
        /\ Commit(AddOneOnOneBooking(db, bookings[b].student, slot, RescheduledTo(b)))
        /\ UNCHANGED <<now, students, memberships>>
    BY <1>6 DEF RescheduleOneOnOneBooking, db
  <2>3. WellTyped(AddOneOnOneBooking(db, bookings[b].student, slot, RescheduledTo(b)))
    BY <1>0, <2>1, <2>2, AddOneOnOneBookingTyped, EventsTyped DEF CanCreateOneOnOneBooking
  <2> QED
    BY <2>2, <2>3, CommitTyped
<1>7. ASSUME NEW s \in DOMAIN sessions, NEW marks, DOMAIN marks \subseteq DOMAIN bookings,
             \A b \in DOMAIN marks : marks[b] \in AttendanceStatuses,
             MarkAttendance(s, marks)
      PROVE  Typed'
  <2>1. WellTyped(MarkBookings(Tables, marks))
        /\ s \in DOMAIN MarkBookings(Tables, marks).sessions
    BY <1>0, <1>7, MarkBookingsTyped
  <2> QED
    BY <1>7, <2>1, CompleteClassSessionTyped, CommitTyped DEF MarkAttendance
<1>8. ASSUME NEW b \in DOMAIN bookings, NEW status \in AttendanceStatuses,
             MarkBookingAttendance(b, status)
      PROVE  Typed'
  BY <1>0, <1>7, <1>8 DEF MarkBookingAttendance
<1>9. ASSUME NEW s \in DOMAIN sessions, NEW named \in (SUBSET DOMAIN bookings) \ {{}},
             NEW marks \in [named -> AttendanceStatuses], MarkClassAttendance(s, marks)
      PROVE  Typed'
  BY <1>7, <1>9 DEF MarkClassAttendance
<1>10. CASE Tick
  BY <1>10 DEF Typed, TypeOK, Tick, WellTyped, Tables, IsTables
<1>11. CASE UNCHANGED vars
  BY <1>11 DEF Typed, TypeOK, vars, WellTyped, Tables, IsTables
<1> QED
  BY <1>1, <1>2, <1>3, <1>4, <1>5, <1>6, <1>8, <1>9, <1>10, <1>11 DEF Next

(* Every table keeps the type of its columns, whatever requests are served: in
   particular a class session always has the shape the check constraint
   ck_class_sessions_program_shape demands, and every booking has a trail. *)
THEOREM TypeCorrect == Spec => []TypeOK
<1>1. Typed => TypeOK
  BY DEF Typed
<1> QED
  BY InitTyped, NextTyped, <1>1, PTL DEF Spec

-----------------------------------------------------------------------------
(* Requests that create no row only move statuses forward. *)

(* new has the rows of db, with nothing but statuses changed, and what is
   cancelled in db is cancelled in new. *)
Continues(db, new) ==
  /\ DOMAIN new.bookings = DOMAIN db.bookings
  /\ DOMAIN new.sessions = DOMAIN db.sessions
  /\ \A b \in DOMAIN db.bookings :
       /\ new.bookings[b].student = db.bookings[b].student
       /\ new.bookings[b].session = db.bookings[b].session
       /\ db.bookings[b].status = "CANCELLED" => new.bookings[b].status = "CANCELLED"
  /\ \A s \in DOMAIN db.sessions :
       /\ new.sessions[s].startsAt = db.sessions[s].startsAt
       /\ new.sessions[s].capacity = db.sessions[s].capacity
       /\ db.sessions[s].status = "CANCELLED" => new.sessions[s].status = "CANCELLED"

LEMMA CancelExistingBookingContinues ==
  ASSUME NEW db, WellTyped(db), NEW b \in DOMAIN db.bookings, NEW type
  PROVE  Continues(db, CancelExistingBooking(db, b, type))
<1> DEFINE s == db.bookings[b].session
           new == CancelExistingBooking(db, b, type)
<1>1. /\ new.bookings = [db.bookings EXCEPT ![b].status = "CANCELLED"]
      /\ \/ new.sessions = [db.sessions EXCEPT ![s].status = "CANCELLED"]
         \/ new.sessions = db.sessions
  BY DEF CancelExistingBooking
<1>2. s \in DOMAIN db.sessions
  BY DEF WellTyped
<1> HIDE DEF s, new
<1>3. \A x \in DOMAIN db.bookings :
        /\ new.bookings[x].student = db.bookings[x].student
        /\ new.bookings[x].session = db.bookings[x].session
        /\ db.bookings[x].status = "CANCELLED" => new.bookings[x].status = "CANCELLED"
  <2>1. /\ [db.bookings[b] EXCEPT !.status = "CANCELLED"].student = db.bookings[b].student
        /\ [db.bookings[b] EXCEPT !.status = "CANCELLED"].session = db.bookings[b].session
        /\ [db.bookings[b] EXCEPT !.status = "CANCELLED"].status = "CANCELLED"
    BY BookingStatusWritten DEF WellTyped, BookingStatuses
  <2> QED
    BY <1>1, <2>1 DEF WellTyped
<1>4. \A x \in DOMAIN db.sessions :
        /\ new.sessions[x].startsAt = db.sessions[x].startsAt
        /\ new.sessions[x].capacity = db.sessions[x].capacity
        /\ db.sessions[x].status = "CANCELLED" => new.sessions[x].status = "CANCELLED"
  <2>1. LET row == [db.sessions[s] EXCEPT !.status = "CANCELLED"] IN
          /\ row.startsAt = db.sessions[s].startsAt
          /\ row.capacity = db.sessions[s].capacity
          /\ row.status = "CANCELLED"
    BY <1>2, SessionStatusWritten DEF WellTyped, SessionStatuses
  <2> QED
    BY <1>1, <2>1 DEF WellTyped
<1>5. DOMAIN new.bookings = DOMAIN db.bookings /\ DOMAIN new.sessions = DOMAIN db.sessions
  BY <1>1 DEF WellTyped
<1> QED
  BY <1>3, <1>4, <1>5 DEF Continues, new

(* Attendance: what MarkAttendance commits, when the marked bookings are not
   cancelled. *)
AttendanceTaken(db, s, marks) ==
  CompleteClassSessionIfAttendanceMarked(MarkBookings(db, marks), s)

LEMMA AttendanceTakenContinues ==
  ASSUME NEW db, WellTyped(db), NEW s \in DOMAIN db.sessions,
         NEW marks, DOMAIN marks \subseteq DOMAIN db.bookings,
         \A b \in DOMAIN marks :
           marks[b] \in AttendanceStatuses /\ db.bookings[b].status # "CANCELLED"
  PROVE  Continues(db, AttendanceTaken(db, s, marks))
<1> DEFINE marked == MarkBookings(db, marks)
           new == AttendanceTaken(db, s, marks)
<1>1. marked.bookings = [b \in DOMAIN db.bookings |->
         IF b \in DOMAIN marks
         THEN [db.bookings[b] EXCEPT !.status = marks[b]] ELSE db.bookings[b]]
  BY DEF MarkBookings, WellTyped, IsTables
<1>2. WellTyped(marked) /\ marked.sessions = db.sessions
  BY MarkBookingsTyped
<1> HIDE DEF marked
<1>3. /\ new.bookings = marked.bookings
      /\ \/ new.sessions = db.sessions
         \/ /\ db.sessions[s].status # "CANCELLED"
            /\ new.sessions = [db.sessions EXCEPT ![s].status = "COMPLETED"]
  BY <1>2 DEF AttendanceTaken, CompleteClassSessionIfAttendanceMarked, CompletesClass,
              WellTyped, IsTables, marked
<1> HIDE DEF new
<1>4. \A x \in DOMAIN db.bookings :
        /\ new.bookings[x].student = db.bookings[x].student
        /\ new.bookings[x].session = db.bookings[x].session
        /\ db.bookings[x].status = "CANCELLED" => new.bookings[x].status = "CANCELLED"
  BY <1>1, <1>3, BookingStatusWritten DEF WellTyped, BookingStatuses
<1>5. \A x \in DOMAIN db.sessions :
        /\ new.sessions[x].startsAt = db.sessions[x].startsAt
        /\ new.sessions[x].capacity = db.sessions[x].capacity
        /\ db.sessions[x].status = "CANCELLED" => new.sessions[x].status = "CANCELLED"
  <2>1. LET row == [db.sessions[s] EXCEPT !.status = "COMPLETED"] IN
          row.startsAt = db.sessions[s].startsAt /\ row.capacity = db.sessions[s].capacity
    BY SessionStatusWritten DEF WellTyped, SessionStatuses
  <2> QED
    BY <1>3, <2>1 DEF WellTyped
<1>6. DOMAIN new.bookings = DOMAIN db.bookings /\ DOMAIN new.sessions = DOMAIN db.sessions
  BY <1>1, <1>3
<1> QED
  BY <1>4, <1>5, <1>6 DEF Continues, new

-----------------------------------------------------------------------------
(* One active class per day. *)

OneClassPerDayIn(db) ==
  \A st \in StudentIds :
    \A b1, b2 \in ActiveClassesOf(db.bookings, db.sessions, st) :
      Day(db.sessions[db.bookings[b1].session].startsAt)
        = Day(db.sessions[db.bookings[b2].session].startsAt)
      => b1 = b2

LEMMA ContinuesOneClassPerDay ==
  ASSUME NEW db, WellTyped(db), NEW new, Continues(db, new), OneClassPerDayIn(db)
  PROVE  OneClassPerDayIn(new)
<1>1. ASSUME NEW st \in StudentIds, NEW b \in ActiveClassesOf(new.bookings, new.sessions, st)
      PROVE  /\ b \in ActiveClassesOf(db.bookings, db.sessions, st)
             /\ new.sessions[new.bookings[b].session].startsAt
                  = db.sessions[db.bookings[b].session].startsAt
  BY <1>1 DEF ActiveClassesOf, Continues, WellTyped
<1> QED
  BY <1>1 DEF OneClassPerDayIn

LEMMA AddBookingOneClassPerDay ==
  ASSUME NEW db, WellTyped(db), OneClassPerDayIn(db),
         NEW st \in StudentIds, NEW s \in DOMAIN db.sessions, NEW event,
         NoActiveClassOnDay(db, st, db.sessions[s].startsAt),
         HasNewKey(BookingIds, db.bookings)
  PROVE  OneClassPerDayIn(AddBooking(db, st, s, event))
<1> DEFINE b == NewKey(BookingIds, db.bookings)
           new == AddBooking(db, st, s, event)
<1>1. b \notin DOMAIN db.bookings
  BY NewKeyIsNew
<1>2. /\ new.sessions = db.sessions
      /\ DOMAIN new.bookings = DOMAIN db.bookings \cup {b}
      /\ new.bookings[b].student = st /\ new.bookings[b].session = s
      /\ \A x \in DOMAIN db.bookings : new.bookings[x] = db.bookings[x]
  BY <1>1 DEF AddBooking, WellTyped, IsTables, Insert
<1> HIDE DEF b, new
<1>3. ASSUME NEW other \in StudentIds,
             NEW x \in ActiveClassesOf(new.bookings, new.sessions, other), x # b
      PROVE  x \in ActiveClassesOf(db.bookings, db.sessions, other)
             /\ new.bookings[x] = db.bookings[x]
  BY <1>2, <1>3 DEF ActiveClassesOf
<1>4. ASSUME NEW other \in StudentIds,
             b \in ActiveClassesOf(new.bookings, new.sessions, other)
      PROVE  other = st
  BY <1>2, <1>4 DEF ActiveClassesOf
<1>5. ASSUME NEW other \in StudentIds,
             NEW b1 \in ActiveClassesOf(new.bookings, new.sessions, other),
             NEW b2 \in ActiveClassesOf(new.bookings, new.sessions, other),
             Day(new.sessions[new.bookings[b1].session].startsAt)
               = Day(new.sessions[new.bookings[b2].session].startsAt)
      PROVE  b1 = b2
  <2>1. CASE b1 # b /\ b2 # b
    BY <1>2, <1>3, <1>5, <2>1 DEF OneClassPerDayIn
  <2>2. CASE b1 = b /\ b2 # b
    BY <1>2, <1>3, <1>4, <1>5, <2>2 DEF NoActiveClassOnDay
  <2>3. CASE b1 # b /\ b2 = b
    BY <1>2, <1>3, <1>4, <1>5, <2>3 DEF NoActiveClassOnDay
  <2> QED
    BY <2>1, <2>2, <2>3
<1> QED
  BY <1>5 DEF OneClassPerDayIn, new

(* A claimed slot's session has no bookings yet. *)
LEMMA ClaimSlotKeepsClasses ==
  ASSUME NEW db, WellTyped(db), NEW slot \in SlotIds, HasNewKey(SessionIds, db.sessions)
  PROVE  LET s == NewKey(SessionIds, db.sessions)
             new == ClaimSlot(db, slot)
         IN /\ new.bookings = db.bookings
            /\ DOMAIN new.sessions = DOMAIN db.sessions \cup {s}
            /\ \A x \in DOMAIN db.sessions : new.sessions[x] = db.sessions[x]
            /\ new.sessions[s].startsAt = db.slots[slot].startsAt
            /\ new.sessions[s].capacity = 1
            /\ s \notin DOMAIN db.sessions
            /\ \A st : ActiveClassesOf(new.bookings, new.sessions, st)
                       = ActiveClassesOf(db.bookings, db.sessions, st)
<1> DEFINE s == NewKey(SessionIds, db.sessions)
           new == ClaimSlot(db, slot)
<1>1. s \notin DOMAIN db.sessions
  BY NewKeyIsNew
<1>2. /\ new.bookings = db.bookings
      /\ DOMAIN new.sessions = DOMAIN db.sessions \cup {s}
      /\ \A x \in DOMAIN db.sessions : new.sessions[x] = db.sessions[x]
      /\ new.sessions[s].startsAt = db.slots[slot].startsAt
      /\ new.sessions[s].capacity = 1
  BY <1>1 DEF ClaimSlot, WellTyped, IsTables, Insert
<1> HIDE DEF s, new
<1>3. \A st : ActiveClassesOf(new.bookings, new.sessions, st)
                = ActiveClassesOf(db.bookings, db.sessions, st)
  BY <1>2 DEF ActiveClassesOf, WellTyped
<1> QED
  BY <1>1, <1>2, <1>3 DEF s, new

LEMMA AddOneOnOneBookingOneClassPerDay ==
  ASSUME NEW db, WellTyped(db), OneClassPerDayIn(db),
         NEW st \in StudentIds, NEW slot \in SlotIds, NEW event,
         CanCreateOneOnOneBooking(db, st, slot)
  PROVE  OneClassPerDayIn(AddOneOnOneBooking(db, st, slot, event))
<1> DEFINE s == NewKey(SessionIds, db.sessions)
           new == ClaimSlot(db, slot)
<1>1. /\ HasNewKey(BookingIds, db.bookings) /\ HasNewKey(SessionIds, db.sessions)
      /\ NoActiveClassOnDay(db, st, db.slots[slot].startsAt)
  BY DEF CanCreateOneOnOneBooking
<1>2. /\ WellTyped(new) /\ s \in DOMAIN new.sessions
      /\ new.bookings = db.bookings
      /\ \A x \in DOMAIN db.sessions : new.sessions[x] = db.sessions[x]
      /\ new.sessions[s].startsAt = db.slots[slot].startsAt
      /\ \A other : ActiveClassesOf(new.bookings, new.sessions, other)
                     = ActiveClassesOf(db.bookings, db.sessions, other)
  BY <1>1, ClaimSlotTyped, ClaimSlotKeepsClasses
<1> HIDE DEF s, new
<1>3. \A other : \A b \in ActiveClassesOf(db.bookings, db.sessions, other) :
         new.sessions[new.bookings[b].session] = db.sessions[db.bookings[b].session]
  BY <1>2 DEF ActiveClassesOf, WellTyped
<1>4. OneClassPerDayIn(new)
  BY <1>2, <1>3 DEF OneClassPerDayIn
<1>5. NoActiveClassOnDay(new, st, new.sessions[s].startsAt)
  BY <1>1, <1>2, <1>3 DEF NoActiveClassOnDay
<1>6. OneClassPerDayIn(AddBooking(new, st, s, event))
  BY <1>1, <1>2, <1>4, <1>5, AddBookingOneClassPerDay
<1> QED
  BY <1>6 DEF AddOneOnOneBooking, s, new

-----------------------------------------------------------------------------
(* Capacity. *)

CapacityIn(db) ==
  \A s \in DOMAIN db.sessions :
    Cardinality(ActiveBookingsOf(db.bookings, s)) <= db.sessions[s].capacity

LEMMA ActiveBookingsFinite ==
  ASSUME NEW db, WellTyped(db), NEW s
  PROVE  /\ IsFiniteSet(ActiveBookingsOf(db.bookings, s))
         /\ Cardinality(ActiveBookingsOf(db.bookings, s)) \in Nat
<1>1. ActiveBookingsOf(db.bookings, s) \subseteq BookingIds
  BY DEF ActiveBookingsOf, WellTyped
<1> QED
  BY <1>1, KeysAssumption, FS_Subset, FS_CardinalityType

LEMMA CapacityIsNat ==
  ASSUME NEW db, WellTyped(db), NEW s \in DOMAIN db.sessions
  PROVE  db.sessions[s].capacity \in Nat \ {0}
<1>1. db.sessions[s] \in Session
  BY DEF WellTyped
<1> QED
  BY <1>1 DEF Session, OneOnOneSession, BatchSession

LEMMA ContinuesCapacity ==
  ASSUME NEW db, WellTyped(db), NEW new, WellTyped(new), Continues(db, new), CapacityIn(db)
  PROVE  CapacityIn(new)
<1>1. ASSUME NEW s \in DOMAIN new.sessions
      PROVE  Cardinality(ActiveBookingsOf(new.bookings, s)) <= new.sessions[s].capacity
  <2>1. /\ s \in DOMAIN db.sessions
        /\ new.sessions[s].capacity = db.sessions[s].capacity
        /\ ActiveBookingsOf(new.bookings, s) \subseteq ActiveBookingsOf(db.bookings, s)
    BY DEF Continues, ActiveBookingsOf
  <2>2. Cardinality(ActiveBookingsOf(new.bookings, s))
          <= Cardinality(ActiveBookingsOf(db.bookings, s))
    BY <2>1, ActiveBookingsFinite, FS_Subset
  <2>3. Cardinality(ActiveBookingsOf(db.bookings, s)) <= db.sessions[s].capacity
    BY <2>1 DEF CapacityIn
  <2>4. /\ Cardinality(ActiveBookingsOf(new.bookings, s)) \in Nat
        /\ Cardinality(ActiveBookingsOf(db.bookings, s)) \in Nat
        /\ db.sessions[s].capacity \in Nat
    BY <2>1, ActiveBookingsFinite, CapacityIsNat
  <2> QED
    BY <2>1, <2>2, <2>3, <2>4
<1> QED
  BY <1>1 DEF CapacityIn

LEMMA AddBookingCapacity ==
  ASSUME NEW db, WellTyped(db), CapacityIn(db),
         NEW st \in StudentIds, NEW s \in DOMAIN db.sessions, NEW event,
         CapacityAvailable(db, s), HasNewKey(BookingIds, db.bookings)
  PROVE  CapacityIn(AddBooking(db, st, s, event))
<1> DEFINE b == NewKey(BookingIds, db.bookings)
           new == AddBooking(db, st, s, event)
<1>1. b \notin DOMAIN db.bookings
  BY NewKeyIsNew
<1>2. /\ new.sessions = db.sessions
      /\ DOMAIN new.bookings = DOMAIN db.bookings \cup {b}
      /\ new.bookings[b].session = s
      /\ \A x \in DOMAIN db.bookings : new.bookings[x] = db.bookings[x]
  BY <1>1 DEF AddBooking, WellTyped, IsTables, Insert
<1> HIDE DEF b, new
<1>3. ASSUME NEW x \in DOMAIN db.sessions
      PROVE  Cardinality(ActiveBookingsOf(new.bookings, x)) <= db.sessions[x].capacity
  <2>1. CASE x = s
    <3>1. ActiveBookingsOf(new.bookings, s)
            \subseteq ActiveBookingsOf(db.bookings, s) \cup {b}
      BY <1>2 DEF ActiveBookingsOf
    <3>2. /\ IsFiniteSet(ActiveBookingsOf(db.bookings, s) \cup {b})
          /\ Cardinality(ActiveBookingsOf(db.bookings, s) \cup {b})
               = Cardinality(ActiveBookingsOf(db.bookings, s)) + 1
      <4>1. b \notin ActiveBookingsOf(db.bookings, s)
        BY <1>1 DEF ActiveBookingsOf
      <4>2. IsFiniteSet(ActiveBookingsOf(db.bookings, s))
        BY ActiveBookingsFinite
      <4> QED
        BY <4>1, <4>2, FS_AddElement
    <3>3. /\ Cardinality(ActiveBookingsOf(new.bookings, s))
               <= Cardinality(ActiveBookingsOf(db.bookings, s)) + 1
          /\ Cardinality(ActiveBookingsOf(new.bookings, s)) \in Nat
      BY <3>1, <3>2, FS_Subset, FS_CardinalityType
    <3> QED
      BY <2>1, <3>3, ActiveBookingsFinite, CapacityIsNat DEF CapacityAvailable
  <2>2. CASE x # s
    <3>1. ActiveBookingsOf(new.bookings, x) = ActiveBookingsOf(db.bookings, x)
      BY <1>2, <2>2 DEF ActiveBookingsOf
    <3> QED
      BY <3>1 DEF CapacityIn
  <2> QED
    BY <2>1, <2>2
<1> QED
  BY <1>2, <1>3 DEF CapacityIn, new

LEMMA AddOneOnOneBookingCapacity ==
  ASSUME NEW db, WellTyped(db), CapacityIn(db),
         NEW st \in StudentIds, NEW slot \in SlotIds, NEW event,
         CanCreateOneOnOneBooking(db, st, slot)
  PROVE  CapacityIn(AddOneOnOneBooking(db, st, slot, event))
<1> DEFINE s == NewKey(SessionIds, db.sessions)
           new == ClaimSlot(db, slot)
<1>1. HasNewKey(BookingIds, db.bookings) /\ HasNewKey(SessionIds, db.sessions)
  BY DEF CanCreateOneOnOneBooking
<1>2. /\ WellTyped(new) /\ s \in DOMAIN new.sessions
      /\ new.bookings = db.bookings
      /\ DOMAIN new.sessions = DOMAIN db.sessions \cup {s} /\ s \notin DOMAIN db.sessions
      /\ \A x \in DOMAIN db.sessions : new.sessions[x] = db.sessions[x]
      /\ new.sessions[s].capacity = 1
  BY <1>1, ClaimSlotTyped, ClaimSlotKeepsClasses
<1> HIDE DEF s, new
<1>3. ActiveBookingsOf(new.bookings, s) = {} /\ Cardinality({}) = 0
  BY <1>2, FS_EmptySet DEF ActiveBookingsOf, WellTyped
<1>4. CapacityIn(new) /\ CapacityAvailable(new, s)
  <2>1. Cardinality(ActiveBookingsOf(new.bookings, s)) < new.sessions[s].capacity
    BY <1>2, <1>3
  <2>2. \A x \in DOMAIN db.sessions :
          Cardinality(ActiveBookingsOf(new.bookings, x)) <= new.sessions[x].capacity
    BY <1>2 DEF CapacityIn
  <2>3. Cardinality(ActiveBookingsOf(new.bookings, s)) <= new.sessions[s].capacity
    BY <1>2, <1>3
  <2> QED
    BY <1>2, <2>1, <2>2, <2>3 DEF CapacityIn, CapacityAvailable
<1>5. CapacityIn(AddBooking(new, st, s, event))
  BY <1>1, <1>2, <1>4, AddBookingCapacity
<1> QED
  BY <1>5 DEF AddOneOnOneBooking, s, new

-----------------------------------------------------------------------------
(* The inductive invariant and the theorems. *)

SafeIn(db) == WellTyped(db) /\ OneClassPerDayIn(db) /\ CapacityIn(db)

Safe == Typed /\ SafeIn(Tables)

LEMMA AddBookingSafe ==
  ASSUME NEW db, SafeIn(db), NEW st \in StudentIds, NEW s \in DOMAIN db.sessions,
         NEW event \in BookingEvent, HasNewKey(BookingIds, db.bookings),
         NoActiveClassOnDay(db, st, db.sessions[s].startsAt), CapacityAvailable(db, s)
  PROVE  SafeIn(AddBooking(db, st, s, event))
BY AddBookingTyped, AddBookingOneClassPerDay, AddBookingCapacity DEF SafeIn

LEMMA AddOneOnOneBookingSafe ==
  ASSUME NEW db, SafeIn(db), NEW st \in StudentIds, NEW slot \in SlotIds,
         NEW event \in BookingEvent, CanCreateOneOnOneBooking(db, st, slot)
  PROVE  SafeIn(AddOneOnOneBooking(db, st, slot, event))
<1>1. HasNewKey(BookingIds, db.bookings) /\ HasNewKey(SessionIds, db.sessions)
  BY DEF CanCreateOneOnOneBooking
<1> QED
  BY <1>1, AddOneOnOneBookingTyped, AddOneOnOneBookingOneClassPerDay,
     AddOneOnOneBookingCapacity DEF SafeIn

LEMMA CancelExistingBookingSafe ==
  ASSUME NEW db, SafeIn(db), NEW b \in DOMAIN db.bookings, NEW type \in CancellationEvents
  PROVE  /\ SafeIn(CancelExistingBooking(db, b, type))
         /\ DOMAIN CancelExistingBooking(db, b, type).sessions = DOMAIN db.sessions
BY CancelExistingBookingTyped, CancelExistingBookingContinues,
   ContinuesOneClassPerDay, ContinuesCapacity DEF SafeIn

LEMMA AttendanceTakenSafe ==
  ASSUME NEW db, SafeIn(db), NEW s \in DOMAIN db.sessions,
         NEW marks, DOMAIN marks \subseteq DOMAIN db.bookings,
         \A b \in DOMAIN marks :
           marks[b] \in AttendanceStatuses /\ db.bookings[b].status # "CANCELLED"
  PROVE  SafeIn(AttendanceTaken(db, s, marks))
<1>1. /\ WellTyped(db)
      /\ WellTyped(MarkBookings(db, marks)) /\ s \in DOMAIN MarkBookings(db, marks).sessions
  BY MarkBookingsTyped DEF SafeIn
<1>2. WellTyped(AttendanceTaken(db, s, marks))
  BY <1>1, CompleteClassSessionTyped DEF AttendanceTaken
<1>3. Continues(db, AttendanceTaken(db, s, marks))
  BY <1>1, AttendanceTakenContinues
<1> QED
  BY <1>1, <1>2, <1>3, ContinuesOneClassPerDay, ContinuesCapacity DEF SafeIn

LEMMA InitSafe == Init => Safe
<1> SUFFICES ASSUME Init PROVE Safe
  OBVIOUS
<1>1. Typed /\ WellTyped(Tables)
  BY InitTyped DEF Typed
<1>2. DOMAIN Tables.bookings = {}
  BY TablesFields DEF Init, EmptyTable
<1>3. OneClassPerDayIn(Tables)
  BY <1>2 DEF OneClassPerDayIn, ActiveClassesOf
<1>4. ASSUME NEW s \in DOMAIN Tables.sessions
      PROVE  Cardinality(ActiveBookingsOf(Tables.bookings, s)) <= Tables.sessions[s].capacity
  <2>1. Cardinality(ActiveBookingsOf(Tables.bookings, s)) = 0
    BY <1>2, FS_EmptySet DEF ActiveBookingsOf
  <2>2. Tables.sessions[s].capacity \in Nat
    BY <1>1, CapacityIsNat
  <2> QED
    BY <2>1, <2>2
<1> QED
  BY <1>1, <1>3, <1>4 DEF Safe, SafeIn, CapacityIn

(* A request that commits safe tables. *)
LEMMA CommitSafe ==
  ASSUME Safe, NEW db, SafeIn(db), Commit(db), UNCHANGED <<now, students, memberships>>
  PROVE  Safe'
<1>1. Typed'
  BY CommitTyped DEF Safe, SafeIn
<1>2. /\ Tables'.bookings = db.bookings /\ Tables'.sessions = db.sessions
  BY DEF Commit, Tables
<1>3. OneClassPerDayIn(Tables)' /\ CapacityIn(Tables)'
  BY <1>2 DEF SafeIn, OneClassPerDayIn, CapacityIn
<1> QED
  BY <1>1, <1>3 DEF Safe, SafeIn, Typed

LEMMA NextSafe == Safe /\ [Next]_vars => Safe'
<1> SUFFICES ASSUME Safe, [Next]_vars PROVE Safe'
  OBVIOUS
<1>0. /\ SafeIn(Tables) /\ Typed
      /\ Tables.bookings = bookings /\ Tables.sessions = sessions
      /\ DOMAIN bookings \subseteq BookingIds
      /\ \A b \in DOMAIN bookings :
           bookings[b].student \in StudentIds /\ bookings[b].session \in DOMAIN sessions
  BY TablesFields DEF Safe, Typed, TypeOK, WellTyped, Booking
<1>1. ASSUME NEW st \in StudentIds, NEW s \in DOMAIN sessions, CreateBatchBooking(st, s)
      PROVE  Safe'
  BY <1>0, <1>1, AddBookingSafe, EventsTyped, CommitSafe
     DEF CreateBatchBooking, CanCreateBatchBooking, CreationEvents
<1>2. ASSUME NEW st \in StudentIds, NEW s \in DOMAIN sessions, AdminAddStudentToClass(st, s)
      PROVE  Safe'
  BY <1>0, <1>2, AddBookingSafe, EventsTyped, CommitSafe
     DEF AdminAddStudentToClass, CreationEvents
<1>3. ASSUME NEW st \in StudentIds, NEW slot \in SlotIds, CreateOneOnOneBooking(st, slot)
      PROVE  Safe'
  BY <1>0, <1>3, AddOneOnOneBookingSafe, EventsTyped, CommitSafe
     DEF CreateOneOnOneBooking, CreationEvents
<1>4. ASSUME NEW b \in DOMAIN bookings, CancelBooking(b) \/ AdminCancelBooking(b)
      PROVE  Safe'
  BY <1>0, <1>4, CancelExistingBookingSafe, CommitSafe
     DEF CancelBooking, AdminCancelBooking, CancellationEvents
<1>5. ASSUME NEW b \in DOMAIN bookings, NEW s \in DOMAIN sessions, NEW cutoff \in BOOLEAN,
             RescheduleBatchBooking(b, s, cutoff)
      PROVE  Safe'
  <2> DEFINE db == CancelExistingBooking(Tables, b, "RESCHEDULED_FROM")
  <2>1. SafeIn(db) /\ DOMAIN db.sessions = DOMAIN sessions
    BY <1>0, CancelExistingBookingSafe DEF CancellationEvents
  <2> HIDE DEF db
  <2>2. /\ CanCreateBatchBooking(db, bookings[b].student, s)
        /\ Commit(AddBooking(db, bookings[b].student, s, RescheduledTo(b)))
        /\ UNCHANGED <<now, students, memberships>>
    BY <1>5 DEF RescheduleBatchBooking, db
  <2>3. SafeIn(AddBooking(db, bookings[b].student, s, RescheduledTo(b)))
    BY <1>0, <2>1, <2>2, AddBookingSafe, EventsTyped DEF CanCreateBatchBooking
  <2> QED
    BY <2>2, <2>3, CommitSafe
<1>6. ASSUME NEW b \in DOMAIN bookings, NEW slot \in SlotIds, NEW cutoff \in BOOLEAN,
             RescheduleOneOnOneBooking(b, slot, cutoff)
      PROVE  Safe'
  <2> DEFINE db == CancelExistingBooking(Tables, b, "RESCHEDULED_FROM")
  <2>1. SafeIn(db)
    BY <1>0, CancelExistingBookingSafe DEF CancellationEvents
  <2> HIDE DEF db
  <2>2. /\ CanCreateOneOnOneBooking(db, bookings[b].student, slot)
        /\ Commit(AddOneOnOneBooking(db, bookings[b].student, slot, RescheduledTo(b)))
        /\ UNCHANGED <<now, students, memberships>>
    BY <1>6 DEF RescheduleOneOnOneBooking, db
  <2>3. SafeIn(AddOneOnOneBooking(db, bookings[b].student, slot, RescheduledTo(b)))
    BY <1>0, <2>1, <2>2, AddOneOnOneBookingSafe, EventsTyped
  <2> QED
    BY <2>2, <2>3, CommitSafe
<1>7. ASSUME NEW s \in DOMAIN sessions, NEW marks, DOMAIN marks \subseteq DOMAIN bookings,
             \A b \in DOMAIN marks : marks[b] \in AttendanceStatuses,
             MarkAttendance(s, marks)
      PROVE  Safe'
  <2>1. \A b \in DOMAIN marks : bookings[b].status # "CANCELLED"
    BY <1>7 DEF MarkAttendance, CanMarkAttendance
  <2>2. SafeIn(AttendanceTaken(Tables, s, marks))
    BY <1>0, <1>7, <2>1, AttendanceTakenSafe
  <2> QED
    BY <1>7, <2>2, CommitSafe DEF MarkAttendance, AttendanceTaken
<1>8. ASSUME NEW b \in DOMAIN bookings, NEW status \in AttendanceStatuses,
             MarkBookingAttendance(b, status)
      PROVE  Safe'
  BY <1>0, <1>7, <1>8 DEF MarkBookingAttendance
<1>9. ASSUME NEW s \in DOMAIN sessions, NEW named \in (SUBSET DOMAIN bookings) \ {{}},
             NEW marks \in [named -> AttendanceStatuses], MarkClassAttendance(s, marks)
      PROVE  Safe'
  BY <1>7, <1>9 DEF MarkClassAttendance
<1>10. CASE UNCHANGED <<sessions, bookings>> /\ Typed'
  <2>1. Tables'.bookings = Tables.bookings /\ Tables'.sessions = Tables.sessions
    BY <1>10 DEF Tables
  <2>2. OneClassPerDayIn(Tables)' /\ CapacityIn(Tables)'
    BY <1>0, <2>1 DEF SafeIn, OneClassPerDayIn, CapacityIn
  <2> QED
    BY <1>10, <2>2 DEF Safe, SafeIn, Typed
<1>11. CASE Tick \/ UNCHANGED vars
  BY <1>0, <1>10, <1>11, NextTyped DEF Tick, vars
<1> QED
  BY <1>1, <1>2, <1>3, <1>4, <1>5, <1>6, <1>8, <1>9, <1>11 DEF Next

LEMMA SafeAlways == Spec => []Safe
BY InitSafe, NextSafe, PTL DEF Spec

(* No class is ever overbooked, for any classes, students and capacities. *)
THEOREM NeverOverbooked == Spec => []CapacityRespected
<1>1. Safe => CapacityRespected
  BY TablesFields DEF Safe, SafeIn, CapacityIn, CapacityRespected
<1> QED
  BY <1>1, SafeAlways, PTL

(* No student ever has two active classes on one UTC day, for any calendar of
   slots and classes. *)
THEOREM OneClassADay == Spec => []OneActiveClassPerDay
<1>1. Safe => OneActiveClassPerDay
  BY TablesFields DEF Safe, SafeIn, OneClassPerDayIn, OneActiveClassPerDay
<1> QED
  BY <1>1, SafeAlways, PTL

-----------------------------------------------------------------------------
(* The life of a booking. *)

(* The bookings of db have moved on, or not, to where they are in new. *)
MovesOn(db, new) ==
  \A b \in DOMAIN db.bookings :
    /\ b \in DOMAIN new.bookings
    /\ new.bookings[b].student = db.bookings[b].student
    /\ new.bookings[b].session = db.bookings[b].session
    /\ db.bookings[b].status = "CANCELLED" => new.bookings[b].status = "CANCELLED"
    /\ db.bookings[b].status \in AttendanceStatuses =>
         new.bookings[b].status \in AttendanceStatuses

LEMMA MovesOnInTwoSteps ==
  ASSUME NEW db, NEW between, NEW new, MovesOn(db, between), MovesOn(between, new)
  PROVE  MovesOn(db, new)
BY DEF MovesOn

(* A new booking leaves the others alone. *)
LEMMA AddBookingMovesOn ==
  ASSUME NEW db, WellTyped(db), NEW st, NEW s, NEW event, HasNewKey(BookingIds, db.bookings)
  PROVE  MovesOn(db, AddBooking(db, st, s, event))
<1> DEFINE b == NewKey(BookingIds, db.bookings)
           new == AddBooking(db, st, s, event)
<1>1. b \notin DOMAIN db.bookings
  BY NewKeyIsNew
<1>2. /\ DOMAIN new.bookings = DOMAIN db.bookings \cup {b}
      /\ \A x \in DOMAIN db.bookings : new.bookings[x] = db.bookings[x]
  BY <1>1 DEF AddBooking, WellTyped, IsTables, Insert
<1> HIDE DEF b, new
<1> QED
  BY <1>2 DEF MovesOn, new

LEMMA AddOneOnOneBookingMovesOn ==
  ASSUME NEW db, WellTyped(db), NEW st \in StudentIds, NEW slot \in SlotIds, NEW event,
         CanCreateOneOnOneBooking(db, st, slot)
  PROVE  MovesOn(db, AddOneOnOneBooking(db, st, slot, event))
<1> DEFINE claimed == ClaimSlot(db, slot)
           new == AddOneOnOneBooking(db, st, slot, event)
<1>1. HasNewKey(BookingIds, db.bookings) /\ HasNewKey(SessionIds, db.sessions)
  BY DEF CanCreateOneOnOneBooking
<1>2. WellTyped(claimed) /\ claimed.bookings = db.bookings
  BY <1>1, ClaimSlotTyped
<1>3. new = AddBooking(claimed, st, NewKey(SessionIds, db.sessions), event)
  BY DEF AddOneOnOneBooking
<1> HIDE DEF claimed, new
<1>4. MovesOn(claimed, new)
  BY <1>1, <1>2, <1>3, AddBookingMovesOn
<1> QED
  BY <1>2, <1>4 DEF MovesOn, new

(* Only a booking that is BOOKED is cancelled. *)
LEMMA CancelExistingBookingMovesOn ==
  ASSUME NEW db, WellTyped(db), NEW b \in DOMAIN db.bookings,
         db.bookings[b].status = "BOOKED", NEW type
  PROVE  MovesOn(db, CancelExistingBooking(db, b, type))
<1>1. /\ CancelExistingBooking(db, b, type).bookings
           = [db.bookings EXCEPT ![b].status = "CANCELLED"]
      /\ "BOOKED" # "CANCELLED" /\ "BOOKED" \notin AttendanceStatuses
  BY DEF CancelExistingBooking, AttendanceStatuses
<1>2. LET row == [db.bookings[b] EXCEPT !.status = "CANCELLED"] IN
        /\ row.student = db.bookings[b].student /\ row.session = db.bookings[b].session
        /\ row.status = "CANCELLED"
  BY BookingStatusWritten DEF WellTyped, BookingStatuses
<1> QED
  BY <1>1, <1>2 DEF MovesOn, WellTyped

(* Attendance is written over bookings that are not cancelled. *)
LEMMA AttendanceTakenMovesOn ==
  ASSUME NEW db, WellTyped(db), NEW s,
         NEW marks, DOMAIN marks \subseteq DOMAIN db.bookings,
         \A b \in DOMAIN marks :
           marks[b] \in AttendanceStatuses /\ db.bookings[b].status # "CANCELLED"
  PROVE  MovesOn(db, AttendanceTaken(db, s, marks))
<1> DEFINE marked == MarkBookings(db, marks)
           new == AttendanceTaken(db, s, marks)
<1>1. /\ marked.bookings = [b \in DOMAIN db.bookings |->
            IF b \in DOMAIN marks
            THEN [db.bookings[b] EXCEPT !.status = marks[b]] ELSE db.bookings[b]]
      /\ IsTables(marked)
  BY DEF MarkBookings, WellTyped, IsTables
<1> HIDE DEF marked
<1>2. new.bookings = marked.bookings
  BY <1>1 DEF AttendanceTaken, CompleteClassSessionIfAttendanceMarked, IsTables, marked
<1> HIDE DEF new
<1>3. ASSUME NEW b \in DOMAIN marks
      PROVE  LET row == [db.bookings[b] EXCEPT !.status = marks[b]] IN
               /\ row.student = db.bookings[b].student
               /\ row.session = db.bookings[b].session
               /\ row.status = marks[b]
  <2>1. db.bookings[b] \in Booking /\ marks[b] \in BookingStatuses
    BY DEF WellTyped, BookingStatuses
  <2> QED
    BY <2>1, BookingStatusWritten
<1> QED
  BY <1>1, <1>2, <1>3 DEF MovesOn, new

LEMMA CommitMovesOn ==
  ASSUME NEW db, MovesOn(Tables, db), Commit(db)
  PROVE  MovesOn(Tables, Tables')
<1>1. Tables'.bookings = db.bookings
  BY DEF Commit, Tables
<1> QED
  BY <1>1 DEF MovesOn

LEMMA NextMovesOn ==
  ASSUME Typed, [Next]_vars
  PROVE  MovesOn(Tables, Tables')
<1>0. /\ WellTyped(Tables) /\ Tables.bookings = bookings /\ Tables.sessions = sessions
      /\ \A b \in DOMAIN bookings : bookings[b].student \in StudentIds
  BY TablesFields DEF Typed, TypeOK, WellTyped, Booking
<1>1. ASSUME NEW st \in StudentIds, NEW s \in DOMAIN sessions,
             CreateBatchBooking(st, s) \/ AdminAddStudentToClass(st, s)
      PROVE  MovesOn(Tables, Tables')
  BY <1>0, <1>1, AddBookingMovesOn, CommitMovesOn
     DEF CreateBatchBooking, CanCreateBatchBooking, AdminAddStudentToClass
<1>2. ASSUME NEW st \in StudentIds, NEW slot \in SlotIds, CreateOneOnOneBooking(st, slot)
      PROVE  MovesOn(Tables, Tables')
  BY <1>0, <1>2, AddOneOnOneBookingMovesOn, CommitMovesOn DEF CreateOneOnOneBooking
<1>3. ASSUME NEW b \in DOMAIN bookings, CancelBooking(b) \/ AdminCancelBooking(b)
      PROVE  MovesOn(Tables, Tables')
  BY <1>0, <1>3, CancelExistingBookingMovesOn, CommitMovesOn
     DEF CancelBooking, AdminCancelBooking, CanCancel
<1>4. ASSUME NEW b \in DOMAIN bookings, NEW s \in DOMAIN sessions, NEW cutoff \in BOOLEAN,
             RescheduleBatchBooking(b, s, cutoff)
      PROVE  MovesOn(Tables, Tables')
  <2> DEFINE db == CancelExistingBooking(Tables, b, "RESCHEDULED_FROM")
             new == AddBooking(db, bookings[b].student, s, RescheduledTo(b))
  <2>1. /\ bookings[b].status = "BOOKED" /\ HasNewKey(BookingIds, db.bookings)
        /\ Commit(new)
    BY <1>4 DEF RescheduleBatchBooking, CanCancel, CanCreateBatchBooking
  <2>2. WellTyped(db) /\ MovesOn(Tables, db)
    BY <1>0, <2>1, CancelExistingBookingTyped, CancelExistingBookingMovesOn
       DEF CancellationEvents
  <2> HIDE DEF db
  <2>3. MovesOn(db, new)
    BY <2>1, <2>2, AddBookingMovesOn
  <2> HIDE DEF new
  <2> QED
    BY <2>1, <2>2, <2>3, MovesOnInTwoSteps, CommitMovesOn
<1>5. ASSUME NEW b \in DOMAIN bookings, NEW slot \in SlotIds, NEW cutoff \in BOOLEAN,
             RescheduleOneOnOneBooking(b, slot, cutoff)
      PROVE  MovesOn(Tables, Tables')
  <2> DEFINE db == CancelExistingBooking(Tables, b, "RESCHEDULED_FROM")
             st == bookings[b].student
             new == AddOneOnOneBooking(db, st, slot, RescheduledTo(b))
  <2>1. /\ bookings[b].status = "BOOKED" /\ CanCreateOneOnOneBooking(db, st, slot)
        /\ Commit(new)
    BY <1>5 DEF RescheduleOneOnOneBooking, CanCancel
  <2>2. WellTyped(db) /\ MovesOn(Tables, db)
    BY <1>0, <2>1, CancelExistingBookingTyped, CancelExistingBookingMovesOn
       DEF CancellationEvents
  <2> HIDE DEF db
  <2>3. MovesOn(db, new)
    BY <1>0, <2>1, <2>2, AddOneOnOneBookingMovesOn
  <2> HIDE DEF new
  <2> QED
    BY <2>1, <2>2, <2>3, MovesOnInTwoSteps, CommitMovesOn
<1>6. ASSUME NEW s, NEW marks, DOMAIN marks \subseteq DOMAIN bookings,
             \A b \in DOMAIN marks : marks[b] \in AttendanceStatuses, MarkAttendance(s, marks)
      PROVE  MovesOn(Tables, Tables')
  <2>1. \A b \in DOMAIN marks : bookings[b].status # "CANCELLED"
    BY <1>6 DEF MarkAttendance, CanMarkAttendance
  <2> QED
    BY <1>0, <1>6, <2>1, AttendanceTakenMovesOn, CommitMovesOn
       DEF MarkAttendance, AttendanceTaken
<1>7. ASSUME NEW b \in DOMAIN bookings, NEW status \in AttendanceStatuses,
             MarkBookingAttendance(b, status)
      PROVE  MovesOn(Tables, Tables')
  BY <1>6, <1>7 DEF MarkBookingAttendance
<1>8. ASSUME NEW s \in DOMAIN sessions, NEW named \in (SUBSET DOMAIN bookings) \ {{}},
             NEW marks \in [named -> AttendanceStatuses], MarkClassAttendance(s, marks)
      PROVE  MovesOn(Tables, Tables')
  BY <1>6, <1>8 DEF MarkClassAttendance
<1>9. CASE Tick \/ UNCHANGED vars
  BY <1>9 DEF Tick, vars, Tables, MovesOn
<1> QED
  BY <1>1, <1>2, <1>3, <1>4, <1>5, <1>7, <1>8, <1>9 DEF Next

(* No series of requests brings a cancelled booking back, moves a booking to
   another student or class, or takes attendance back. *)
THEOREM BookingsOnlyMoveOn == Spec => BookingLifecycle
<1>1. Typed /\ [Next]_vars =>
        [\A b \in DOMAIN bookings :
           LET before == bookings[b]
               after == bookings'[b]
           IN /\ after.student = before.student /\ after.session = before.session
              /\ before.status = "CANCELLED" => after.status = "CANCELLED"
              /\ before.status \in AttendanceStatuses => after.status \in AttendanceStatuses]_vars
  <2>1. Tables.bookings = bookings /\ Tables'.bookings = bookings'
    BY DEF Tables
  <2> QED
    BY <2>1, NextMovesOn DEF MovesOn
<1> QED
  BY <1>1, InitTyped, NextTyped, PTL DEF Spec, BookingLifecycle

-----------------------------------------------------------------------------
(* The trail of a booking. *)

(* status tells, event by event, where a trail leaves its booking. *)
Follows(trail, status) ==
  /\ trail[1].type \in CreationEvents /\ status[1] = "BOOKED"
  /\ \A i \in 2 .. Len(trail) :
       /\ trail[i].type \notin CreationEvents
       /\ trail[i].type \in CancellationEvents => status[i-1] = "BOOKED"
       /\ trail[i].type = "ATTENDANCE_MARKED" =>
            trail[i].old = status[i-1] /\ status[i-1] # "CANCELLED"
       /\ trail[i].type = "CLASS_CANCELLED_EMPTY" => trail[i-1].type \in CancellationEvents
       /\ status[i] = StatusAfter(trail[i], status[i-1])

(* The trail leads to the status last. *)
LeadsTo(trail, last) ==
  /\ trail \in Seq(BookingEvent) /\ Len(trail) > 0
  /\ \E status \in [DOMAIN trail -> BookingStatuses] :
       Follows(trail, status) /\ status[Len(trail)] = last

TrailsReplay(db) ==
  \A b \in DOMAIN db.bookings : LeadsTo(db.events[b], db.bookings[b].status)

LEMMA TrailOpens ==
  ASSUME NEW event \in BookingEvent, event.type \in CreationEvents
  PROVE  LeadsTo(<<event>>, "BOOKED")
<1> DEFINE status == [i \in {1} |-> "BOOKED"]
<1>1. <<event>> \in Seq(BookingEvent) /\ Len(<<event>>) = 1 /\ <<event>>[1] = event
  OBVIOUS
<1>2. DOMAIN <<event>> = {1}
  OBVIOUS
<1>3. status \in [{1} -> BookingStatuses] /\ status[1] = "BOOKED"
  BY DEF BookingStatuses
<1> HIDE DEF status
<1>4. Follows(<<event>>, status)
  BY <1>1, <1>3 DEF Follows
<1> QED
  BY <1>1, <1>2, <1>3, <1>4 DEF LeadsTo

(* An event that applies to the status a trail leads to continues the trail. *)
LEMMA TrailContinues ==
  ASSUME NEW trail, NEW last, LeadsTo(trail, last),
         NEW event \in BookingEvent, event.type \notin CreationEvents,
         event.type \in CancellationEvents => last = "BOOKED",
         event.type = "ATTENDANCE_MARKED" =>
           event.old = last /\ last # "CANCELLED" /\ event.new \in BookingStatuses,
         event.type = "CLASS_CANCELLED_EMPTY" => trail[Len(trail)].type \in CancellationEvents
  PROVE  /\ LeadsTo(Append(trail, event), StatusAfter(event, last))
         /\ Append(trail, event)[Len(Append(trail, event))] = event
<1> DEFINE new == Append(trail, event)
           n == Len(trail)
           after == StatusAfter(event, last)
<1>1. PICK status \in [DOMAIN trail -> BookingStatuses] :
        Follows(trail, status) /\ status[n] = last
  BY DEF LeadsTo
<1>2. trail \in Seq(BookingEvent) /\ n \in Nat /\ n > 0 /\ DOMAIN trail = 1 .. n
  BY DEF LeadsTo
<1>3. /\ new \in Seq(BookingEvent) /\ Len(new) = n + 1 /\ DOMAIN new = 1 .. n + 1
      /\ \A i \in 1 .. n : new[i] = trail[i]
      /\ new[n + 1] = event
  BY <1>2
<1>4. last \in BookingStatuses
  BY <1>1, <1>2
<1>5. after \in BookingStatuses
  <2>1. event.type \in EventTypes
    BY DEF BookingEvent
  <2>2. CASE event.type \in CancellationEvents
    BY <2>2 DEF StatusAfter, BookingStatuses, CancellationEvents, CreationEvents
  <2>3. CASE event.type = "ATTENDANCE_MARKED"
    BY <2>3 DEF StatusAfter, CancellationEvents, CreationEvents
  <2>4. CASE event.type = "CLASS_CANCELLED_EMPTY"
    BY <1>4, <2>4 DEF StatusAfter, CancellationEvents, CreationEvents
  <2> QED
    BY <2>1, <2>2, <2>3, <2>4 DEF EventTypes
<1> DEFINE next == [i \in 1 .. n + 1 |-> IF i = n + 1 THEN after ELSE status[i]]
<1>6. /\ next \in [1 .. n + 1 -> BookingStatuses]
      /\ next[n + 1] = after
      /\ \A i \in 1 .. n : next[i] = status[i]
  BY <1>2, <1>5
<1> HIDE DEF new, next
<1>7. Follows(new, next)
  <2>1. new[1].type \in CreationEvents /\ next[1] = "BOOKED"
    BY <1>1, <1>2, <1>3, <1>6 DEF Follows
  <2>2. ASSUME NEW i \in 2 .. n
        PROVE  /\ new[i].type \notin CreationEvents
               /\ new[i].type \in CancellationEvents => next[i-1] = "BOOKED"
               /\ new[i].type = "ATTENDANCE_MARKED" =>
                    new[i].old = next[i-1] /\ next[i-1] # "CANCELLED"
               /\ new[i].type = "CLASS_CANCELLED_EMPTY" => new[i-1].type \in CancellationEvents
               /\ next[i] = StatusAfter(new[i], next[i-1])
    <3>1. i \in 1 .. n /\ i - 1 \in 1 .. n
      BY <1>2
    <3>2. /\ new[i] = trail[i] /\ new[i-1] = trail[i-1]
          /\ next[i] = status[i] /\ next[i-1] = status[i-1]
      BY <1>3, <1>6, <3>1
    <3> QED
      BY <1>1, <3>2 DEF Follows
  <2>3. /\ new[n+1] = event /\ new[n] = trail[n] /\ next[n] = last /\ next[n+1] = after
        /\ (n + 1) - 1 = n
    BY <1>1, <1>2, <1>3, <1>6
  <2>4. \A i \in 2 .. n + 1 : i \in 2 .. n \/ i = n + 1
    BY <1>2
  <2> QED
    BY <1>3, <2>1, <2>2, <2>3, <2>4 DEF Follows
<1> QED
  BY <1>3, <1>6, <1>7 DEF LeadsTo, new

(* A new booking opens its trail, the others keep theirs. *)
LEMMA AddBookingReplays ==
  ASSUME NEW db, WellTyped(db), TrailsReplay(db), NEW st, NEW s,
         NEW event \in BookingEvent, event.type \in CreationEvents,
         HasNewKey(BookingIds, db.bookings)
  PROVE  TrailsReplay(AddBooking(db, st, s, event))
<1> DEFINE b == NewKey(BookingIds, db.bookings)
           new == AddBooking(db, st, s, event)
<1>1. b \notin DOMAIN db.bookings /\ DOMAIN db.events = DOMAIN db.bookings
  BY NewKeyIsNew DEF WellTyped
<1>2. /\ DOMAIN new.bookings = DOMAIN db.bookings \cup {b}
      /\ new.bookings[b].status = "BOOKED" /\ new.events[b] = <<event>>
      /\ \A x \in DOMAIN db.bookings :
           new.bookings[x] = db.bookings[x] /\ new.events[x] = db.events[x]
  BY <1>1 DEF AddBooking, WellTyped, IsTables, Insert
<1> HIDE DEF b, new
<1>3. LeadsTo(new.events[b], new.bookings[b].status)
  BY <1>2, TrailOpens
<1> QED
  BY <1>2, <1>3 DEF TrailsReplay, new

LEMMA AddOneOnOneBookingReplays ==
  ASSUME NEW db, WellTyped(db), TrailsReplay(db), NEW st \in StudentIds, NEW slot \in SlotIds,
         NEW event \in BookingEvent, event.type \in CreationEvents,
         CanCreateOneOnOneBooking(db, st, slot)
  PROVE  TrailsReplay(AddOneOnOneBooking(db, st, slot, event))
<1> DEFINE claimed == ClaimSlot(db, slot)
<1>1. HasNewKey(BookingIds, db.bookings) /\ HasNewKey(SessionIds, db.sessions)
  BY DEF CanCreateOneOnOneBooking
<1>2. WellTyped(claimed) /\ claimed.bookings = db.bookings
  BY <1>1, ClaimSlotTyped
<1>3. claimed.events = db.events
  BY DEF ClaimSlot, WellTyped, IsTables
<1> HIDE DEF claimed
<1>4. TrailsReplay(AddBooking(claimed, st, NewKey(SessionIds, db.sessions), event))
  BY <1>1, <1>2, <1>3, AddBookingReplays DEF TrailsReplay
<1> QED
  BY <1>4 DEF AddOneOnOneBooking, claimed

(* A cancellation is recorded, and after it the closing of its class. *)
LEMMA CancelExistingBookingReplays ==
  ASSUME NEW db, WellTyped(db), TrailsReplay(db), NEW b \in DOMAIN db.bookings,
         db.bookings[b].status = "BOOKED", NEW type \in CancellationEvents
  PROVE  TrailsReplay(CancelExistingBooking(db, b, type))
<1> DEFINE new == CancelExistingBooking(db, b, type)
           trail == db.events[b]
           cancelled == Append(trail, Event(type))
           closed == Append(cancelled, Event("CLASS_CANCELLED_EMPTY"))
<1>1. /\ new.bookings = [db.bookings EXCEPT ![b].status = "CANCELLED"]
      /\ new.events = [db.events EXCEPT ![b] = trail \o CancelEvents(db, b, type)]
  BY DEF CancelExistingBooking
<1>2. /\ Event(type) \in BookingEvent /\ Event("CLASS_CANCELLED_EMPTY") \in BookingEvent
      /\ Event(type).type = type
      /\ Event("CLASS_CANCELLED_EMPTY").type = "CLASS_CANCELLED_EMPTY"
  BY DEF Event, BookingEvent, EventTypes, CancellationEvents
<1>3. LeadsTo(trail, "BOOKED") /\ trail \in Seq(BookingEvent)
  BY DEF TrailsReplay, LeadsTo
<1>4. /\ type \notin CreationEvents /\ type # "ATTENDANCE_MARKED"
      /\ type # "CLASS_CANCELLED_EMPTY"
      /\ "CLASS_CANCELLED_EMPTY" \notin CreationEvents \cup CancellationEvents
  BY DEF CancellationEvents, CreationEvents
<1>5. /\ StatusAfter(Event(type), "BOOKED") = "CANCELLED"
      /\ StatusAfter(Event("CLASS_CANCELLED_EMPTY"), "CANCELLED") = "CANCELLED"
  BY <1>2, <1>4 DEF StatusAfter
<1> HIDE DEF new, trail, cancelled, closed
<1>6. /\ LeadsTo(cancelled, "CANCELLED")
      /\ cancelled[Len(cancelled)] = Event(type)
  BY <1>2, <1>3, <1>4, <1>5, TrailContinues DEF cancelled
<1>7. LeadsTo(closed, "CANCELLED")
  BY <1>2, <1>4, <1>5, <1>6, TrailContinues DEF closed
<1>8. trail \o CancelEvents(db, b, type) \in {cancelled, closed}
  BY <1>2, <1>3 DEF CancelEvents, cancelled, closed
<1>9. /\ DOMAIN new.bookings = DOMAIN db.bookings
      /\ new.bookings[b].status = "CANCELLED"
      /\ new.events[b] = trail \o CancelEvents(db, b, type)
      /\ \A x \in DOMAIN db.bookings : x # b =>
           new.bookings[x] = db.bookings[x] /\ new.events[x] = db.events[x]
  <2>1. [db.bookings[b] EXCEPT !.status = "CANCELLED"].status = "CANCELLED"
    BY BookingStatusWritten DEF WellTyped, BookingStatuses
  <2> QED
    BY <1>1, <2>1 DEF WellTyped
<1> QED
  BY <1>6, <1>7, <1>8, <1>9 DEF TrailsReplay, new

(* A mark is recorded with the status it replaces. *)
LEMMA AttendanceTakenReplays ==
  ASSUME NEW db, WellTyped(db), TrailsReplay(db), NEW s,
         NEW marks, DOMAIN marks \subseteq DOMAIN db.bookings,
         \A b \in DOMAIN marks :
           marks[b] \in AttendanceStatuses /\ db.bookings[b].status # "CANCELLED"
  PROVE  TrailsReplay(AttendanceTaken(db, s, marks))
<1> DEFINE marked == MarkBookings(db, marks)
           new == AttendanceTaken(db, s, marks)
<1>1. /\ marked.bookings = [b \in DOMAIN db.bookings |->
            IF b \in DOMAIN marks
            THEN [db.bookings[b] EXCEPT !.status = marks[b]] ELSE db.bookings[b]]
      /\ marked.events = [b \in DOMAIN db.events |->
            IF b \in DOMAIN marks
            THEN Append(db.events[b], AttendanceMarked(db.bookings[b].status, marks[b]))
            ELSE db.events[b]]
      /\ IsTables(marked)
  BY DEF MarkBookings, WellTyped, IsTables
<1> HIDE DEF marked
<1>2. new.bookings = marked.bookings /\ new.events = marked.events
  BY <1>1 DEF AttendanceTaken, CompleteClassSessionIfAttendanceMarked, IsTables, marked
<1> HIDE DEF new
<1>3. ASSUME NEW b \in DOMAIN marks
      PROVE  LeadsTo(new.events[b], new.bookings[b].status)
  <2> DEFINE old == db.bookings[b].status
             event == AttendanceMarked(old, marks[b])
  <2>1. /\ db.bookings[b] \in Booking /\ old \in BookingStatuses /\ old # "CANCELLED"
        /\ marks[b] \in BookingStatuses
    BY DEF WellTyped, Booking, BookingStatuses
  <2>2. /\ event \in BookingEvent /\ event.type = "ATTENDANCE_MARKED"
        /\ event.old = old /\ event.new = marks[b]
    BY <2>1 DEF AttendanceMarked, BookingEvent, EventTypes
  <2>3. LeadsTo(db.events[b], old)
    BY DEF TrailsReplay
  <2>4. "ATTENDANCE_MARKED" \notin CreationEvents \cup CancellationEvents
    BY DEF CreationEvents, CancellationEvents
  <2>5. new.bookings[b].status = marks[b]
    BY <1>1, <1>2, <2>1, BookingStatusWritten
  <2>6. new.events[b] = Append(db.events[b], event)
    BY <1>1, <1>2 DEF WellTyped
  <2> HIDE DEF old, event
  <2>7. StatusAfter(event, old) = marks[b]
    BY <2>2, <2>4 DEF StatusAfter
  <2>8. LeadsTo(Append(db.events[b], event), StatusAfter(event, old))
    BY <2>1, <2>2, <2>3, <2>4, TrailContinues
  <2> QED
    BY <2>5, <2>6, <2>7, <2>8
<1>4. ASSUME NEW b \in DOMAIN db.bookings \ DOMAIN marks
      PROVE  LeadsTo(new.events[b], new.bookings[b].status)
  BY <1>1, <1>2 DEF TrailsReplay, WellTyped
<1>5. DOMAIN new.bookings = DOMAIN db.bookings
  BY <1>1, <1>2
<1> QED
  BY <1>3, <1>4, <1>5 DEF TrailsReplay, new

LEMMA CommitReplays ==
  ASSUME NEW db, TrailsReplay(db), Commit(db)
  PROVE  TrailsReplay(Tables)'
<1>1. Tables'.bookings = db.bookings /\ Tables'.events = db.events
  BY DEF Commit, Tables
<1> QED
  BY <1>1 DEF TrailsReplay

LEMMA NextReplays == Typed /\ TrailsReplay(Tables) /\ [Next]_vars => TrailsReplay(Tables)'
<1> SUFFICES ASSUME Typed, TrailsReplay(Tables), [Next]_vars PROVE TrailsReplay(Tables)'
  OBVIOUS
<1>0. /\ WellTyped(Tables) /\ Tables.bookings = bookings /\ Tables.sessions = sessions
      /\ DOMAIN bookings \subseteq BookingIds
      /\ \A b \in DOMAIN bookings : bookings[b].student \in StudentIds
      /\ \A type \in CreationEvents : Event(type) \in BookingEvent /\ Event(type).type = type
      /\ \A b \in BookingIds :
           RescheduledTo(b) \in BookingEvent /\ RescheduledTo(b).type = "RESCHEDULED_TO"
      /\ {"BOOKED", "RESCHEDULED_TO", "MANUALLY_ADDED_BY_ADMIN"} = CreationEvents
  BY TablesFields, EventsTyped
     DEF Typed, TypeOK, WellTyped, Booking, Event, RescheduledTo, CreationEvents
<1>1. ASSUME NEW st \in StudentIds, NEW s \in DOMAIN sessions,
             CreateBatchBooking(st, s) \/ AdminAddStudentToClass(st, s)
      PROVE  TrailsReplay(Tables)'
  BY <1>0, <1>1, AddBookingReplays, CommitReplays
     DEF CreateBatchBooking, CanCreateBatchBooking, AdminAddStudentToClass
<1>2. ASSUME NEW st \in StudentIds, NEW slot \in SlotIds, CreateOneOnOneBooking(st, slot)
      PROVE  TrailsReplay(Tables)'
  BY <1>0, <1>2, AddOneOnOneBookingReplays, CommitReplays DEF CreateOneOnOneBooking
<1>3. ASSUME NEW b \in DOMAIN bookings, CancelBooking(b) \/ AdminCancelBooking(b)
      PROVE  TrailsReplay(Tables)'
  BY <1>0, <1>3, CancelExistingBookingReplays, CommitReplays
     DEF CancelBooking, AdminCancelBooking, CanCancel, CancellationEvents
<1>4. ASSUME NEW b \in DOMAIN bookings, NEW s \in DOMAIN sessions, NEW cutoff \in BOOLEAN,
             RescheduleBatchBooking(b, s, cutoff)
      PROVE  TrailsReplay(Tables)'
  <2> DEFINE db == CancelExistingBooking(Tables, b, "RESCHEDULED_FROM")
             new == AddBooking(db, bookings[b].student, s, RescheduledTo(b))
  <2>1. /\ bookings[b].status = "BOOKED" /\ HasNewKey(BookingIds, db.bookings)
        /\ Commit(new)
    BY <1>4 DEF RescheduleBatchBooking, CanCancel, CanCreateBatchBooking
  <2>2. WellTyped(db) /\ TrailsReplay(db)
    BY <1>0, <2>1, CancelExistingBookingTyped, CancelExistingBookingReplays
       DEF CancellationEvents
  <2> HIDE DEF db
  <2>3. TrailsReplay(new)
    BY <1>0, <2>1, <2>2, AddBookingReplays
  <2> HIDE DEF new
  <2> QED
    BY <2>1, <2>3, CommitReplays
<1>5. ASSUME NEW b \in DOMAIN bookings, NEW slot \in SlotIds, NEW cutoff \in BOOLEAN,
             RescheduleOneOnOneBooking(b, slot, cutoff)
      PROVE  TrailsReplay(Tables)'
  <2> DEFINE db == CancelExistingBooking(Tables, b, "RESCHEDULED_FROM")
             st == bookings[b].student
             new == AddOneOnOneBooking(db, st, slot, RescheduledTo(b))
  <2>1. /\ bookings[b].status = "BOOKED" /\ CanCreateOneOnOneBooking(db, st, slot)
        /\ Commit(new)
    BY <1>5 DEF RescheduleOneOnOneBooking, CanCancel
  <2>2. WellTyped(db) /\ TrailsReplay(db)
    BY <1>0, <2>1, CancelExistingBookingTyped, CancelExistingBookingReplays
       DEF CancellationEvents
  <2> HIDE DEF db
  <2>3. TrailsReplay(new)
    BY <1>0, <2>1, <2>2, AddOneOnOneBookingReplays
  <2> HIDE DEF new
  <2> QED
    BY <2>1, <2>3, CommitReplays
<1>6. ASSUME NEW s, NEW marks, DOMAIN marks \subseteq DOMAIN bookings,
             \A b \in DOMAIN marks : marks[b] \in AttendanceStatuses, MarkAttendance(s, marks)
      PROVE  TrailsReplay(Tables)'
  <2>1. \A b \in DOMAIN marks : bookings[b].status # "CANCELLED"
    BY <1>6 DEF MarkAttendance, CanMarkAttendance
  <2> QED
    BY <1>0, <1>6, <2>1, AttendanceTakenReplays, CommitReplays
       DEF MarkAttendance, AttendanceTaken
<1>7. ASSUME NEW b \in DOMAIN bookings, NEW status \in AttendanceStatuses,
             MarkBookingAttendance(b, status)
      PROVE  TrailsReplay(Tables)'
  BY <1>6, <1>7 DEF MarkBookingAttendance
<1>8. ASSUME NEW s \in DOMAIN sessions, NEW named \in (SUBSET DOMAIN bookings) \ {{}},
             NEW marks \in [named -> AttendanceStatuses], MarkClassAttendance(s, marks)
      PROVE  TrailsReplay(Tables)'
  BY <1>6, <1>8 DEF MarkClassAttendance
<1>9. CASE Tick \/ UNCHANGED vars
  BY <1>9 DEF Tick, vars, Tables, TrailsReplay
<1> QED
  BY <1>1, <1>2, <1>3, <1>4, <1>5, <1>7, <1>8, <1>9 DEF Next

(* The trail of every booking, however long, replays to the status of its row. *)
THEOREM TrailTellsTheStory == Spec => []AuditTrailReplays
<1>1. Init => Typed /\ TrailsReplay(Tables)
  BY InitTyped, TablesFields DEF Init, EmptyTable, TrailsReplay
<1>2. TrailsReplay(Tables) => AuditTrailReplays
  BY TablesFields DEF TrailsReplay, LeadsTo, Follows, AuditTrailReplays
<1> QED
  BY <1>1, <1>2, NextTyped, NextReplays, PTL DEF Spec

-----------------------------------------------------------------------------
(* Rescheduled bookings and the bookings that replace them. *)

Rescheduled(db) ==
  {b \in DOMAIN db.bookings :
     \E i \in DOMAIN db.events[b] : db.events[b][i].type = "RESCHEDULED_FROM"}

Replacements(db) == {b \in DOMAIN db.bookings : db.events[b][1].type = "RESCHEDULED_TO"}

ReplacementsOf(db, b) == {r \in Replacements(db) : db.events[r][1].from = b}

EachReplaced(db) ==
  \A b \in Rescheduled(db) : \E r \in Replacements(db) : ReplacementsOf(db, b) = {r}

EachReplaces(db) ==
  \A r \in Replacements(db) :
    LET b == db.events[r][1].from IN
      /\ b \in Rescheduled(db) \ {r}
      /\ db.bookings[b].status = "CANCELLED"
      /\ db.bookings[r].student = db.bookings[b].student
      /\ db.sessions[db.bookings[r].session].program
           = db.sessions[db.bookings[b].session].program

LinksIn(db) == EachReplaced(db) /\ EachReplaces(db)

Linked == Typed /\ TrailsReplay(Tables) /\ LinksIn(Tables)

(* The bookings of db have moved on in new; how each began is as it was, and so
   is the program of each class. *)
Keeps(db, new) ==
  /\ MovesOn(db, new)
  /\ \A b \in DOMAIN db.bookings : new.events[b][1] = db.events[b][1]
  /\ \A s \in DOMAIN db.sessions :
       s \in DOMAIN new.sessions /\ new.sessions[s].program = db.sessions[s].program

LEMMA KeepsInTwoSteps ==
  ASSUME NEW db, NEW between, NEW new, Keeps(db, between), Keeps(between, new)
  PROVE  Keeps(db, new)
BY DEF Keeps, MovesOn

(* What is kept of a replacement is that it replaces its booking. *)
LEMMA ReplacementKept ==
  ASSUME NEW db, WellTyped(db), EachReplaces(db), NEW new, Keeps(db, new),
         Rescheduled(db) \subseteq Rescheduled(new), NEW r \in Replacements(db)
  PROVE  LET b == new.events[r][1].from IN
           /\ b = db.events[r][1].from
           /\ b \in Rescheduled(new) \ {r}
           /\ new.bookings[b].status = "CANCELLED"
           /\ new.bookings[r].student = new.bookings[b].student
           /\ new.sessions[new.bookings[r].session].program
                = new.sessions[new.bookings[b].session].program
<1> DEFINE b == db.events[r][1].from
<1>1. /\ b \in Rescheduled(db) \ {r}
      /\ db.bookings[b].status = "CANCELLED"
      /\ db.bookings[r].student = db.bookings[b].student
      /\ db.sessions[db.bookings[r].session].program
           = db.sessions[db.bookings[b].session].program
  BY DEF EachReplaces
<1>2. r \in DOMAIN db.bookings /\ b \in DOMAIN db.bookings
  BY <1>1 DEF Replacements, Rescheduled
<1>3. /\ db.bookings[r].session \in DOMAIN db.sessions
      /\ db.bookings[b].session \in DOMAIN db.sessions
  BY <1>2 DEF WellTyped
<1>4. new.events[r][1].from = b
  BY <1>2 DEF Keeps
<1> HIDE DEF b
<1>5. /\ new.bookings[b].status = "CANCELLED"
      /\ new.bookings[b].student = db.bookings[b].student
      /\ new.bookings[b].session = db.bookings[b].session
      /\ new.bookings[r].student = db.bookings[r].student
      /\ new.bookings[r].session = db.bookings[r].session
  BY <1>1, <1>2 DEF Keeps, MovesOn
<1>6. new.sessions[new.bookings[r].session].program
        = new.sessions[new.bookings[b].session].program
  BY <1>1, <1>3, <1>5 DEF Keeps
<1>7. b \in Rescheduled(new) \ {r}
  BY <1>1
<1> QED
  BY <1>1, <1>4, <1>5, <1>6, <1>7 DEF b

(* Requests that reschedule nothing keep the links. *)
LEMMA LinksKept ==
  ASSUME NEW db, WellTyped(db), LinksIn(db), NEW new, Keeps(db, new),
         Rescheduled(new) = Rescheduled(db), Replacements(new) = Replacements(db)
  PROVE  LinksIn(new)
<1>1. EachReplaces(new)
  <2> SUFFICES ASSUME NEW r \in Replacements(db)
               PROVE  LET b == new.events[r][1].from IN
                        /\ b \in Rescheduled(new) \ {r}
                        /\ new.bookings[b].status = "CANCELLED"
                        /\ new.bookings[r].student = new.bookings[b].student
                        /\ new.sessions[new.bookings[r].session].program
                             = new.sessions[new.bookings[b].session].program
    BY DEF EachReplaces
  <2>1. EachReplaces(db) /\ Rescheduled(db) \subseteq Rescheduled(new)
    BY DEF LinksIn
  <2> QED
    BY <2>1, ReplacementKept
<1>2. \A b : ReplacementsOf(new, b) = ReplacementsOf(db, b)
  BY DEF ReplacementsOf, Replacements, Keeps
<1>3. EachReplaced(new)
  BY <1>2 DEF LinksIn, EachReplaced
<1> QED
  BY <1>1, <1>3 DEF LinksIn

(* new is db with one more booking, of student st in a class of the program,
   whose trail opens with event. *)
OneMore(db, new, st, program, event) ==
  /\ Keeps(db, new)
  /\ Rescheduled(new) = Rescheduled(db)
  /\ \E r :
       /\ r \notin DOMAIN db.bookings /\ r \in DOMAIN new.bookings
       /\ new.events[r][1] = event
       /\ new.bookings[r].student = st
       /\ new.sessions[new.bookings[r].session].program = program
       /\ Replacements(new) =
            IF event.type = "RESCHEDULED_TO" THEN Replacements(db) \cup {r} ELSE Replacements(db)

(* A booking that is cancelled to be replaced, and its replacement. *)
LEMMA LinkMade ==
  ASSUME NEW db, WellTyped(db), LinksIn(db), NEW b \in DOMAIN db.bookings,
         db.bookings[b].status = "BOOKED",
         NEW between, Keeps(db, between), DOMAIN between.bookings = DOMAIN db.bookings,
         between.bookings[b].status = "CANCELLED",
         Rescheduled(between) = Rescheduled(db) \cup {b},
         Replacements(between) = Replacements(db),
         NEW new, NEW event, event.type = "RESCHEDULED_TO", event.from = b,
         OneMore(between, new, db.bookings[b].student,
                 db.sessions[db.bookings[b].session].program, event)
  PROVE  LinksIn(new)
<1>1. PICK r :
        /\ r \notin DOMAIN db.bookings /\ r \in DOMAIN new.bookings
        /\ new.events[r][1] = event
        /\ new.bookings[r].student = db.bookings[b].student
        /\ new.sessions[new.bookings[r].session].program
             = db.sessions[db.bookings[b].session].program
        /\ Replacements(new) = Replacements(db) \cup {r}
  BY DEF OneMore
<1>2. /\ Keeps(db, new) /\ Keeps(between, new)
      /\ Rescheduled(new) = Rescheduled(db) \cup {b}
  BY KeepsInTwoSteps DEF OneMore
<1>3. /\ new.bookings[b].status = "CANCELLED"
      /\ new.bookings[b].student = db.bookings[b].student
      /\ new.bookings[b].session = db.bookings[b].session
      /\ new.sessions[db.bookings[b].session].program
           = db.sessions[db.bookings[b].session].program
  BY <1>2 DEF Keeps, MovesOn, WellTyped
<1>4. EachReplaces(new)
  <2> SUFFICES ASSUME NEW x \in Replacements(new)
               PROVE  LET y == new.events[x][1].from IN
                        /\ y \in Rescheduled(new) \ {x}
                        /\ new.bookings[y].status = "CANCELLED"
                        /\ new.bookings[x].student = new.bookings[y].student
                        /\ new.sessions[new.bookings[x].session].program
                             = new.sessions[new.bookings[y].session].program
    BY DEF EachReplaces
  <2>1. CASE x = r
    BY <1>1, <1>2, <1>3, <2>1
  <2>2. CASE x \in Replacements(db)
    <3>1. EachReplaces(db) /\ Keeps(db, new) /\ Rescheduled(db) \subseteq Rescheduled(new)
      BY <1>2 DEF LinksIn
    <3>2. WellTyped(db) /\ x \in Replacements(db)
      BY <2>2
    <3> QED
      BY ONLY <3>1, <3>2, ReplacementKept
  <2> QED
    BY <1>1, <2>1, <2>2
<1>5. \A x \in Replacements(db) :
        new.events[x][1] = db.events[x][1] /\ db.events[x][1].from # b
  BY <1>2 DEF Keeps, Replacements, LinksIn, EachReplaces
<1>6. ReplacementsOf(new, b) = {r}
  BY <1>1, <1>5 DEF ReplacementsOf
<1>7. \A x : x # b => ReplacementsOf(new, x) = ReplacementsOf(db, x)
  BY <1>1, <1>5 DEF ReplacementsOf
<1>8. EachReplaced(new)
  BY <1>1, <1>2, <1>6, <1>7 DEF EachReplaced, LinksIn
<1> QED
  BY <1>4, <1>8 DEF LinksIn

(* A booking is added with a trail of one event. *)
LEMMA AddBookingLinks ==
  ASSUME NEW db, WellTyped(db), NEW st, NEW s \in DOMAIN db.sessions,
         NEW event \in BookingEvent, event.type \in CreationEvents,
         HasNewKey(BookingIds, db.bookings)
  PROVE  OneMore(db, AddBooking(db, st, s, event), st, db.sessions[s].program, event)
<1> DEFINE b == NewKey(BookingIds, db.bookings)
           new == AddBooking(db, st, s, event)
<1>1. b \notin DOMAIN db.bookings /\ DOMAIN db.events = DOMAIN db.bookings
  BY NewKeyIsNew DEF WellTyped
<1>2. /\ DOMAIN new.bookings = DOMAIN db.bookings \cup {b}
      /\ new.bookings[b].student = st /\ new.bookings[b].session = s
      /\ new.events[b] = <<event>> /\ new.sessions = db.sessions
      /\ \A x \in DOMAIN db.bookings :
           new.bookings[x] = db.bookings[x] /\ new.events[x] = db.events[x]
  BY <1>1 DEF AddBooking, WellTyped, IsTables, Insert
<1>3. MovesOn(db, new)
  BY AddBookingMovesOn
<1>4. "RESCHEDULED_FROM" \notin CreationEvents
  BY DEF CreationEvents
<1>5. DOMAIN <<event>> = {1} /\ <<event>>[1] = event
  OBVIOUS
<1> HIDE DEF b, new
<1>6. Keeps(db, new)
  BY <1>2, <1>3 DEF Keeps
<1>7. Rescheduled(new) = Rescheduled(db)
  BY <1>2, <1>4, <1>5 DEF Rescheduled
<1>8. Replacements(new) =
        IF event.type = "RESCHEDULED_TO" THEN Replacements(db) \cup {b} ELSE Replacements(db)
  BY <1>2, <1>5 DEF Replacements
<1> QED
  BY <1>1, <1>2, <1>5, <1>6, <1>7, <1>8 DEF OneMore, new

LEMMA AddOneOnOneBookingLinks ==
  ASSUME NEW db, WellTyped(db), NEW st \in StudentIds, NEW slot \in SlotIds,
         NEW event \in BookingEvent, event.type \in CreationEvents,
         CanCreateOneOnOneBooking(db, st, slot)
  PROVE  OneMore(db, AddOneOnOneBooking(db, st, slot, event), st, "ONE_ON_ONE", event)
<1> DEFINE s == NewKey(SessionIds, db.sessions)
           claimed == ClaimSlot(db, slot)
           new == AddBooking(claimed, st, s, event)
<1>1. HasNewKey(BookingIds, db.bookings) /\ HasNewKey(SessionIds, db.sessions)
  BY DEF CanCreateOneOnOneBooking
<1>2. /\ WellTyped(claimed) /\ s \in DOMAIN claimed.sessions
      /\ claimed.bookings = db.bookings
      /\ DOMAIN claimed.sessions = DOMAIN db.sessions \cup {s}
      /\ \A x \in DOMAIN db.sessions : claimed.sessions[x] = db.sessions[x]
  BY <1>1, ClaimSlotTyped, ClaimSlotKeepsClasses
<1>3. claimed.events = db.events /\ claimed.sessions[s].program = "ONE_ON_ONE"
  BY <1>1 DEF ClaimSlot, WellTyped, IsTables, Insert
<1> HIDE DEF s, claimed
<1>4. OneMore(claimed, new, st, "ONE_ON_ONE", event)
  BY <1>1, <1>2, <1>3, AddBookingLinks
<1> HIDE DEF new
<1>5. Keeps(db, claimed)
  BY <1>2, <1>3 DEF Keeps, MovesOn
<1>6. Rescheduled(claimed) = Rescheduled(db) /\ Replacements(claimed) = Replacements(db)
  BY <1>2, <1>3 DEF Rescheduled, Replacements
<1>7. Keeps(db, new)
  BY <1>4, <1>5, KeepsInTwoSteps DEF OneMore
<1>8. OneMore(db, new, st, "ONE_ON_ONE", event)
  BY <1>2, <1>4, <1>6, <1>7 DEF OneMore
<1> QED
  BY <1>8 DEF AddOneOnOneBooking, s, claimed, new

(* A booking that is not a replacement's leaves the links as they are. *)
LEMMA OneMoreLinks ==
  ASSUME NEW db, WellTyped(db), LinksIn(db), NEW new, NEW st, NEW program, NEW event,
         OneMore(db, new, st, program, event), event.type # "RESCHEDULED_TO"
  PROVE  LinksIn(new)
BY LinksKept DEF OneMore

(* A cancellation marks its booking as rescheduled when that is its reason. *)
LEMMA CancelExistingBookingLinks ==
  ASSUME NEW db, WellTyped(db), TrailsReplay(db), NEW b \in DOMAIN db.bookings,
         db.bookings[b].status = "BOOKED", NEW type \in CancellationEvents
  PROVE  LET new == CancelExistingBooking(db, b, type) IN
           /\ Keeps(db, new) /\ DOMAIN new.bookings = DOMAIN db.bookings
           /\ new.bookings[b].status = "CANCELLED"
           /\ Rescheduled(new) = IF type = "RESCHEDULED_FROM" THEN Rescheduled(db) \cup {b}
                                 ELSE Rescheduled(db)
           /\ Replacements(new) = Replacements(db)
<1> DEFINE new == CancelExistingBooking(db, b, type)
           trail == db.events[b]
           tail == CancelEvents(db, b, type)
<1>1. /\ new.bookings = [db.bookings EXCEPT ![b].status = "CANCELLED"]
      /\ new.events = [db.events EXCEPT ![b] = trail \o tail]
      /\ \/ new.sessions = [db.sessions EXCEPT ![db.bookings[b].session].status = "CANCELLED"]
         \/ new.sessions = db.sessions
  BY DEF CancelExistingBooking
<1>2. MovesOn(db, new)
  BY CancelExistingBookingMovesOn
<1>3. /\ trail \in Seq(BookingEvent) /\ Len(trail) > 0
  BY DEF TrailsReplay, LeadsTo
<1>4. /\ tail \in Seq(BookingEvent) /\ Len(tail) \in {1, 2}
      /\ tail[1].type = type
      /\ Len(tail) = 2 => tail[2].type = "CLASS_CANCELLED_EMPTY"
  <2>1. Event(type) \in BookingEvent /\ Event("CLASS_CANCELLED_EMPTY") \in BookingEvent
    BY DEF Event, BookingEvent, EventTypes, CancellationEvents
  <2>2. Event(type).type = type /\ Event("CLASS_CANCELLED_EMPTY").type = "CLASS_CANCELLED_EMPTY"
    BY DEF Event
  <2> QED
    BY <2>1, <2>2 DEF CancelEvents
<1>5. /\ DOMAIN new.bookings = DOMAIN db.bookings
      /\ new.bookings[b].status = "CANCELLED"
      /\ new.events[b] = trail \o tail
      /\ \A x \in DOMAIN db.bookings : x # b => new.events[x] = db.events[x]
  <2>1. [db.bookings[b] EXCEPT !.status = "CANCELLED"].status = "CANCELLED"
    BY BookingStatusWritten DEF WellTyped, BookingStatuses
  <2> QED
    BY <1>1, <2>1 DEF WellTyped
<1>6. \A s \in DOMAIN db.sessions :
        s \in DOMAIN new.sessions /\ new.sessions[s].program = db.sessions[s].program
  <2>1. db.bookings[b].session \in DOMAIN db.sessions
    BY DEF WellTyped
  <2>2. [db.sessions[db.bookings[b].session] EXCEPT !.status = "CANCELLED"].program
          = db.sessions[db.bookings[b].session].program
    BY <2>1, SessionStatusWritten DEF WellTyped, SessionStatuses
  <2> QED
    BY <1>1, <2>1, <2>2 DEF WellTyped
<1> HIDE DEF new, trail, tail
<1>7. (trail \o tail)[1] = trail[1]
  BY <1>3, <1>4
<1>8. (\E i \in DOMAIN (trail \o tail) : (trail \o tail)[i].type = "RESCHEDULED_FROM")
        <=> \/ \E i \in DOMAIN trail : trail[i].type = "RESCHEDULED_FROM"
            \/ type = "RESCHEDULED_FROM"
  <2>1. /\ DOMAIN (trail \o tail) = 1 .. Len(trail) + Len(tail)
        /\ DOMAIN trail = 1 .. Len(trail) /\ Len(trail) \in Nat
        /\ \A i \in 1 .. Len(trail) : (trail \o tail)[i] = trail[i]
        /\ \A i \in 1 .. Len(tail) : (trail \o tail)[Len(trail) + i] = tail[i]
    BY <1>3, <1>4
  <2>2. \A i \in 1 .. Len(trail) + Len(tail) :
          i \in 1 .. Len(trail) \/ \E j \in 1 .. Len(tail) : i = Len(trail) + j
    <3> SUFFICES ASSUME NEW i \in 1 .. Len(trail) + Len(tail), i \notin 1 .. Len(trail)
                 PROVE  \E j \in 1 .. Len(tail) : i = Len(trail) + j
      OBVIOUS
    <3>1. i - Len(trail) \in 1 .. Len(tail) /\ i = Len(trail) + (i - Len(trail))
      BY <1>4, <2>1
    <3> QED
      BY <3>1
  <2>3. (\E j \in 1 .. Len(tail) : tail[j].type = "RESCHEDULED_FROM") <=> type = "RESCHEDULED_FROM"
    <3>1. CASE Len(tail) = 1
      BY <1>4, <3>1
    <3>2. CASE Len(tail) = 2
      <4>1. \A j \in 1 .. 2 : j = 1 \/ j = 2
        OBVIOUS
      <4> QED
        BY <1>4, <3>2, <4>1
    <3> QED
      BY <1>4, <3>1, <3>2
  <2>4. /\ 1 .. Len(trail) \subseteq 1 .. Len(trail) + Len(tail)
        /\ \A j \in 1 .. Len(tail) : Len(trail) + j \in 1 .. Len(trail) + Len(tail)
    BY <1>4, <2>1
  <2>5. ASSUME NEW i \in DOMAIN (trail \o tail), (trail \o tail)[i].type = "RESCHEDULED_FROM"
        PROVE  \/ \E j \in DOMAIN trail : trail[j].type = "RESCHEDULED_FROM"
               \/ type = "RESCHEDULED_FROM"
    <3>1. CASE i \in 1 .. Len(trail)
      BY <2>1, <2>5, <3>1
    <3>2. ASSUME NEW j \in 1 .. Len(tail), i = Len(trail) + j
          PROVE  type = "RESCHEDULED_FROM"
      BY <2>1, <2>3, <2>5, <3>2
    <3> QED
      BY <2>1, <2>2, <3>1, <3>2
  <2>6. ASSUME NEW j \in DOMAIN trail, trail[j].type = "RESCHEDULED_FROM"
        PROVE  \E i \in DOMAIN (trail \o tail) : (trail \o tail)[i].type = "RESCHEDULED_FROM"
    <3>1. j \in DOMAIN (trail \o tail) /\ (trail \o tail)[j] = trail[j]
      BY <2>1, <2>4
    <3> QED
      BY <2>6, <3>1
  <2>7. ASSUME type = "RESCHEDULED_FROM"
        PROVE  \E i \in DOMAIN (trail \o tail) : (trail \o tail)[i].type = "RESCHEDULED_FROM"
    <3>1. PICK j \in 1 .. Len(tail) : tail[j].type = "RESCHEDULED_FROM"
      BY <2>3, <2>7
    <3>2. /\ Len(trail) + j \in DOMAIN (trail \o tail)
          /\ (trail \o tail)[Len(trail) + j] = tail[j]
      BY <2>1, <2>4
    <3> QED
      BY <3>1, <3>2
  <2> QED
    BY <2>5, <2>6, <2>7
<1>9. Keeps(db, new)
  BY <1>2, <1>5, <1>6, <1>7 DEF Keeps, trail
<1>10. Rescheduled(new) = IF type = "RESCHEDULED_FROM" THEN Rescheduled(db) \cup {b}
                          ELSE Rescheduled(db)
  BY <1>5, <1>8 DEF Rescheduled, trail
<1>11. Replacements(new) = Replacements(db)
  BY <1>5, <1>7 DEF Replacements, trail
<1> QED
  BY <1>5, <1>9, <1>10, <1>11 DEF new

(* Attendance has nothing to do with the links. *)
LEMMA AttendanceTakenLinks ==
  ASSUME NEW db, WellTyped(db), TrailsReplay(db), LinksIn(db), NEW s \in DOMAIN db.sessions,
         NEW marks, DOMAIN marks \subseteq DOMAIN db.bookings,
         \A b \in DOMAIN marks :
           marks[b] \in AttendanceStatuses /\ db.bookings[b].status # "CANCELLED"
  PROVE  LinksIn(AttendanceTaken(db, s, marks))
<1> DEFINE marked == MarkBookings(db, marks)
           new == AttendanceTaken(db, s, marks)
<1>1. /\ marked.events = [b \in DOMAIN db.events |->
            IF b \in DOMAIN marks
            THEN Append(db.events[b], AttendanceMarked(db.bookings[b].status, marks[b]))
            ELSE db.events[b]]
      /\ IsTables(marked)
  BY DEF MarkBookings, WellTyped, IsTables
<1>2. /\ marked.sessions = db.sessions /\ DOMAIN marked.bookings = DOMAIN db.bookings
      /\ WellTyped(marked)
  BY MarkBookingsTyped
<1> HIDE DEF marked
<1>3. /\ new.bookings = marked.bookings /\ new.events = marked.events
      /\ \/ new.sessions = db.sessions
         \/ new.sessions = [db.sessions EXCEPT ![s].status = "COMPLETED"]
  BY <1>1, <1>2 DEF AttendanceTaken, CompleteClassSessionIfAttendanceMarked, IsTables, marked
<1>4. MovesOn(db, new)
  BY AttendanceTakenMovesOn
<1> HIDE DEF new
<1>5. \A x \in DOMAIN db.sessions :
        x \in DOMAIN new.sessions /\ new.sessions[x].program = db.sessions[x].program
  <2>1. [db.sessions[s] EXCEPT !.status = "COMPLETED"].program = db.sessions[s].program
    BY SessionStatusWritten DEF WellTyped, SessionStatuses
  <2> QED
    BY <1>3, <2>1 DEF WellTyped
<1>6. ASSUME NEW b \in DOMAIN db.bookings
      PROVE  /\ new.events[b][1] = db.events[b][1]
             /\ (\E i \in DOMAIN new.events[b] : new.events[b][i].type = "RESCHEDULED_FROM")
                  <=> \E i \in DOMAIN db.events[b] : db.events[b][i].type = "RESCHEDULED_FROM"
  <2> DEFINE trail == db.events[b]
             event == AttendanceMarked(db.bookings[b].status, marks[b])
  <2>1. trail \in Seq(BookingEvent) /\ Len(trail) > 0
    BY DEF TrailsReplay, LeadsTo
  <2>2. CASE b \notin DOMAIN marks
    BY <1>1, <1>3, <2>2 DEF WellTyped
  <2>3. CASE b \in DOMAIN marks
    <3>1. new.events[b] = Append(trail, event)
      BY <1>1, <1>3, <2>3 DEF WellTyped
    <3>2. event.type = "ATTENDANCE_MARKED"
      BY DEF AttendanceMarked
    <3> HIDE DEF trail, event
    <3>3. /\ DOMAIN Append(trail, event) = DOMAIN trail \cup {Len(trail) + 1}
          /\ \A i \in DOMAIN trail : Append(trail, event)[i] = trail[i]
          /\ Append(trail, event)[Len(trail) + 1] = event
          /\ 1 \in DOMAIN trail
      BY <2>1
    <3> QED
      BY <3>1, <3>2, <3>3 DEF trail
  <2> QED
    BY <2>2, <2>3
<1>7. Keeps(db, new)
  BY <1>4, <1>5, <1>6 DEF Keeps
<1>8. Rescheduled(new) = Rescheduled(db) /\ Replacements(new) = Replacements(db)
  BY <1>2, <1>3, <1>6 DEF Rescheduled, Replacements
<1>9. LinksIn(new)
  BY <1>7, <1>8, LinksKept
<1> QED
  BY <1>9 DEF new

LEMMA CommitLinks ==
  ASSUME NEW db, LinksIn(db), Commit(db)
  PROVE  LinksIn(Tables)'
<1>1. Tables'.bookings = db.bookings /\ Tables'.events = db.events /\ Tables'.sessions = db.sessions
  BY DEF Commit, Tables
<1> QED
  BY <1>1 DEF LinksIn, EachReplaced, EachReplaces, ReplacementsOf, Rescheduled, Replacements

LEMMA NextLinks == Linked /\ [Next]_vars => LinksIn(Tables)'
<1> SUFFICES ASSUME Linked, [Next]_vars PROVE LinksIn(Tables)'
  OBVIOUS
<1>0. /\ WellTyped(Tables) /\ TrailsReplay(Tables) /\ LinksIn(Tables)
      /\ Tables.bookings = bookings /\ Tables.sessions = sessions
      /\ DOMAIN bookings \subseteq BookingIds
      /\ \A b \in DOMAIN bookings :
           bookings[b].student \in StudentIds /\ bookings[b].session \in DOMAIN sessions
      /\ \A type \in CreationEvents : Event(type) \in BookingEvent /\ Event(type).type = type
      /\ \A b \in BookingIds :
           /\ RescheduledTo(b) \in BookingEvent
           /\ RescheduledTo(b).type = "RESCHEDULED_TO" /\ RescheduledTo(b).from = b
      /\ {"BOOKED", "RESCHEDULED_TO", "MANUALLY_ADDED_BY_ADMIN"} = CreationEvents
  BY TablesFields, EventsTyped
     DEF Linked, Typed, TypeOK, WellTyped, Booking, Event, RescheduledTo, CreationEvents
<1>1. ASSUME NEW st \in StudentIds, NEW s \in DOMAIN sessions,
             CreateBatchBooking(st, s) \/ AdminAddStudentToClass(st, s)
      PROVE  LinksIn(Tables)'
  <2>1. PICK type \in {"BOOKED", "MANUALLY_ADDED_BY_ADMIN"} :
          Commit(AddBooking(Tables, st, s, Event(type))) /\ HasNewKey(BookingIds, bookings)
    BY <1>0, <1>1 DEF CreateBatchBooking, CanCreateBatchBooking, AdminAddStudentToClass
  <2>2. OneMore(Tables, AddBooking(Tables, st, s, Event(type)), st, sessions[s].program, Event(type))
    BY <1>0, <2>1, AddBookingLinks
  <2> QED
    BY <1>0, <2>1, <2>2, OneMoreLinks, CommitLinks
<1>2. ASSUME NEW st \in StudentIds, NEW slot \in SlotIds, CreateOneOnOneBooking(st, slot)
      PROVE  LinksIn(Tables)'
  <2> DEFINE new == AddOneOnOneBooking(Tables, st, slot, Event("BOOKED"))
  <2>1. Commit(new) /\ OneMore(Tables, new, st, "ONE_ON_ONE", Event("BOOKED"))
    BY <1>0, <1>2, AddOneOnOneBookingLinks DEF CreateOneOnOneBooking
  <2> HIDE DEF new
  <2> QED
    BY <1>0, <2>1, OneMoreLinks, CommitLinks
<1>3. ASSUME NEW b \in DOMAIN bookings, CancelBooking(b) \/ AdminCancelBooking(b)
      PROVE  LinksIn(Tables)'
  <2>1. PICK type \in CancellationEvents \ {"RESCHEDULED_FROM"} :
          Commit(CancelExistingBooking(Tables, b, type)) /\ bookings[b].status = "BOOKED"
    BY <1>3 DEF CancelBooking, AdminCancelBooking, CanCancel, CancellationEvents
  <2>2. LinksIn(CancelExistingBooking(Tables, b, type))
    BY <1>0, <2>1, CancelExistingBookingLinks, LinksKept
  <2> QED
    BY <2>1, <2>2, CommitLinks
<1>4. ASSUME NEW b \in DOMAIN bookings, NEW s \in DOMAIN sessions, NEW cutoff \in BOOLEAN,
             RescheduleBatchBooking(b, s, cutoff)
      PROVE  LinksIn(Tables)'
  <2> DEFINE db == CancelExistingBooking(Tables, b, "RESCHEDULED_FROM")
             new == AddBooking(db, bookings[b].student, s, RescheduledTo(b))
  <2>1. /\ bookings[b].status = "BOOKED" /\ CanCreateBatchBooking(db, bookings[b].student, s)
        /\ sessions[bookings[b].session].program = "BATCH" /\ Commit(new)
    BY <1>4 DEF RescheduleBatchBooking, CanCancel
  <2>2. WellTyped(db) /\ DOMAIN db.sessions = DOMAIN sessions
    BY <1>0, CancelExistingBookingTyped DEF CancellationEvents
  <2>3. /\ Keeps(Tables, db) /\ DOMAIN db.bookings = DOMAIN bookings
        /\ db.bookings[b].status = "CANCELLED"
        /\ Rescheduled(db) = Rescheduled(Tables) \cup {b}
        /\ Replacements(db) = Replacements(Tables)
    BY <1>0, <2>1, CancelExistingBookingLinks DEF CancellationEvents
  <2> HIDE DEF db
  <2>4. HasNewKey(BookingIds, db.bookings) /\ db.sessions[s].program = "BATCH"
    BY <2>1 DEF CanCreateBatchBooking
  <2>5. OneMore(db, new, bookings[b].student, "BATCH", RescheduledTo(b))
    BY <1>0, <2>2, <2>4, AddBookingLinks
  <2> HIDE DEF new
  <2>6. b \in BookingIds /\ Tables.bookings[b] = bookings[b]
    BY <1>0
  <2>7. LinksIn(new)
    BY <1>0, <2>1, <2>3, <2>5, <2>6, LinkMade
  <2> QED
    BY <2>1, <2>7, CommitLinks
<1>5. ASSUME NEW b \in DOMAIN bookings, NEW slot \in SlotIds, NEW cutoff \in BOOLEAN,
             RescheduleOneOnOneBooking(b, slot, cutoff)
      PROVE  LinksIn(Tables)'
  <2> DEFINE db == CancelExistingBooking(Tables, b, "RESCHEDULED_FROM")
             st == bookings[b].student
             new == AddOneOnOneBooking(db, st, slot, RescheduledTo(b))
  <2>1. /\ bookings[b].status = "BOOKED" /\ CanCreateOneOnOneBooking(db, st, slot)
        /\ sessions[bookings[b].session].program = "ONE_ON_ONE" /\ Commit(new)
    BY <1>5 DEF RescheduleOneOnOneBooking, CanCancel
  <2>2. WellTyped(db)
    BY <1>0, CancelExistingBookingTyped DEF CancellationEvents
  <2>3. /\ Keeps(Tables, db) /\ DOMAIN db.bookings = DOMAIN bookings
        /\ db.bookings[b].status = "CANCELLED"
        /\ Rescheduled(db) = Rescheduled(Tables) \cup {b}
        /\ Replacements(db) = Replacements(Tables)
    BY <1>0, <2>1, CancelExistingBookingLinks DEF CancellationEvents
  <2> HIDE DEF db
  <2>4. OneMore(db, new, st, "ONE_ON_ONE", RescheduledTo(b))
    BY <1>0, <2>1, <2>2, AddOneOnOneBookingLinks
  <2> HIDE DEF new
  <2>5. b \in BookingIds /\ Tables.bookings[b] = bookings[b]
    BY <1>0
  <2>6. LinksIn(new)
    BY <1>0, <2>1, <2>3, <2>4, <2>5, LinkMade
  <2> QED
    BY <2>1, <2>6, CommitLinks
<1>6. ASSUME NEW s \in DOMAIN sessions, NEW marks, DOMAIN marks \subseteq DOMAIN bookings,
             \A b \in DOMAIN marks : marks[b] \in AttendanceStatuses, MarkAttendance(s, marks)
      PROVE  LinksIn(Tables)'
  <2>1. \A b \in DOMAIN marks : bookings[b].status # "CANCELLED"
    BY <1>6 DEF MarkAttendance, CanMarkAttendance
  <2> QED
    BY <1>0, <1>6, <2>1, AttendanceTakenLinks, CommitLinks DEF MarkAttendance, AttendanceTaken
<1>7. ASSUME NEW b \in DOMAIN bookings, NEW status \in AttendanceStatuses,
             MarkBookingAttendance(b, status)
      PROVE  LinksIn(Tables)'
  BY <1>0, <1>6, <1>7 DEF MarkBookingAttendance
<1>8. ASSUME NEW s \in DOMAIN sessions, NEW named \in (SUBSET DOMAIN bookings) \ {{}},
             NEW marks \in [named -> AttendanceStatuses], MarkClassAttendance(s, marks)
      PROVE  LinksIn(Tables)'
  BY <1>6, <1>8 DEF MarkClassAttendance
<1>9. CASE Tick \/ UNCHANGED vars
  <2>1. Tables' = Tables
    BY <1>9 DEF Tick, vars, Tables
  <2> QED
    BY <1>0, <2>1
       DEF LinksIn, EachReplaced, EachReplaces, ReplacementsOf, Rescheduled, Replacements
<1> QED
  BY <1>1, <1>2, <1>3, <1>4, <1>5, <1>7, <1>8, <1>9 DEF Next

(* However often a booking is moved on, each rescheduled booking has exactly one
   replacement, of its student and program, and each replacement replaces one. *)
THEOREM LinksNeverBreak == Spec => []RescheduleLinks
<1>1. Init => Linked
  BY InitTyped, TablesFields
     DEF Init, EmptyTable, TrailsReplay, Linked, LinksIn, EachReplaced, EachReplaces,
         Rescheduled, Replacements
<1>2. Linked /\ [Next]_vars => Linked'
  BY NextTyped, NextReplays, NextLinks DEF Linked
<1>3. Linked => RescheduleLinks
  BY TablesFields
     DEF Linked, LinksIn, EachReplaced, EachReplaces, ReplacementsOf, Rescheduled,
         Replacements, RescheduleLinks
<1> QED
  BY <1>1, <1>2, <1>3, PTL DEF Spec

=============================================================================
