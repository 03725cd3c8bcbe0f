--------------------------- MODULE EnrolmentSafety ---------------------------
(***************************************************************************)
(* The theorems about Enrolment.  An administrator's change of a program, a   *)
(* membership or a group undoes bookings without the checks of BookingService. *)
(* It keeps every invariant that is proved of Bookings, and the two that tie   *)
(* coming classes to memberships and groups; as a step it only cancels, and on *)
(* the teachers' time it is a student's giving up of slots.                  *)
(***************************************************************************)
EXTENDS Enrolment, BookingsClasses

-----------------------------------------------------------------------------
(* The inductive invariant. *)

(* Attendance is taken of classes that have started: nobody in a coming one
   has been marked. *)
UnmarkedToCome(db) ==
  \A b \in DOMAIN db.bookings :
    db.sessions[db.bookings[b].session].startsAt > now
      => db.bookings[b].status \notin AttendanceStatuses

SeatsBelong(db) ==
  \A b \in FutureBookings(db) :
    LET class == db.sessions[db.bookings[b].session] IN
      class.program = "BATCH" /\ db.events[b][1].type # "MANUALLY_ADDED_BY_ADMIN"
        => memberships[db.bookings[b].student] = class.group

GroupsQuiet(db) ==
  \A g \in GroupIds :
    ~groups[g] =>
      /\ FutureBookingsInGroup(db, g) = {}
      /\ \A s \in DOMAIN db.sessions :
           db.sessions[s].group = g /\ db.sessions[s].startsAt > now
             => db.sessions[s].status # "SCHEDULED"

EnrolledIn(db) == UnmarkedToCome(db) /\ SeatsBelong(db) /\ GroupsQuiet(db)

Enrolled ==
  /\ Held /\ TrailsReplay(Tables)
  /\ groups \in [GroupIds -> BOOLEAN]
  /\ EnrolledIn(Tables)

(* The group of a class is its own for good. *)
LEMMA SessionGroupKept ==
  ASSUME NEW row \in Session, NEW status
  PROVE  [row EXCEPT !.status = status].group = row.group
<1>1. CASE row \in OneOnOneSession
  BY <1>1 DEF OneOnOneSession
<1>2. CASE row \in BatchSession
  BY <1>2 DEF BatchSession
<1> QED
  BY <1>1, <1>2 DEF Session

LEMMA TimesAreNat ==
  ASSUME NEW db, WellTyped(db)
  PROVE  \A s \in DOMAIN db.sessions : db.sessions[s].startsAt \in Nat
<1> SUFFICES ASSUME NEW s \in DOMAIN db.sessions PROVE db.sessions[s].startsAt \in Nat
  OBVIOUS
<1>1. db.sessions[s] \in Session
  BY DEF WellTyped
<1> QED
  BY <1>1 DEF Session, OneOnOneSession, BatchSession

-----------------------------------------------------------------------------
(* Requests that create no row. *)

(* Rows keep what they are about; nothing is booked or scheduled again, and
   attendance is taken of what has started. *)
Advances(db, new) ==
  /\ DOMAIN new.bookings = DOMAIN db.bookings
  /\ DOMAIN new.sessions = DOMAIN db.sessions
  /\ \A b \in DOMAIN db.bookings :
       /\ new.bookings[b].student = db.bookings[b].student
       /\ new.bookings[b].session = db.bookings[b].session
       /\ new.bookings[b].status = "BOOKED" => db.bookings[b].status = "BOOKED"
       /\ new.bookings[b].status \in AttendanceStatuses =>
            \/ db.bookings[b].status \in AttendanceStatuses
            \/ db.sessions[db.bookings[b].session].startsAt <= now
       /\ new.events[b][1] = db.events[b][1]
  /\ \A s \in DOMAIN db.sessions :
       /\ new.sessions[s].program = db.sessions[s].program
       /\ new.sessions[s].group = db.sessions[s].group
       /\ new.sessions[s].startsAt = db.sessions[s].startsAt
       /\ new.sessions[s].status = "SCHEDULED" => db.sessions[s].status = "SCHEDULED"

LEMMA AdvancesFuture ==
  ASSUME NEW db, WellTyped(db), NEW new, Advances(db, new)
  PROVE  /\ FutureBookings(new) \subseteq FutureBookings(db)
         /\ \A g : FutureBookingsInGroup(new, g) \subseteq FutureBookingsInGroup(db, g)
<1>1. FutureBookings(new) \subseteq FutureBookings(db)
  BY DEF Advances, FutureBookings, WellTyped
<1> QED
  BY <1>1 DEF Advances, FutureBookings, FutureBookingsInGroup, WellTyped

LEMMA AdvancesEnrolled ==
  ASSUME NEW db, WellTyped(db), EnrolledIn(db), now \in Nat, NEW new, Advances(db, new)
  PROVE  EnrolledIn(new)
<1>0. \A b \in DOMAIN db.bookings : db.bookings[b].session \in DOMAIN db.sessions
  BY DEF WellTyped
<1>1. UnmarkedToCome(new)
  BY <1>0, TimesAreNat DEF EnrolledIn, UnmarkedToCome, Advances
<1>2. SeatsBelong(new)
  <2> SUFFICES ASSUME NEW b \in FutureBookings(new),
                      new.sessions[new.bookings[b].session].program = "BATCH",
                      new.events[b][1].type # "MANUALLY_ADDED_BY_ADMIN"
               PROVE  memberships[new.bookings[b].student]
                        = new.sessions[new.bookings[b].session].group
    BY DEF SeatsBelong
  <2>1. b \in FutureBookings(db) /\ b \in DOMAIN db.bookings
    BY AdvancesFuture DEF FutureBookings
  <2>2. /\ new.bookings[b].student = db.bookings[b].student
        /\ new.bookings[b].session = db.bookings[b].session
        /\ new.events[b][1] = db.events[b][1]
        /\ new.sessions[db.bookings[b].session].program = db.sessions[db.bookings[b].session].program
        /\ new.sessions[db.bookings[b].session].group = db.sessions[db.bookings[b].session].group
    BY <1>0, <2>1 DEF Advances
  <2> QED
    BY <2>1, <2>2 DEF EnrolledIn, SeatsBelong
<1>3. GroupsQuiet(new)
  <2> SUFFICES ASSUME NEW g \in GroupIds, ~groups[g]
               PROVE  /\ FutureBookingsInGroup(new, g) = {}
                      /\ \A s \in DOMAIN new.sessions :
                           new.sessions[s].group = g /\ new.sessions[s].startsAt > now
                             => new.sessions[s].status # "SCHEDULED"
    BY DEF GroupsQuiet
  <2>1. FutureBookingsInGroup(db, g) = {}
    BY DEF EnrolledIn, GroupsQuiet
  <2>2. \A s \in DOMAIN db.sessions :
          db.sessions[s].group = g /\ db.sessions[s].startsAt > now
            => db.sessions[s].status # "SCHEDULED"
    BY DEF EnrolledIn, GroupsQuiet
  <2> QED
    BY <2>1, <2>2, AdvancesFuture DEF Advances
<1> QED
  BY <1>1, <1>2, <1>3 DEF EnrolledIn

LEMMA CancelExistingBookingAdvances ==
  ASSUME NEW db, WellTyped(db), TrailsReplay(db), NEW b \in DOMAIN db.bookings, NEW type,
         type \in CancellationEvents
  PROVE  Advances(db, CancelExistingBooking(db, b, type))
<1> DEFINE s == db.bookings[b].session
           new == CancelExistingBooking(db, b, type)
<1>1. /\ new.bookings = [db.bookings EXCEPT ![b].status = "CANCELLED"]
      /\ \/ new.sessions = [db.sessions EXCEPT ![s].status = "CANCELLED"]
         \/ new.sessions = db.sessions
      /\ new.events = [db.events EXCEPT ![b] = db.events[b] \o CancelEvents(db, b, type)]
  BY DEF CancelExistingBooking
<1>2. s \in DOMAIN db.sessions /\ db.sessions[s] \in Session
  BY DEF WellTyped
<1>3. CancelEvents(db, b, type) \in Seq(BookingEvent)
  <2>1. Event(type) \in BookingEvent /\ Event("CLASS_CANCELLED_EMPTY") \in BookingEvent
    BY DEF Event, BookingEvent, EventTypes, CancellationEvents
  <2> QED
    BY <2>1 DEF CancelEvents
<1>4. (db.events[b] \o CancelEvents(db, b, type))[1] = db.events[b][1]
  <2>1. db.events[b] \in Seq(BookingEvent) /\ Len(db.events[b]) > 0
    BY DEF TrailsReplay, LeadsTo
  <2> QED
    BY <1>3, <2>1
<1> HIDE DEF s, new
<1>5. ASSUME NEW x \in DOMAIN db.bookings
      PROVE  /\ new.bookings[x].student = db.bookings[x].student
             /\ new.bookings[x].session = db.bookings[x].session
             /\ new.bookings[x].status \in {"CANCELLED", db.bookings[x].status}
             /\ new.events[x][1] = db.events[x][1]
  <2>1. LET row == [db.bookings[b] EXCEPT !.status = "CANCELLED"] IN
          /\ row.student = db.bookings[b].student /\ row.session = db.bookings[b].session
          /\ row.status = "CANCELLED"
    BY BookingStatusWritten DEF WellTyped, BookingStatuses
  <2>2. new.events[x][1] = db.events[x][1]
    BY <1>1, <1>4 DEF WellTyped
  <2> QED
    BY <1>1, <2>1, <2>2 DEF WellTyped
<1>6. ASSUME NEW x \in DOMAIN db.sessions
      PROVE  /\ new.sessions[x].program = db.sessions[x].program
             /\ new.sessions[x].group = db.sessions[x].group
             /\ new.sessions[x].startsAt = db.sessions[x].startsAt
             /\ new.sessions[x].status \in {"CANCELLED", db.sessions[x].status}
  <2>1. LET row == [db.sessions[s] EXCEPT !.status = "CANCELLED"] IN
          /\ row.program = db.sessions[s].program /\ row.group = db.sessions[s].group
          /\ row.startsAt = db.sessions[s].startsAt /\ row.status = "CANCELLED"
    BY <1>2, SessionStatusWritten, SessionGroupKept DEF SessionStatuses
  <2> QED
    BY <1>1, <1>2, <2>1 DEF WellTyped
<1>7. DOMAIN new.bookings = DOMAIN db.bookings /\ DOMAIN new.sessions = DOMAIN db.sessions
  BY <1>1 DEF WellTyped
<1> QED
  BY <1>5, <1>6, <1>7 DEF Advances, AttendanceStatuses, new

LEMMA AttendanceTakenAdvances ==
  ASSUME NEW db, WellTyped(db), TrailsReplay(db), NEW s \in DOMAIN db.sessions,
         NEW marks, DOMAIN marks \subseteq DOMAIN db.bookings,
         \A b \in DOMAIN marks :
           /\ marks[b] \in AttendanceStatuses /\ db.bookings[b].status # "CANCELLED"
           /\ db.sessions[db.bookings[b].session].startsAt <= now
  PROVE  Advances(db, AttendanceTaken(db, s, marks))
<1> DEFINE marked == MarkBookings(db, marks)
           new == AttendanceTaken(db, s, marks)
<1>1. /\ marked.bookings = [b \in DOMAIN db.bookings |->
            IF b \in DOMAIN marks
            THEN [db.bookings[b] EXCEPT !.status = marks[b]] ELSE db.bookings[b]]
      /\ marked.events = [b \in DOMAIN db.events |->
            IF b \in DOMAIN marks
            THEN Append(db.events[b], AttendanceMarked(db.bookings[b].status, marks[b]))
            ELSE db.events[b]]
      /\ marked.sessions = db.sessions
      /\ WellTyped(marked)
  BY MarkBookingsTyped DEF MarkBookings, WellTyped, IsTables
<1> HIDE DEF marked
<1>2. /\ new.bookings = marked.bookings /\ new.events = marked.events
      /\ \/ new.sessions = db.sessions
         \/ new.sessions = [db.sessions EXCEPT ![s].status = "COMPLETED"]
  BY <1>1 DEF AttendanceTaken, CompleteClassSessionIfAttendanceMarked, WellTyped, IsTables,
              marked
<1> HIDE DEF new
<1>3. ASSUME NEW b \in DOMAIN db.bookings
      PROVE  /\ new.bookings[b].student = db.bookings[b].student
             /\ new.bookings[b].session = db.bookings[b].session
             /\ new.bookings[b].status = db.bookings[b].status \/ b \in DOMAIN marks
             /\ b \in DOMAIN marks => new.bookings[b].status = marks[b]
             /\ new.events[b][1] = db.events[b][1]
  <2>1. CASE b \in DOMAIN marks
    <3>1. db.bookings[b] \in Booking /\ marks[b] \in BookingStatuses
      BY <2>1 DEF WellTyped, BookingStatuses
    <3>2. db.events[b] \in Seq(BookingEvent) /\ Len(db.events[b]) > 0
      BY DEF TrailsReplay, LeadsTo
    <3>3. new.events[b] = Append(db.events[b], AttendanceMarked(db.bookings[b].status, marks[b]))
      BY <1>1, <1>2, <2>1 DEF WellTyped
    <3>4. new.events[b][1] = db.events[b][1]
      BY <3>2, <3>3
    <3>5. new.bookings[b] = [db.bookings[b] EXCEPT !.status = marks[b]]
      BY <1>1, <1>2, <2>1
    <3> QED
      BY <2>1, <3>1, <3>4, <3>5, BookingStatusWritten
  <2>2. CASE b \notin DOMAIN marks
    BY <1>1, <1>2, <2>2 DEF WellTyped
  <2> QED
    BY <2>1, <2>2
<1>4. ASSUME NEW x \in DOMAIN db.sessions
      PROVE  /\ new.sessions[x].program = db.sessions[x].program
             /\ new.sessions[x].group = db.sessions[x].group
             /\ new.sessions[x].startsAt = db.sessions[x].startsAt
             /\ new.sessions[x].status \in {"COMPLETED", db.sessions[x].status}
  <2>1. LET row == [db.sessions[s] EXCEPT !.status = "COMPLETED"] IN
          /\ row.program = db.sessions[s].program /\ row.group = db.sessions[s].group
          /\ row.startsAt = db.sessions[s].startsAt /\ row.status = "COMPLETED"
    BY SessionStatusWritten, SessionGroupKept DEF WellTyped, SessionStatuses
  <2> QED
    BY <1>2, <2>1 DEF WellTyped
<1>5. DOMAIN new.bookings = DOMAIN db.bookings /\ DOMAIN new.sessions = DOMAIN db.sessions
  BY <1>1, <1>2 DEF WellTyped
<1>6. "BOOKED" \notin AttendanceStatuses
  BY DEF AttendanceStatuses
<1> QED
  BY <1>3, <1>4, <1>5, <1>6 DEF Advances, new

-----------------------------------------------------------------------------
(* Requests that create a booking. *)

(* A booking for a class of its student's group, for a class of its own or by
   an administrator; in no case for a class that is not scheduled. *)
LEMMA AddBookingEnrolled ==
  ASSUME NEW db, WellTyped(db), EnrolledIn(db), NEW st, NEW s \in DOMAIN db.sessions,
         NEW event, HasNewKey(BookingIds, db.bookings),
         db.sessions[s].status = "SCHEDULED",
         \/ event.type = "MANUALLY_ADDED_BY_ADMIN"
         \/ db.sessions[s].program = "ONE_ON_ONE"
         \/ memberships[st] = db.sessions[s].group
  PROVE  EnrolledIn(AddBooking(db, st, s, event))
<1> DEFINE b == NewKey(BookingIds, db.bookings)
           new == AddBooking(db, st, s, event)
<1>1. b \notin DOMAIN db.bookings /\ DOMAIN db.events = DOMAIN db.bookings
  BY NewKeyIsNew DEF WellTyped
<1>2. /\ new.sessions = db.sessions
      /\ DOMAIN new.bookings = DOMAIN db.bookings \cup {b}
      /\ new.bookings[b].student = st /\ new.bookings[b].session = s
      /\ new.bookings[b].status = "BOOKED" /\ new.events[b] = <<event>>
      /\ \A x \in DOMAIN db.bookings :
           new.bookings[x] = db.bookings[x] /\ new.events[x] = db.events[x]
  BY <1>1 DEF AddBooking, WellTyped, IsTables, Insert
<1>3. "BOOKED" \notin AttendanceStatuses /\ <<event>>[1] = event
  BY DEF AttendanceStatuses
<1> HIDE DEF b, new
<1>4. \A x \in FutureBookings(new) : x \in FutureBookings(db) \/ x = b
  BY <1>2 DEF FutureBookings
<1>5. UnmarkedToCome(new)
  BY <1>2, <1>3 DEF EnrolledIn, UnmarkedToCome
<1>6. SeatsBelong(new)
  BY <1>2, <1>3, <1>4 DEF EnrolledIn, SeatsBelong, FutureBookings
<1>7. ASSUME NEW g \in GroupIds, ~groups[g]
      PROVE  FutureBookingsInGroup(new, g) = {}
  <2>1. FutureBookingsInGroup(db, g) = {}
    BY <1>7 DEF EnrolledIn, GroupsQuiet
  <2>2. ~(db.sessions[s].group = g /\ db.sessions[s].startsAt > now)
    BY <1>7 DEF EnrolledIn, GroupsQuiet
  <2>3. \A x \in FutureBookingsInGroup(new, g) : x = b \/ x \in FutureBookingsInGroup(db, g)
    BY <1>2, <1>4 DEF FutureBookingsInGroup, FutureBookings
  <2>4. b \notin FutureBookingsInGroup(new, g)
    BY <1>2, <2>2 DEF FutureBookingsInGroup, FutureBookings
  <2> QED
    BY <2>1, <2>3, <2>4
<1>8. GroupsQuiet(new)
  BY <1>2, <1>7 DEF EnrolledIn, GroupsQuiet
<1> QED
  BY <1>5, <1>6, <1>8 DEF EnrolledIn, new

LEMMA AddOneOnOneBookingEnrolled ==
  ASSUME NEW db, WellTyped(db), EnrolledIn(db), NEW st \in StudentIds,
         NEW slot \in SlotIds, NEW event, CanCreateOneOnOneBooking(db, st, slot)
  PROVE  EnrolledIn(AddOneOnOneBooking(db, st, slot, event))
<1> DEFINE s == NewKey(SessionIds, db.sessions)
           new == ClaimSlot(db, slot)
<1>1. HasNewKey(BookingIds, db.bookings) /\ HasNewKey(SessionIds, db.sessions)
  BY DEF CanCreateOneOnOneBooking
<1>2. /\ WellTyped(new) /\ s \in DOMAIN new.sessions /\ s \notin DOMAIN db.sessions
      /\ new.bookings = db.bookings
      /\ DOMAIN new.sessions = DOMAIN db.sessions \cup {s}
      /\ \A x \in DOMAIN db.sessions : new.sessions[x] = db.sessions[x]
  BY <1>1, ClaimSlotTyped, ClaimSlotKeepsClasses
<1>3. /\ new.events = db.events
      /\ new.sessions[s].status = "SCHEDULED" /\ new.sessions[s].program = "ONE_ON_ONE"
      /\ new.sessions[s].group = None
  BY DEF ClaimSlot, WellTyped, IsTables, Insert
<1> HIDE DEF s, new
<1>4. \A b \in DOMAIN db.bookings :
        new.sessions[new.bookings[b].session] = db.sessions[db.bookings[b].session]
  BY <1>2 DEF WellTyped
<1>5. /\ FutureBookings(new) = FutureBookings(db)
      /\ \A g : FutureBookingsInGroup(new, g) = FutureBookingsInGroup(db, g)
  <2>1. FutureBookings(new) = FutureBookings(db)
    BY <1>2, <1>4 DEF FutureBookings
  <2>2. \A x \in FutureBookings(db) : x \in DOMAIN db.bookings
    BY DEF FutureBookings
  <2> QED
    BY <1>2, <1>4, <2>1, <2>2 DEF FutureBookingsInGroup
<1>6. UnmarkedToCome(new)
  BY <1>2, <1>4 DEF EnrolledIn, UnmarkedToCome
<1>7. SeatsBelong(new)
  <2>1. \A x \in FutureBookings(db) : x \in DOMAIN db.bookings
    BY DEF FutureBookings
  <2> QED
    BY <1>2, <1>3, <1>4, <1>5, <2>1 DEF EnrolledIn, SeatsBelong
<1>8. GroupsQuiet(new)
  BY <1>2, <1>3, <1>5, KeysAssumption DEF EnrolledIn, GroupsQuiet
<1>9. EnrolledIn(AddBooking(new, st, s, event))
  BY <1>1, <1>2, <1>3, <1>6, <1>7, <1>8, AddBookingEnrolled DEF EnrolledIn
<1> QED
  BY <1>9 DEF AddOneOnOneBooking, s, new

(* The clock takes classes from the future, and adds none. *)
LEMMA TimePassesEnrolled ==
  ASSUME WellTyped(Tables), EnrolledIn(Tables), UNCHANGED <<memberships, groups, bookings, sessions, events>>,
         Tables' = Tables, now \in Nat, now' \in Nat, now' >= now
  PROVE  EnrolledIn(Tables)'
<1>1. \A s \in DOMAIN Tables.sessions : Tables.sessions[s].startsAt > now'
        => Tables.sessions[s].startsAt > now
  BY TimesAreNat
<1>2. \A b \in DOMAIN Tables.bookings : Tables.bookings[b].session \in DOMAIN Tables.sessions
  BY DEF WellTyped
<1>3. FutureBookings(Tables)' \subseteq FutureBookings(Tables)
  BY <1>1, <1>2 DEF FutureBookings
<1>4. \A g : FutureBookingsInGroup(Tables, g)' \subseteq FutureBookingsInGroup(Tables, g)
  BY <1>3 DEF FutureBookingsInGroup
<1>5. UnmarkedToCome(Tables)'
  BY <1>1, <1>2 DEF EnrolledIn, UnmarkedToCome
<1>6. SeatsBelong(Tables)'
  BY <1>3 DEF EnrolledIn, SeatsBelong
<1>7. GroupsQuiet(Tables)'
  BY <1>1, <1>4 DEF EnrolledIn, GroupsQuiet
<1> QED
  BY <1>5, <1>6, <1>7 DEF EnrolledIn

LEMMA CommitEnrolled ==
  ASSUME NEW db, EnrolledIn(db), Commit(db), UNCHANGED <<now, memberships, groups>>
  PROVE  EnrolledIn(Tables)'
<1>1. /\ Tables'.bookings = db.bookings /\ Tables'.sessions = db.sessions
      /\ Tables'.events = db.events
  BY DEF Commit, Tables
<1>2. /\ FutureBookings(Tables)' = FutureBookings(db)
      /\ \A g : FutureBookingsInGroup(Tables, g)' = FutureBookingsInGroup(db, g)
  BY <1>1 DEF FutureBookings, FutureBookingsInGroup
<1> QED
  BY <1>1, <1>2 DEF EnrolledIn, UnmarkedToCome, SeatsBelong, GroupsQuiet

(* Every request of BookingService keeps the invariant. *)
LEMMA NextEnrolled ==
  ASSUME Held, TrailsReplay(Tables), EnrolledIn(Tables), [Next]_vars, groups' = groups
  PROVE  EnrolledIn(Tables)'
<1>0. /\ Typed /\ WellTyped(Tables)
      /\ Tables.bookings = bookings /\ Tables.sessions = sessions
      /\ now \in Nat
      /\ \A b \in DOMAIN bookings :
           bookings[b].student \in StudentIds /\ bookings[b].session \in DOMAIN sessions
      /\ \A type : Event(type).type = type
      /\ "RESCHEDULED_FROM" \in CancellationEvents
  BY TablesFields, InstantsAssumption
     DEF Held, Told, Safe, SafeIn, Typed, TypeOK, WellTyped, Booking, Event, CancellationEvents
<1>1. ASSUME NEW st \in StudentIds, NEW s \in DOMAIN sessions, CreateBatchBooking(st, s)
      PROVE  EnrolledIn(Tables)'
  BY <1>0, <1>1, AddBookingEnrolled, CommitEnrolled
     DEF CreateBatchBooking, CanCreateBatchBooking
<1>2. ASSUME NEW st \in StudentIds, NEW s \in DOMAIN sessions, AdminAddStudentToClass(st, s)
      PROVE  EnrolledIn(Tables)'
  BY <1>0, <1>2, AddBookingEnrolled, CommitEnrolled DEF AdminAddStudentToClass
<1>3. ASSUME NEW st \in StudentIds, NEW slot \in SlotIds, CreateOneOnOneBooking(st, slot)
      PROVE  EnrolledIn(Tables)'
  BY <1>0, <1>3, AddOneOnOneBookingEnrolled, CommitEnrolled DEF CreateOneOnOneBooking
<1>4. ASSUME NEW b \in DOMAIN bookings, CancelBooking(b) \/ AdminCancelBooking(b)
      PROVE  EnrolledIn(Tables)'
  BY <1>0, <1>4, CancelExistingBookingAdvances, AdvancesEnrolled, CommitEnrolled
     DEF CancelBooking, AdminCancelBooking, CancellationEvents
<1>5. ASSUME NEW b \in DOMAIN bookings, NEW s \in DOMAIN sessions, NEW cutoff \in BOOLEAN,
             RescheduleBatchBooking(b, s, cutoff)
      PROVE  EnrolledIn(Tables)'
  <2> DEFINE db == CancelExistingBooking(Tables, b, "RESCHEDULED_FROM")
             new == AddBooking(db, bookings[b].student, s, RescheduledTo(b))
  <2>1. WellTyped(db) /\ EnrolledIn(db) /\ DOMAIN db.sessions = DOMAIN sessions
    BY <1>0, CancelExistingBookingTyped, CancelExistingBookingAdvances, AdvancesEnrolled
  <2> HIDE DEF db
  <2>2. /\ CanCreateBatchBooking(db, bookings[b].student, s)
        /\ Commit(new) /\ UNCHANGED <<now, memberships>>
    BY <1>5 DEF RescheduleBatchBooking, db
  <2>3. EnrolledIn(new)
    BY <2>1, <2>2, AddBookingEnrolled DEF CanCreateBatchBooking
  <2> HIDE DEF new
  <2> QED
    BY <2>2, <2>3, CommitEnrolled
<1>6. ASSUME NEW b \in DOMAIN bookings, NEW slot \in SlotIds, NEW cutoff \in BOOLEAN,
             RescheduleOneOnOneBooking(b, slot, cutoff)
      PROVE  EnrolledIn(Tables)'
  <2> DEFINE db == CancelExistingBooking(Tables, b, "RESCHEDULED_FROM")
             new == AddOneOnOneBooking(db, bookings[b].student, slot, RescheduledTo(b))
  <2>1. WellTyped(db) /\ EnrolledIn(db)
    BY <1>0, CancelExistingBookingTyped, CancelExistingBookingAdvances, AdvancesEnrolled
  <2> HIDE DEF db
  <2>2. /\ CanCreateOneOnOneBooking(db, bookings[b].student, slot)
        /\ Commit(new) /\ UNCHANGED <<now, memberships>>
    BY <1>6 DEF RescheduleOneOnOneBooking, db
  <2>3. EnrolledIn(new)
    BY <1>0, <2>1, <2>2, AddOneOnOneBookingEnrolled
  <2> HIDE DEF new
  <2> QED
    BY <2>2, <2>3, CommitEnrolled
<1>7. ASSUME NEW s \in DOMAIN sessions, NEW marks, DOMAIN marks \subseteq DOMAIN bookings,
             \A b \in DOMAIN marks : marks[b] \in AttendanceStatuses,
             MarkAttendance(s, marks)
      PROVE  EnrolledIn(Tables)'
  <2>1. \A b \in DOMAIN marks : /\ bookings[b].status # "CANCELLED"
                                /\ sessions[bookings[b].session].startsAt <= now
    BY <1>7 DEF MarkAttendance, CanMarkAttendance
  <2>2. EnrolledIn(AttendanceTaken(Tables, s, marks))
    BY <1>0, <1>7, <2>1, AttendanceTakenAdvances, AdvancesEnrolled
  <2> QED
    BY <1>7, <2>2, CommitEnrolled DEF MarkAttendance, AttendanceTaken
<1>8. ASSUME NEW b \in DOMAIN bookings, NEW status \in AttendanceStatuses,
             MarkBookingAttendance(b, status)
      PROVE  EnrolledIn(Tables)'
  BY <1>0, <1>7, <1>8 DEF MarkBookingAttendance
<1>9. ASSUME NEW s \in DOMAIN sessions, NEW named \in (SUBSET DOMAIN bookings) \ {{}},
             NEW marks \in [named -> AttendanceStatuses], MarkClassAttendance(s, marks)
      PROVE  EnrolledIn(Tables)'
  BY <1>7, <1>9 DEF MarkClassAttendance
<1>10. CASE Tick \/ UNCHANGED vars
  <2>1. now \in Nat /\ now' \in Nat /\ now' >= now
    BY <1>0, <1>10, InstantsAssumption DEF Tick, vars, Typed, TypeOK
  <2>2. /\ Tables' = Tables /\ UNCHANGED <<memberships, groups, bookings, sessions, events>>
    BY <1>10 DEF Tables, Tick, vars
  <2> QED
    BY <1>0, <2>1, <2>2, TimePassesEnrolled
<1> QED
  BY <1>1, <1>2, <1>3, <1>4, <1>5, <1>6, <1>8, <1>9, <1>10 DEF Next

-----------------------------------------------------------------------------
(* What an administrator's change undoes: bookings W are withdrawn, classes C
   closed and slots R offered again. *)

Undone(db, new, W, C, R) ==
  /\ IsTables(new)
  /\ new.bookings = [b \in DOMAIN db.bookings |->
       IF b \in W THEN [db.bookings[b] EXCEPT !.status = "CANCELLED"] ELSE db.bookings[b]]
  /\ new.events = [b \in DOMAIN db.bookings |->
       IF b \in W THEN Append(db.events[b], Event("CANCELLED_BY_ADMIN")) ELSE db.events[b]]
  /\ new.sessions = [s \in DOMAIN db.sessions |->
       IF s \in C THEN [db.sessions[s] EXCEPT !.status = "CANCELLED"] ELSE db.sessions[s]]
  /\ new.slots = [slot \in SlotIds |->
       IF slot \in R THEN [db.slots[slot] EXCEPT !.status = "AVAILABLE"] ELSE db.slots[slot]]

(* Only coming seats are withdrawn, nobody stays booked into a closed class, and
   one-on-one bookings, classes and slots go together. *)
GoTogether(db, W, C, R) ==
  /\ W \subseteq FutureBookings(db)
  /\ C \subseteq DOMAIN db.sessions
  /\ \A s \in C : BookedBookingsOf(db.bookings, s) \subseteq W
  /\ \A s \in DOMAIN db.sessions :
       db.sessions[s].program = "ONE_ON_ONE"
         => (s \in C <=> \E b \in W : db.bookings[b].session = s)
  /\ \A slot \in SlotIds :
       slot \in R <=> /\ db.slots[slot].status = "BOOKED"
                     /\ \E s \in C : db.sessions[s].slot = slot

(* The rows, one by one. *)
LEMMA UndoneRows ==
  ASSUME NEW db, WellTyped(db), NEW W, NEW C, NEW R, NEW new, Undone(db, new, W, C, R)
  PROVE  /\ DOMAIN new.bookings = DOMAIN db.bookings
         /\ DOMAIN new.sessions = DOMAIN db.sessions
         /\ \A b \in DOMAIN db.bookings :
              /\ new.bookings[b] \in Booking
              /\ new.bookings[b].student = db.bookings[b].student
              /\ new.bookings[b].session = db.bookings[b].session
              /\ new.bookings[b].status
                   = IF b \in W THEN "CANCELLED" ELSE db.bookings[b].status
         /\ \A s \in DOMAIN db.sessions :
              /\ new.sessions[s] \in Session
              /\ new.sessions[s].program = db.sessions[s].program
              /\ new.sessions[s].group = db.sessions[s].group
              /\ new.sessions[s].slot = db.sessions[s].slot
              /\ new.sessions[s].startsAt = db.sessions[s].startsAt
              /\ new.sessions[s].capacity = db.sessions[s].capacity
              /\ new.sessions[s].status
                   = IF s \in C THEN "CANCELLED" ELSE db.sessions[s].status
         /\ \A slot \in SlotIds :
              /\ new.slots[slot] \in Slot
              /\ new.slots[slot].startsAt = db.slots[slot].startsAt
              /\ new.slots[slot].status
                   = IF slot \in R THEN "AVAILABLE" ELSE db.slots[slot].status
<1>1. DOMAIN new.bookings = DOMAIN db.bookings /\ DOMAIN new.sessions = DOMAIN db.sessions
  BY DEF Undone
<1>2. ASSUME NEW b \in DOMAIN db.bookings
      PROVE  /\ new.bookings[b] \in Booking
             /\ new.bookings[b].student = db.bookings[b].student
             /\ new.bookings[b].session = db.bookings[b].session
             /\ new.bookings[b].status
                  = IF b \in W THEN "CANCELLED" ELSE db.bookings[b].status
  <2>1. db.bookings[b] \in Booking
    BY DEF WellTyped
  <2>2. new.bookings[b] = IF b \in W THEN [db.bookings[b] EXCEPT !.status = "CANCELLED"]
                          ELSE db.bookings[b]
    BY DEF Undone
  <2> QED
    BY <2>1, <2>2, BookingStatusWritten DEF BookingStatuses
<1>3. ASSUME NEW s \in DOMAIN db.sessions
      PROVE  /\ new.sessions[s] \in Session
             /\ new.sessions[s].program = db.sessions[s].program
             /\ new.sessions[s].group = db.sessions[s].group
             /\ new.sessions[s].slot = db.sessions[s].slot
             /\ new.sessions[s].startsAt = db.sessions[s].startsAt
             /\ new.sessions[s].capacity = db.sessions[s].capacity
             /\ new.sessions[s].status
                  = IF s \in C THEN "CANCELLED" ELSE db.sessions[s].status
  <2>1. db.sessions[s] \in Session
    BY DEF WellTyped
  <2>2. new.sessions[s] = IF s \in C THEN [db.sessions[s] EXCEPT !.status = "CANCELLED"]
                          ELSE db.sessions[s]
    BY DEF Undone
  <2>3. LET row == [db.sessions[s] EXCEPT !.status = "CANCELLED"] IN
          /\ row \in Session /\ row.program = db.sessions[s].program
          /\ row.slot = db.sessions[s].slot /\ row.startsAt = db.sessions[s].startsAt
          /\ row.capacity = db.sessions[s].capacity /\ row.status = "CANCELLED"
    BY <2>1, SessionStatusWritten DEF SessionStatuses
  <2>4. [db.sessions[s] EXCEPT !.status = "CANCELLED"].group = db.sessions[s].group
    BY <2>1, SessionGroupKept
  <2> QED
    BY <2>1, <2>2, <2>3, <2>4
<1>4. ASSUME NEW slot \in SlotIds
      PROVE  /\ new.slots[slot] \in Slot
             /\ new.slots[slot].startsAt = db.slots[slot].startsAt
             /\ new.slots[slot].status
                  = IF slot \in R THEN "AVAILABLE" ELSE db.slots[slot].status
  <2>1. db.slots[slot] \in Slot
    BY DEF WellTyped
  <2>2. new.slots[slot] = IF slot \in R THEN [db.slots[slot] EXCEPT !.status = "AVAILABLE"]
                          ELSE db.slots[slot]
    BY DEF Undone
  <2>3. LET row == [db.slots[slot] EXCEPT !.status = "AVAILABLE"] IN
          /\ row \in Slot /\ row.startsAt = db.slots[slot].startsAt
          /\ row.status = "AVAILABLE"
    BY <2>1, SlotStatusWritten DEF SlotStatuses
  <2> QED
    BY <2>1, <2>2, <2>3
<1> QED
  BY <1>1, <1>2, <1>3, <1>4

LEMMA AdminEvent ==
  /\ Event("CANCELLED_BY_ADMIN") \in BookingEvent
  /\ Event("CANCELLED_BY_ADMIN").type = "CANCELLED_BY_ADMIN"
  /\ "CANCELLED_BY_ADMIN" \in CancellationEvents
  /\ "CANCELLED_BY_ADMIN" \notin CreationEvents
BY DEF Event, BookingEvent, EventTypes, CancellationEvents, CreationEvents

LEMMA UndoneSafe ==
  ASSUME NEW db, SafeIn(db), NEW W, NEW C, NEW R, NEW new, Undone(db, new, W, C, R)
  PROVE  SafeIn(new)
<1>0. WellTyped(db)
  BY DEF SafeIn
<1>1. /\ new.bookings \in [DOMAIN new.bookings -> Booking]
      /\ new.sessions \in [DOMAIN new.sessions -> Session]
      /\ new.slots \in [SlotIds -> Slot]
  <2>1. /\ \A b \in DOMAIN new.bookings : new.bookings[b] \in Booking
        /\ \A s \in DOMAIN new.sessions : new.sessions[s] \in Session
        /\ \A slot \in SlotIds : new.slots[slot] \in Slot
    BY <1>0, UndoneRows
  <2>2. /\ new.bookings = [b \in DOMAIN new.bookings |-> new.bookings[b]]
        /\ new.sessions = [s \in DOMAIN new.sessions |-> new.sessions[s]]
        /\ new.slots = [slot \in SlotIds |-> new.slots[slot]]
    BY DEF Undone
  <2> QED
    BY <2>1, <2>2
<1>2. new.events \in [DOMAIN new.bookings -> Seq(BookingEvent)]
  <2>1. \A b \in DOMAIN db.bookings :
          Append(db.events[b], Event("CANCELLED_BY_ADMIN")) \in Seq(BookingEvent)
    BY <1>0, AdminEvent DEF WellTyped
  <2> QED
    BY <1>0, <2>1 DEF Undone, WellTyped
<1>3. WellTyped(new)
  <2>1. /\ DOMAIN new.bookings = DOMAIN db.bookings /\ DOMAIN new.sessions = DOMAIN db.sessions
        /\ \A b \in DOMAIN new.bookings : new.bookings[b].session \in DOMAIN new.sessions
    BY <1>0, UndoneRows DEF WellTyped
  <2> QED
    BY <1>0, <1>1, <1>2, <2>1 DEF WellTyped, Undone
<1>4. Continues(db, new)
  BY <1>0, UndoneRows DEF Continues
<1> QED
  BY <1>0, <1>3, <1>4, ContinuesOneClassPerDay, ContinuesCapacity DEF SafeIn

(* A class keeps saying of its seats what it should: a seat of a coming class
   that stays is still booked. *)
LEMMA UndoneTells ==
  ASSUME NEW db, ToldIn(db), UnmarkedToCome(db), now \in Nat,
         NEW W, NEW C, NEW R, NEW new, Undone(db, new, W, C, R), GoTogether(db, W, C, R)
  PROVE  StatusesTell(new)
<1>0. WellTyped(db)
  BY DEF ToldIn, SafeIn
<1>1. /\ DOMAIN new.bookings = DOMAIN db.bookings
      /\ DOMAIN new.sessions = DOMAIN db.sessions
      /\ \A b \in DOMAIN db.bookings :
           /\ new.bookings[b].session = db.bookings[b].session
           /\ new.bookings[b].status = IF b \in W THEN "CANCELLED" ELSE db.bookings[b].status
      /\ \A s \in DOMAIN db.sessions :
           new.sessions[s].status = IF s \in C THEN "CANCELLED" ELSE db.sessions[s].status
  BY <1>0, UndoneRows
<1> SUFFICES ASSUME NEW s \in DOMAIN db.sessions
             PROVE  StatusTells(new.bookings, s, new.sessions[s].status)
  BY <1>1 DEF StatusesTell
<1>2. /\ ActiveBookingsOf(new.bookings, s) = ActiveBookingsOf(db.bookings, s) \ W
      /\ BookedBookingsOf(new.bookings, s) = BookedBookingsOf(db.bookings, s) \ W
  BY <1>1 DEF ActiveBookingsOf, BookedBookingsOf
<1>3. StatusTells(db.bookings, s, db.sessions[s].status)
  BY DEF ToldIn, StatusesTell
<1>4. \A b \in W : /\ b \in BookedBookingsOf(db.bookings, db.bookings[b].session)
                   /\ db.sessions[db.bookings[b].session].startsAt > now
  BY DEF GoTogether, FutureBookings, BookedBookingsOf
<1>5. CASE s \in C
  <2>1. BookedBookingsOf(new.bookings, s) = {} /\ new.sessions[s].status = "CANCELLED"
    BY <1>1, <1>2, <1>5 DEF GoTogether
  <2> QED
    BY <2>1 DEF StatusTells
<1>6. CASE s \notin C /\ \A b \in W : db.bookings[b].session # s
  <2>1. /\ ActiveBookingsOf(new.bookings, s) = ActiveBookingsOf(db.bookings, s)
        /\ BookedBookingsOf(new.bookings, s) = BookedBookingsOf(db.bookings, s)
    BY <1>2, <1>6 DEF ActiveBookingsOf, BookedBookingsOf
  <2> QED
    BY <1>1, <1>3, <1>6, <2>1 DEF StatusTells
<1>7. ASSUME s \notin C, NEW b \in W, db.bookings[b].session = s
      PROVE  StatusTells(new.bookings, s, new.sessions[s].status)
  <2>1. b \in BookedBookingsOf(db.bookings, s) /\ db.sessions[s].startsAt > now
    BY <1>4, <1>7
  <2>2. ActiveBookingsOf(new.bookings, s) \subseteq BookedBookingsOf(new.bookings, s)
    <3> SUFFICES ASSUME NEW x \in ActiveBookingsOf(db.bookings, s)
                 PROVE  x \in BookedBookingsOf(db.bookings, s)
      BY <1>2
    <3>1. x \in DOMAIN db.bookings /\ db.bookings[x].session = s
          /\ db.bookings[x].status # "CANCELLED" /\ db.bookings[x].status \in BookingStatuses
      BY <1>0 DEF ActiveBookingsOf, WellTyped, Booking
    <3>2. db.bookings[x].status \notin AttendanceStatuses
      BY <2>1, <3>1 DEF UnmarkedToCome
    <3> QED
      BY <3>1, <3>2 DEF BookedBookingsOf, BookingStatuses
  <2>3. new.sessions[s].status = db.sessions[s].status
    BY <1>1, <1>7
  <2>4. db.sessions[s].status # "CANCELLED" /\ db.sessions[s].status # "COMPLETED"
    BY <1>3, <2>1 DEF StatusTells
  <2> QED
    BY <2>2, <2>3, <2>4 DEF StatusTells
<1> QED
  BY <1>5, <1>6, <1>7

(* A live class that is left keeps its slot, a closed one gives it back. *)
LEMMA UndoneHolds ==
  ASSUME NEW db, ToldIn(db), HeldIn(db), now \in Nat,
         NEW W, NEW C, NEW R, NEW new, Undone(db, new, W, C, R), GoTogether(db, W, C, R)
  PROVE  HeldIn(new)
<1>0. WellTyped(db)
  BY DEF ToldIn, SafeIn
<1>1. /\ DOMAIN new.bookings = DOMAIN db.bookings
      /\ DOMAIN new.sessions = DOMAIN db.sessions
      /\ \A b \in DOMAIN db.bookings :
           /\ new.bookings[b].session = db.bookings[b].session
           /\ new.bookings[b].status = IF b \in W THEN "CANCELLED" ELSE db.bookings[b].status
      /\ \A s \in DOMAIN db.sessions :
           /\ new.sessions[s].program = db.sessions[s].program
           /\ new.sessions[s].slot = db.sessions[s].slot
           /\ new.sessions[s].startsAt = db.sessions[s].startsAt
           /\ new.sessions[s].status = IF s \in C THEN "CANCELLED" ELSE db.sessions[s].status
      /\ \A slot \in SlotIds :
           /\ new.slots[slot].startsAt = db.slots[slot].startsAt
           /\ new.slots[slot].status = IF slot \in R THEN "AVAILABLE" ELSE db.slots[slot].status
  BY <1>0, UndoneRows
<1>2. \A s \in DOMAIN db.sessions :
        IsLive(new.sessions, s) <=> IsLive(db.sessions, s) /\ s \notin C
  BY <1>1 DEF IsLive
<1>3. ASSUME NEW s \in C, db.sessions[s].slot \in SlotIds
      PROVE  IsLive(db.sessions, s)
  <2>1. s \in DOMAIN db.sessions
    BY DEF GoTogether
  <2>2. db.sessions[s].program = "ONE_ON_ONE"
    BY <1>0, <1>3, <2>1, SlotOfClass
  <2>3. PICK b \in W : db.bookings[b].session = s
    BY <2>1, <2>2 DEF GoTogether
  <2>4. b \in BookedBookingsOf(db.bookings, s)
    BY <2>3 DEF GoTogether, FutureBookings, BookedBookingsOf
  <2>5. StatusTells(db.bookings, s, db.sessions[s].status)
    BY <2>1 DEF ToldIn, StatusesTell
  <2> QED
    BY <2>2, <2>4, <2>5 DEF StatusTells, IsLive
<1>4. ASSUME NEW slot \in SlotIds
      PROVE  LiveSessionsOf(new.sessions, slot) = LiveSessionsOf(db.sessions, slot) \ C
  BY <1>1 DEF LiveSessionsOf
<1>5. ASSUME NEW s \in DOMAIN new.sessions, IsLive(new.sessions, s)
      PROVE  LET slot == new.sessions[s].slot IN
               /\ new.slots[slot].status = "BOOKED"
               /\ new.slots[slot].startsAt = new.sessions[s].startsAt
               /\ LiveSessionsOf(new.sessions, slot) = {s}
               /\ ActiveBookingsOf(new.bookings, s) # {}
  <2> DEFINE slot == db.sessions[s].slot
  <2>1. /\ s \in DOMAIN db.sessions /\ s \notin C /\ IsLive(db.sessions, s)
        /\ new.sessions[s].slot = slot /\ new.sessions[s].startsAt = db.sessions[s].startsAt
    BY <1>1, <1>2, <1>5
  <2>2. slot \in SlotIds
    BY <1>0, <2>1, SlotOfClass DEF IsLive
  <2>3. /\ db.slots[slot].status = "BOOKED"
        /\ db.slots[slot].startsAt = db.sessions[s].startsAt
        /\ LiveSessionsOf(db.sessions, slot) = {s}
        /\ ActiveBookingsOf(db.bookings, s) # {}
    BY <2>1 DEF HeldIn, ClassesHold
  <2>4. slot \notin R
    <3> SUFFICES ASSUME slot \in R PROVE FALSE
      OBVIOUS
    <3>1. PICK x \in C : db.sessions[x].slot = slot
      BY <2>2 DEF GoTogether
    <3>2. x \in LiveSessionsOf(db.sessions, slot)
      BY <1>0, <1>3, <2>2, <3>1, SlotOfClass DEF GoTogether
    <3> QED
      BY <2>1, <2>3, <3>2
  <2>5. LiveSessionsOf(new.sessions, slot) = {s}
    BY <1>4, <2>1, <2>2, <2>3
  <2>6. \A b \in W : db.bookings[b].session # s
    BY <2>1 DEF GoTogether, IsLive
  <2>7. ActiveBookingsOf(new.bookings, s) = ActiveBookingsOf(db.bookings, s)
    BY <1>1, <2>6 DEF ActiveBookingsOf
  <2> QED
    BY <1>1, <2>1, <2>2, <2>3, <2>4, <2>5, <2>7
<1>6. ASSUME NEW slot \in SlotIds, new.slots[slot].status = "BOOKED",
             new.slots[slot].startsAt > now
      PROVE  LiveSessionsOf(new.sessions, slot) # {}
  <2>1. slot \notin R /\ db.slots[slot].status = "BOOKED" /\ db.slots[slot].startsAt > now
    BY <1>1, <1>6
  <2>2. PICK x : x \in LiveSessionsOf(db.sessions, slot)
    BY <2>1 DEF HeldIn, SlotsHeld
  <2>3. x \notin C
    BY <2>1, <2>2 DEF GoTogether, LiveSessionsOf
  <2> QED
    BY <1>4, <2>2, <2>3
<1> QED
  BY <1>5, <1>6 DEF HeldIn, ClassesHold, SlotsHeld

LEMMA UndoneReplays ==
  ASSUME NEW db, WellTyped(db), TrailsReplay(db),
         NEW W, NEW C, NEW R, NEW new, Undone(db, new, W, C, R), W \subseteq FutureBookings(db)
  PROVE  /\ TrailsReplay(new)
         /\ \A b \in DOMAIN db.bookings : new.events[b][1] = db.events[b][1]
<1> SUFFICES ASSUME NEW b \in DOMAIN db.bookings
             PROVE  /\ LeadsTo(new.events[b], new.bookings[b].status)
                    /\ new.events[b][1] = db.events[b][1]
  BY UndoneRows DEF TrailsReplay
<1> DEFINE trail == db.events[b]
           event == Event("CANCELLED_BY_ADMIN")
<1>1. LeadsTo(trail, db.bookings[b].status) /\ trail \in Seq(BookingEvent) /\ Len(trail) > 0
  BY DEF TrailsReplay, LeadsTo
<1>2. CASE b \in W
  <2>1. db.bookings[b].status = "BOOKED"
    BY <1>2 DEF FutureBookings
  <2>2. new.events[b] = Append(trail, event) /\ new.bookings[b].status = "CANCELLED"
    BY <1>2, UndoneRows DEF Undone
  <2>3. StatusAfter(event, "BOOKED") = "CANCELLED"
    BY AdminEvent DEF StatusAfter
  <2> HIDE DEF event, trail
  <2>4. /\ event \in BookingEvent /\ event.type = "CANCELLED_BY_ADMIN"
        /\ event.type \notin CreationEvents
    BY AdminEvent DEF event
  <2>5. LeadsTo(Append(trail, event), "CANCELLED")
    BY <1>1, <2>1, <2>3, <2>4, TrailContinues
  <2>6. Append(trail, event)[1] = trail[1]
    BY <1>1, <2>4
  <2> QED
    BY <2>2, <2>5, <2>6 DEF trail
<1>3. CASE b \notin W
  BY <1>1, <1>3, UndoneRows DEF Undone
<1> QED
  BY <1>2, <1>3

LEMMA UndoneAdvances ==
  ASSUME NEW db, WellTyped(db), TrailsReplay(db),
         NEW W, NEW C, NEW R, NEW new, Undone(db, new, W, C, R), W \subseteq FutureBookings(db)
  PROVE  /\ Advances(db, new)
         /\ FutureBookings(new) \subseteq FutureBookings(db) \ W
<1>1. \A b \in DOMAIN db.bookings : new.events[b][1] = db.events[b][1]
  BY UndoneReplays
<1>2. Advances(db, new)
  BY <1>1, UndoneRows DEF Advances, AttendanceStatuses
<1>3. \A b \in W : b \notin FutureBookings(new)
  BY UndoneRows DEF FutureBookings
<1> QED
  BY <1>2, <1>3, AdvancesFuture

-----------------------------------------------------------------------------
(* The administrator's operators. *)

LEMMA WithdrawBookingsUndoes ==
  ASSUME NEW db, WellTyped(db), NEW W
  PROVE  Undone(db, WithdrawBookings(db, W), W, {}, {})
<1> DEFINE new == WithdrawBookings(db, W)
<1>1. /\ IsTables(new) /\ new.sessions = db.sessions /\ new.slots = db.slots
      /\ new.bookings = [b \in DOMAIN db.bookings |->
           IF b \in W THEN [db.bookings[b] EXCEPT !.status = "CANCELLED"] ELSE db.bookings[b]]
      /\ new.events = [b \in DOMAIN db.events |->
           IF b \in W THEN Append(db.events[b], Event("CANCELLED_BY_ADMIN")) ELSE db.events[b]]
  BY DEF WithdrawBookings, WellTyped, IsTables
<1>2. DOMAIN db.events = DOMAIN db.bookings
  BY DEF WellTyped
<1> HIDE DEF new
<1>3. /\ db.sessions = [s \in DOMAIN db.sessions |-> db.sessions[s]]
      /\ db.slots = [slot \in SlotIds |-> db.slots[slot]]
  BY DEF WellTyped
<1> QED
  BY <1>1, <1>2, <1>3 DEF Undone, new

LEMMA WithdrawAndCloseUndoes ==
  ASSUME NEW db, WellTyped(db), NEW W, NEW C
  PROVE  Undone(db, CloseSessions(WithdrawBookings(db, W), C), W, C, {})
<1> DEFINE withdrawn == WithdrawBookings(db, W)
           new == CloseSessions(withdrawn, C)
<1>1. Undone(db, withdrawn, W, {}, {}) /\ withdrawn.sessions = db.sessions
  BY WithdrawBookingsUndoes DEF WithdrawBookings, WellTyped, IsTables
<1> HIDE DEF withdrawn
<1>2. /\ IsTables(new) /\ new.bookings = withdrawn.bookings /\ new.events = withdrawn.events
      /\ new.slots = withdrawn.slots
      /\ new.sessions = [s \in DOMAIN db.sessions |->
           IF s \in C THEN [db.sessions[s] EXCEPT !.status = "CANCELLED"] ELSE db.sessions[s]]
  BY <1>1 DEF CloseSessions, Undone, IsTables
<1> HIDE DEF new
<1> QED
  BY <1>1, <1>2 DEF Undone, new, withdrawn

(* A student's coming seats: a one-on-one class goes with its booking and its
   slot with the class. *)
LEMMA CancelForStudentUndoes ==
  ASSUME NEW db, SafeIn(db), NEW st
  PROVE  \E C, R :
           /\ Undone(db, CancelFutureBookingsForStudent(db, st), FutureBookingsOfStudent(db, st), C, R)
           /\ GoTogether(db, FutureBookingsOfStudent(db, st), C, R)
<1> DEFINE W == FutureBookingsOfStudent(db, st)
           C == {s \in {db.bookings[b].session : b \in W} : db.sessions[s].program = "ONE_ON_ONE"}
           R == {slot \in {db.sessions[s].slot : s \in C} : db.slots[slot].status = "BOOKED"}
           closed == CloseSessions(WithdrawBookings(db, W), C)
           new == CancelFutureBookingsForStudent(db, st)
<1>0. WellTyped(db)
  BY DEF SafeIn
<1>1. new = [closed EXCEPT !.slots = [slot \in DOMAIN @ |->
               IF slot \in R THEN [@[slot] EXCEPT !.status = "AVAILABLE"] ELSE @[slot]]]
  BY DEF CancelFutureBookingsForStudent
<1>2. Undone(db, closed, W, C, {})
  BY <1>0, WithdrawAndCloseUndoes
<1> HIDE DEF new, closed
<1>3. closed.slots = db.slots
  <2>1. closed.slots = [slot \in SlotIds |-> db.slots[slot]]
    BY <1>2 DEF Undone
  <2> QED
    BY <1>0, <2>1 DEF WellTyped
<1>4. Undone(db, new, W, C, R)
  <2>1. /\ IsTables(new) /\ new.bookings = closed.bookings /\ new.events = closed.events
        /\ new.sessions = closed.sessions
        /\ new.slots = [slot \in DOMAIN closed.slots |->
             IF slot \in R THEN [closed.slots[slot] EXCEPT !.status = "AVAILABLE"]
             ELSE closed.slots[slot]]
    BY <1>1, <1>2 DEF Undone, IsTables
  <2>2. DOMAIN db.slots = SlotIds
    BY <1>0 DEF WellTyped
  <2> HIDE DEF W, C, R
  <2> QED
    BY <1>2, <1>3, <2>1, <2>2 DEF Undone
<1>5. GoTogether(db, W, C, R)
  <2>1. W \subseteq FutureBookings(db) /\ W \subseteq DOMAIN db.bookings
    BY DEF FutureBookingsOfStudent, FutureBookings
  <2> HIDE DEF W
  <2>2. C \subseteq DOMAIN db.sessions
    BY <1>0, <2>1 DEF WellTyped
  <2>3. ASSUME NEW s \in C PROVE BookedBookingsOf(db.bookings, s) \subseteq W
    <3>1. PICK b \in W : db.bookings[b].session = s
      BY <2>3
    <3>2. db.bookings[b].status = "BOOKED" /\ b \in DOMAIN db.bookings
      BY <2>1 DEF FutureBookings
    <3>3. BookedBookingsOf(db.bookings, s) = {b}
      BY <2>3, <3>1, <3>2, OneOnOneHasOneSeat
    <3> QED
      BY <3>3
  <2>4. \A s \in DOMAIN db.sessions :
          db.sessions[s].program = "ONE_ON_ONE"
            => (s \in C <=> \E b \in W : db.bookings[b].session = s)
    OBVIOUS
  <2>5. \A slot \in SlotIds :
          slot \in R <=> /\ db.slots[slot].status = "BOOKED"
                        /\ \E s \in C : db.sessions[s].slot = slot
    OBVIOUS
  <2> QED
    BY <2>1, <2>2, <2>3, <2>4, <2>5 DEF GoTogether
<1> HIDE DEF C, R
<1> QED
  BY <1>4, <1>5 DEF new

(* The sessions of a group are batch classes: no slot is involved. *)
LEMMA GroupClasses ==
  ASSUME NEW db, WellTyped(db), NEW s \in DOMAIN db.sessions, db.sessions[s].group \in GroupIds
  PROVE  db.sessions[s].program = "BATCH" /\ db.sessions[s].slot \notin SlotIds
<1>1. db.sessions[s] \in OneOnOneSession \cup BatchSession
  BY DEF WellTyped, Session
<1> QED
  BY <1>1, KeysAssumption DEF OneOnOneSession, BatchSession

LEMMA CancelGroupActivityUndoes ==
  ASSUME NEW db, ToldIn(db), NEW g \in GroupIds
  PROVE  \E C :
           /\ Undone(db, CancelFutureGroupActivity(db, g), FutureBookingsInGroup(db, g), C, {})
           /\ GoTogether(db, FutureBookingsInGroup(db, g), C, {})
           /\ \A s \in DOMAIN db.sessions :
                db.sessions[s].group = g /\ db.sessions[s].startsAt > now
                  => s \in C \/ db.sessions[s].status # "SCHEDULED"
<1> DEFINE W == FutureBookingsInGroup(db, g)
           C == {s \in DOMAIN db.sessions :
                   /\ db.sessions[s].group = g
                   /\ db.sessions[s].startsAt > now
                   /\ db.sessions[s].status = "SCHEDULED"}
<1>0. WellTyped(db)
  BY DEF ToldIn, SafeIn
<1>1. Undone(db, CancelFutureGroupActivity(db, g), W, C, {})
  BY <1>0, WithdrawAndCloseUndoes DEF CancelFutureGroupActivity
<1>2. /\ \A s \in C : BookedBookingsOf(db.bookings, s) \subseteq W
      /\ W \subseteq FutureBookings(db) /\ C \subseteq DOMAIN db.sessions
  BY DEF FutureBookingsInGroup, FutureBookings, BookedBookingsOf
<1>3. \A s \in C : db.sessions[s].program = "BATCH" /\ db.sessions[s].slot \notin SlotIds
  BY <1>0, GroupClasses
<1>4. \A b \in W : db.sessions[db.bookings[b].session].program = "BATCH"
  BY <1>0, GroupClasses DEF FutureBookingsInGroup, FutureBookings, WellTyped
<1>5. GoTogether(db, W, C, {})
  BY <1>2, <1>3, <1>4 DEF GoTogether
<1> QED
  BY <1>1, <1>5

-----------------------------------------------------------------------------
(* The invariant is inductive. *)

LEMMA UndoneKeeps ==
  ASSUME NEW db, ToldIn(db), HeldIn(db), TrailsReplay(db), EnrolledIn(db), now \in Nat,
         NEW W, NEW C, NEW R, NEW new, Undone(db, new, W, C, R), GoTogether(db, W, C, R)
  PROVE  /\ ToldIn(new) /\ HeldIn(new) /\ TrailsReplay(new) /\ EnrolledIn(new)
         /\ FutureBookings(new) \subseteq FutureBookings(db) \ W
<1>1. WellTyped(db) /\ SafeIn(db) /\ UnmarkedToCome(db) /\ W \subseteq FutureBookings(db)
  BY DEF ToldIn, SafeIn, EnrolledIn, GoTogether
<1>2. SafeIn(new)
  BY <1>1, UndoneSafe
<1>3. StatusesTell(new)
  BY <1>1, UndoneTells
<1>4. HeldIn(new)
  BY UndoneHolds
<1>5. TrailsReplay(new)
  BY <1>1, UndoneReplays
<1>6. Advances(db, new) /\ FutureBookings(new) \subseteq FutureBookings(db) \ W
  BY <1>1, UndoneAdvances
<1>7. EnrolledIn(new)
  BY <1>1, <1>6, AdvancesEnrolled
<1> QED
  BY <1>2, <1>3, <1>4, <1>5, <1>6, <1>7 DEF ToldIn

(* A request that commits tables and writes a student, a membership or a group. *)
LEMMA CommitEnrolment ==
  ASSUME NEW db, ToldIn(db), HeldIn(db), TrailsReplay(db), EnrolledIn(db), Commit(db),
         now' = now, now \in Instants,
         students' \in [StudentIds -> Student],
         memberships' \in [StudentIds -> GroupIds \cup {None}],
         groups' \in [GroupIds -> BOOLEAN],
         \A b \in FutureBookings(db) :
           LET class == db.sessions[db.bookings[b].session] IN
             class.program = "BATCH" /\ db.events[b][1].type # "MANUALLY_ADDED_BY_ADMIN"
               => memberships'[db.bookings[b].student] = class.group,
         \A g \in GroupIds :
           ~groups'[g] =>
             /\ FutureBookingsInGroup(db, g) = {}
             /\ \A s \in DOMAIN db.sessions :
                  db.sessions[s].group = g /\ db.sessions[s].startsAt > now
                    => db.sessions[s].status # "SCHEDULED"
  PROVE  Enrolled'
<1>1. /\ Tables'.bookings = db.bookings /\ Tables'.sessions = db.sessions
      /\ Tables'.slots = db.slots /\ Tables'.events = db.events
      /\ bookings' = db.bookings /\ sessions' = db.sessions
      /\ slots' = db.slots /\ events' = db.events
  BY DEF Commit, Tables
<1>2. WellTyped(db) /\ SafeIn(db)
  BY DEF ToldIn, SafeIn
<1>3. TypeOK'
  BY <1>1, <1>2 DEF TypeOK, WellTyped
<1>4. WellTyped(Tables)'
  BY <1>1, <1>2 DEF WellTyped, Tables, IsTables
<1>5. Told'
  <2>1. OneClassPerDayIn(Tables)' /\ CapacityIn(Tables)'
    BY <1>1, <1>2 DEF SafeIn, OneClassPerDayIn, CapacityIn
  <2>2. StatusesTell(Tables)'
    BY <1>1 DEF ToldIn, StatusesTell
  <2> QED
    BY <1>3, <1>4, <2>1, <2>2 DEF Told, Safe, SafeIn, Typed
<1>6. Held'
  BY <1>5, CommitHeld
<1>7. TrailsReplay(Tables)'
  BY CommitReplays
<1>8. /\ FutureBookings(Tables)' = FutureBookings(db)
      /\ \A g : FutureBookingsInGroup(Tables, g)' = FutureBookingsInGroup(db, g)
  BY <1>1 DEF FutureBookings, FutureBookingsInGroup
<1>9. UnmarkedToCome(Tables)'
  BY <1>1 DEF EnrolledIn, UnmarkedToCome
<1>10. SeatsBelong(Tables)'
  BY <1>1, <1>8 DEF SeatsBelong
<1>11. GroupsQuiet(Tables)'
  BY <1>1, <1>8 DEF GroupsQuiet
<1> QED
  BY <1>6, <1>7, <1>9, <1>10, <1>11 DEF Enrolled, EnrolledIn

LEMMA EnrolledFacts ==
  ASSUME Enrolled
  PROVE  /\ ToldIn(Tables) /\ SafeIn(Tables) /\ WellTyped(Tables) /\ HeldIn(Tables)
         /\ TrailsReplay(Tables) /\ EnrolledIn(Tables)
         /\ now \in Instants /\ now \in Nat
         /\ students \in [StudentIds -> Student]
         /\ memberships \in [StudentIds -> GroupIds \cup {None}]
         /\ groups \in [GroupIds -> BOOLEAN]
BY InstantsAssumption
   DEF Enrolled, Held, Told, ToldIn, Safe, SafeIn, Typed, TypeOK

(* A PATCH touches no seat. *)
LEMMA UpdateStudentEnrolled ==
  ASSUME Enrolled, NEW st \in StudentIds, NEW program \in ProgramTypes \cup {None},
         NEW active \in BOOLEAN, UpdateStudent(st, program, active)
  PROVE  Enrolled'
<1>1. students' \in [StudentIds -> Student]
  <2>1. program \in ProgramTypes
    BY DEF UpdateStudent
  <2>2. students[st] \in Student
    BY EnrolledFacts
  <2>3. [students[st] EXCEPT !.program = program, !.active = active] \in Student
    BY <2>1, <2>2 DEF Student
  <2>4. students' = [students EXCEPT ![st] =
                       [students[st] EXCEPT !.program = program, !.active = active]]
    BY EnrolledFacts DEF UpdateStudent
  <2> QED
    BY <2>3, <2>4, EnrolledFacts
<1>2. Commit(Tables) /\ UNCHANGED <<now, memberships, groups>>
  BY TablesFields DEF UpdateStudent, Commit
<1> QED
  BY <1>1, <1>2, EnrolledFacts, CommitEnrolment DEF EnrolledIn, SeatsBelong, GroupsQuiet

(* A switch leaves the student without a coming seat. *)
LEMMA SwitchProgramEnrolled ==
  ASSUME Enrolled, NEW st \in StudentIds, NEW program \in ProgramTypes,
         SwitchProgram(st, program)
  PROVE  Enrolled'
<1> DEFINE db == CancelFutureBookingsForStudent(Tables, st)
           W == FutureBookingsOfStudent(Tables, st)
<1>1. students' \in [StudentIds -> Student]
  <2>1. students[st] \in Student
    BY EnrolledFacts
  <2>2. [students[st] EXCEPT !.program = program] \in Student
    BY <2>1 DEF Student
  <2>3. students' = [students EXCEPT ![st] = [students[st] EXCEPT !.program = program]]
    BY EnrolledFacts DEF SwitchProgram
  <2> QED
    BY <2>2, <2>3, EnrolledFacts
<1>2. /\ memberships' \in [StudentIds -> GroupIds \cup {None}]
      /\ \A x \in StudentIds \ {st} : memberships'[x] = memberships[x]
      /\ Commit(db) /\ UNCHANGED <<now, groups>>
  BY EnrolledFacts DEF SwitchProgram, EndActiveStudentMembership
<1>3. PICK C, R : Undone(Tables, db, W, C, R) /\ GoTogether(Tables, W, C, R)
  BY EnrolledFacts, CancelForStudentUndoes
<1>4. /\ \A b \in DOMAIN db.bookings : db.bookings[b].student = Tables.bookings[b].student
      /\ \A b \in DOMAIN db.bookings : db.bookings[b].student \in StudentIds
  <2>1. WellTyped(Tables)
    BY EnrolledFacts
  <2> HIDE DEF db
  <2> QED
    BY <1>3, <2>1, UndoneRows DEF Booking
<1> HIDE DEF db
<1>5. /\ ToldIn(db) /\ HeldIn(db) /\ TrailsReplay(db) /\ EnrolledIn(db)
      /\ FutureBookings(db) \subseteq FutureBookings(Tables) \ W
  <2> HIDE DEF W
  <2> QED
    BY <1>3, EnrolledFacts, UndoneKeeps
<1>6. \A b \in FutureBookings(db) : db.bookings[b].student \in StudentIds \ {st}
  BY <1>4, <1>5 DEF FutureBookings, FutureBookingsOfStudent
<1>7. \A b \in FutureBookings(db) :
        LET class == db.sessions[db.bookings[b].session] IN
          class.program = "BATCH" /\ db.events[b][1].type # "MANUALLY_ADDED_BY_ADMIN"
            => memberships'[db.bookings[b].student] = class.group
  BY <1>2, <1>5, <1>6 DEF EnrolledIn, SeatsBelong
<1>8. \A g \in GroupIds :
        ~groups'[g] =>
          /\ FutureBookingsInGroup(db, g) = {}
          /\ \A s \in DOMAIN db.sessions :
               db.sessions[s].group = g /\ db.sessions[s].startsAt > now
                 => db.sessions[s].status # "SCHEDULED"
  BY <1>2, <1>5 DEF EnrolledIn, GroupsQuiet
<1>9. now \in Instants /\ groups' \in [GroupIds -> BOOLEAN]
  BY <1>2, EnrolledFacts
<1> QED
  BY <1>1, <1>2, <1>5, <1>7, <1>8, <1>9, CommitEnrolment

(* Only a student without a group is assigned to one, and such a student has no
   coming seat that a membership must justify. *)
LEMMA AssignStudentEnrolled ==
  ASSUME Enrolled, NEW st \in StudentIds, NEW g \in GroupIds,
         AssignStudentToBatchGroup(st, g)
  PROVE  Enrolled'
<1>1. /\ memberships[st] = None
      /\ memberships' = [memberships EXCEPT ![st] = g]
      /\ UNCHANGED <<now, students, groups>>
      /\ Commit(Tables)
  BY TablesFields DEF AssignStudentToBatchGroup, Commit
<1>2. /\ memberships' \in [StudentIds -> GroupIds \cup {None}]
      /\ \A x \in StudentIds \ {st} : memberships'[x] = memberships[x]
  BY <1>1, EnrolledFacts
<1>3. ASSUME NEW b \in FutureBookings(Tables),
             Tables.sessions[Tables.bookings[b].session].program = "BATCH",
             Tables.events[b][1].type # "MANUALLY_ADDED_BY_ADMIN"
      PROVE  memberships'[Tables.bookings[b].student]
               = Tables.sessions[Tables.bookings[b].session].group
  <2> DEFINE class == Tables.sessions[Tables.bookings[b].session]
  <2>1. b \in DOMAIN Tables.bookings /\ class \in Session
        /\ Tables.bookings[b].student \in StudentIds
    BY EnrolledFacts DEF FutureBookings, WellTyped, Booking
  <2>2. memberships[Tables.bookings[b].student] = class.group
    BY <1>3, EnrolledFacts DEF EnrolledIn, SeatsBelong
  <2>3. class.group \in GroupIds
    BY <1>3, <2>1 DEF Session, OneOnOneSession, BatchSession
  <2>4. Tables.bookings[b].student # st
    BY <1>1, <2>2, <2>3, KeysAssumption
  <2> QED
    BY <1>2, <2>1, <2>2, <2>4
<1> QED
  BY <1>1, <1>2, <1>3, EnrolledFacts, CommitEnrolment DEF EnrolledIn, GroupsQuiet

(* A transfer withdraws what the old membership justified. *)
LEMMA TransferStudentEnrolled ==
  ASSUME Enrolled, NEW st \in StudentIds, NEW g \in GroupIds,
         TransferStudentBatchGroup(st, g)
  PROVE  Enrolled'
<1> DEFINE old == memberships[st]
           W == {b \in FutureBookingsOfStudent(Tables, st) :
                   old # None /\ b \in FutureBookingsInGroup(Tables, old)}
           db == WithdrawBookings(Tables, W)
<1>1. /\ memberships' = [memberships EXCEPT ![st] = g]
      /\ UNCHANGED <<now, students, groups>>
      /\ Commit(db)
  BY DEF TransferStudentBatchGroup
<1>2. /\ memberships' \in [StudentIds -> GroupIds \cup {None}]
      /\ \A x \in StudentIds \ {st} : memberships'[x] = memberships[x]
  BY <1>1, EnrolledFacts
<1>3. Undone(Tables, db, W, {}, {})
  BY EnrolledFacts, WithdrawBookingsUndoes
<1>4. GoTogether(Tables, W, {}, {})
  <2>1. W \subseteq FutureBookings(Tables)
    BY DEF FutureBookingsOfStudent
  <2>2. \A b \in W : /\ Tables.bookings[b].session \in DOMAIN Tables.sessions
                     /\ Tables.sessions[Tables.bookings[b].session].group \in GroupIds
    BY EnrolledFacts DEF WellTyped, FutureBookingsInGroup, FutureBookings
  <2>3. \A b \in W : Tables.sessions[Tables.bookings[b].session].program = "BATCH"
    BY <2>2, EnrolledFacts, GroupClasses
  <2> HIDE DEF W
  <2> QED
    BY <2>1, <2>3 DEF GoTogether
<1> HIDE DEF db
<1>5. /\ ToldIn(db) /\ HeldIn(db) /\ TrailsReplay(db) /\ EnrolledIn(db)
      /\ FutureBookings(db) \subseteq FutureBookings(Tables) \ W
  <2> HIDE DEF W
  <2> QED
    BY <1>3, <1>4, EnrolledFacts, UndoneKeeps
<1>6. ASSUME NEW b \in FutureBookings(db),
             db.sessions[db.bookings[b].session].program = "BATCH",
             db.events[b][1].type # "MANUALLY_ADDED_BY_ADMIN"
      PROVE  memberships'[db.bookings[b].student] = db.sessions[db.bookings[b].session].group
  <2> DEFINE class == db.sessions[db.bookings[b].session]
  <2>1. /\ b \in DOMAIN db.bookings /\ class \in Session
        /\ db.bookings[b].student \in StudentIds
    BY <1>5 DEF FutureBookings, ToldIn, SafeIn, WellTyped, Booking
  <2>2. memberships[db.bookings[b].student] = class.group
    BY <1>5, <1>6 DEF EnrolledIn, SeatsBelong
  <2>3. class.group \in GroupIds
    BY <1>6, <2>1 DEF Session, OneOnOneSession, BatchSession
  <2>4. /\ db.bookings[b].student = Tables.bookings[b].student
        /\ class.group = Tables.sessions[Tables.bookings[b].session].group
    <3>1. WellTyped(Tables) /\ b \in DOMAIN Tables.bookings
          /\ Tables.bookings[b].session \in DOMAIN Tables.sessions
      BY <1>5, EnrolledFacts DEF FutureBookings, WellTyped
    <3> HIDE DEF W
    <3> QED
      BY <1>3, <3>1, UndoneRows
  <2>5. db.bookings[b].student # st
    <3> SUFFICES ASSUME db.bookings[b].student = st PROVE FALSE
      OBVIOUS
    <3>1. b \in FutureBookings(Tables) /\ Tables.bookings[b].student = st
      BY <1>5, <2>4
    <3>2. old # None /\ b \in FutureBookingsInGroup(Tables, old)
      BY <2>2, <2>3, <2>4, <3>1, KeysAssumption DEF FutureBookingsInGroup
    <3> QED
      BY <1>5, <3>1, <3>2 DEF FutureBookingsOfStudent
  <2> QED
    BY <1>2, <2>1, <2>2, <2>5
<1>7. \A x \in GroupIds :
        ~groups'[x] =>
          /\ FutureBookingsInGroup(db, x) = {}
          /\ \A s \in DOMAIN db.sessions :
               db.sessions[s].group = x /\ db.sessions[s].startsAt > now
                 => db.sessions[s].status # "SCHEDULED"
  BY <1>1, <1>5 DEF EnrolledIn, GroupsQuiet
<1>8. /\ now \in Instants /\ groups' \in [GroupIds -> BOOLEAN]
      /\ students' \in [StudentIds -> Student]
  BY <1>1, EnrolledFacts
<1> QED
  BY <1>1, <1>2, <1>5, <1>6, <1>7, <1>8, CommitEnrolment

(* A group that becomes, or stays, inactive loses its coming classes and the
   seats in them. *)
LEMMA CancelGroupActivityEnrolled ==
  ASSUME Enrolled, NEW g \in GroupIds, groups' = [groups EXCEPT ![g] = FALSE],
         Commit(CancelFutureGroupActivity(Tables, g)),
         UNCHANGED <<now, students, memberships>>
  PROVE  Enrolled'
<1> DEFINE W == FutureBookingsInGroup(Tables, g)
           db == CancelFutureGroupActivity(Tables, g)
<1>1. PICK C : /\ Undone(Tables, db, W, C, {})
               /\ GoTogether(Tables, W, C, {})
               /\ \A s \in DOMAIN Tables.sessions :
                    Tables.sessions[s].group = g /\ Tables.sessions[s].startsAt > now
                      => s \in C \/ Tables.sessions[s].status # "SCHEDULED"
  BY EnrolledFacts, CancelGroupActivityUndoes
<1> HIDE DEF db
<1>2. /\ ToldIn(db) /\ HeldIn(db) /\ TrailsReplay(db) /\ EnrolledIn(db)
      /\ FutureBookings(db) \subseteq FutureBookings(Tables) \ W
  <2> HIDE DEF W
  <2> QED
    BY <1>1, EnrolledFacts, UndoneKeeps
<1>3. FutureBookingsInGroup(db, g) = {}
  <2> SUFFICES ASSUME NEW b \in FutureBookingsInGroup(db, g) PROVE FALSE
    OBVIOUS
  <2>1. b \in FutureBookings(db) /\ db.sessions[db.bookings[b].session].group = g
    BY DEF FutureBookingsInGroup
  <2>2. b \in FutureBookings(Tables) /\ b \notin W /\ b \in DOMAIN Tables.bookings
    BY <1>2, <2>1 DEF FutureBookings
  <2>3. db.sessions[db.bookings[b].session].group
          = Tables.sessions[Tables.bookings[b].session].group
    <3>1. WellTyped(Tables) /\ Tables.bookings[b].session \in DOMAIN Tables.sessions
      BY <2>2, EnrolledFacts DEF WellTyped
    <3> HIDE DEF W
    <3> QED
      BY <1>1, <2>2, <3>1, UndoneRows
  <2> QED
    BY <2>1, <2>2, <2>3 DEF FutureBookingsInGroup
<1>4. ASSUME NEW s \in DOMAIN db.sessions, db.sessions[s].group = g, db.sessions[s].startsAt > now
      PROVE  db.sessions[s].status # "SCHEDULED"
  <2> HIDE DEF W
  <2>1. /\ s \in DOMAIN Tables.sessions
        /\ db.sessions[s].group = Tables.sessions[s].group
        /\ db.sessions[s].startsAt = Tables.sessions[s].startsAt
        /\ db.sessions[s].status = IF s \in C THEN "CANCELLED" ELSE Tables.sessions[s].status
    BY <1>1, EnrolledFacts, UndoneRows
  <2> QED
    BY <1>1, <1>4, <2>1
<1>5. \A x \in GroupIds :
        ~groups'[x] =>
          /\ FutureBookingsInGroup(db, x) = {}
          /\ \A s \in DOMAIN db.sessions :
               db.sessions[s].group = x /\ db.sessions[s].startsAt > now
                 => db.sessions[s].status # "SCHEDULED"
  <2>1. \A x \in GroupIds : x # g => groups'[x] = groups[x]
    BY EnrolledFacts
  <2> QED
    BY <1>2, <1>3, <1>4, <2>1 DEF EnrolledIn, GroupsQuiet
<1>6. /\ now \in Instants /\ groups' \in [GroupIds -> BOOLEAN]
      /\ students' \in [StudentIds -> Student]
      /\ memberships' \in [StudentIds -> GroupIds \cup {None}]
  BY EnrolledFacts
<1>7. \A b \in FutureBookings(db) :
        LET class == db.sessions[db.bookings[b].session] IN
          class.program = "BATCH" /\ db.events[b][1].type # "MANUALLY_ADDED_BY_ADMIN"
            => memberships'[db.bookings[b].student] = class.group
  BY <1>2 DEF EnrolledIn, SeatsBelong
<1>8. Commit(db)
  BY DEF db
<1> QED
  BY <1>2, <1>5, <1>6, <1>7, <1>8, CommitEnrolment

LEMMA UpdateGroupEnrolled ==
  ASSUME Enrolled, NEW g \in GroupIds, NEW active \in BOOLEAN, UpdateBatchGroup(g, active)
  PROVE  Enrolled'
<1>1. CASE active = FALSE
  BY <1>1, CancelGroupActivityEnrolled DEF UpdateBatchGroup
<1>2. CASE active = TRUE
  <2>1. /\ Commit(Tables) /\ UNCHANGED <<now, students, memberships>>
        /\ groups' = [groups EXCEPT ![g] = TRUE]
    BY <1>2 DEF UpdateBatchGroup
  <2>2. /\ groups' \in [GroupIds -> BOOLEAN]
        /\ \A x \in GroupIds : ~groups'[x] => ~groups[x]
    BY <2>1, EnrolledFacts
  <2> QED
    BY <2>1, <2>2, EnrolledFacts, CommitEnrolment DEF EnrolledIn, SeatsBelong, GroupsQuiet
<1> QED
  BY <1>1, <1>2

LEMMA InitEnrolled == EnrolmentInit => Enrolled
<1> SUFFICES ASSUME EnrolmentInit PROVE Enrolled
  OBVIOUS
<1>1. Init /\ groups = [g \in GroupIds |-> TRUE]
  BY DEF EnrolmentInit
<1>2. Held
  BY <1>1, InitHeld
<1>3. DOMAIN Tables.bookings = {}
  BY <1>1, TablesFields DEF Init, EmptyTable
<1>4. FutureBookings(Tables) = {}
  BY <1>3 DEF FutureBookings
<1>5. EnrolledIn(Tables)
  BY <1>1, <1>3, <1>4 DEF EnrolledIn, UnmarkedToCome, SeatsBelong, GroupsQuiet
<1>6. TrailsReplay(Tables)
  BY <1>3 DEF TrailsReplay
<1> QED
  BY <1>1, <1>2, <1>5, <1>6 DEF Enrolled

LEMMA NextKeepsEnrolled == Enrolled /\ [EnrolmentNext]_enrolmentVars => Enrolled'
<1> SUFFICES ASSUME Enrolled, [EnrolmentNext]_enrolmentVars PROVE Enrolled'
  OBVIOUS
<1>1. CASE [Next]_vars /\ groups' = groups
  <2>1. /\ Held /\ TrailsReplay(Tables) /\ EnrolledIn(Tables) /\ Typed
        /\ groups \in [GroupIds -> BOOLEAN]
    BY DEF Enrolled, Held, Told, Safe
  <2>2. Held'
    BY <1>1, <2>1, NextHeld
  <2>3. TrailsReplay(Tables)'
    BY <1>1, <2>1, NextReplays
  <2>4. EnrolledIn(Tables)'
    BY <1>1, <2>1, NextEnrolled
  <2> QED
    BY <1>1, <2>1, <2>2, <2>3, <2>4 DEF Enrolled
<1>2. ASSUME NEW st \in StudentIds, NEW program \in ProgramTypes \cup {None},
             NEW active \in BOOLEAN, UpdateStudent(st, program, active)
      PROVE  Enrolled'
  BY <1>2, UpdateStudentEnrolled
<1>3. ASSUME NEW st \in StudentIds, NEW program \in ProgramTypes, SwitchProgram(st, program)
      PROVE  Enrolled'
  BY <1>3, SwitchProgramEnrolled
<1>4. ASSUME NEW st \in StudentIds, NEW g \in GroupIds, AssignStudentToBatchGroup(st, g)
      PROVE  Enrolled'
  BY <1>4, AssignStudentEnrolled
<1>5. ASSUME NEW st \in StudentIds, NEW g \in GroupIds, TransferStudentBatchGroup(st, g)
      PROVE  Enrolled'
  BY <1>5, TransferStudentEnrolled
<1>6. ASSUME NEW g \in GroupIds, NEW active \in BOOLEAN, UpdateBatchGroup(g, active)
      PROVE  Enrolled'
  BY <1>6, UpdateGroupEnrolled
<1>7. ASSUME NEW g \in GroupIds, VoidBatchGroup(g)
      PROVE  Enrolled'
  BY <1>7, CancelGroupActivityEnrolled DEF VoidBatchGroup
<1> QED
  BY <1>1, <1>2, <1>3, <1>4, <1>5, <1>6, <1>7 DEF EnrolmentNext, enrolmentVars

LEMMA EnrolledAlways == EnrolmentSpec => []Enrolled
BY InitEnrolled, NextKeepsEnrolled, PTL DEF EnrolmentSpec

-----------------------------------------------------------------------------
(* The theorems. *)

(* The tables stay typed, the rows of students, memberships and groups included. *)
THEOREM EnrolmentTypeCorrect == EnrolmentSpec => []EnrolmentTypeOK
<1>1. Enrolled => EnrolmentTypeOK
  BY DEF Enrolled, Held, Told, Safe, Typed, EnrolmentTypeOK
<1> QED
  BY <1>1, EnrolledAlways, PTL

(* Whatever programs, memberships and groups become between the booking and the
   class, a seat a student took in a coming batch class is a member's. *)
THEOREM SeatsBelongToMembers == EnrolmentSpec => []FutureSeatsBelongToMembers
<1>1. Enrolled => FutureSeatsBelongToMembers
  BY TablesFields DEF Enrolled, EnrolledIn, SeatsBelong, FutureSeatsBelongToMembers
<1> QED
  BY <1>1, EnrolledAlways, PTL

(* An inactive group has nothing to come, although booking never looks at the
   group. *)
THEOREM InactiveGroupsAreQuiet == EnrolmentSpec => []InactiveGroupHasNoFutureActivity
<1>1. Enrolled => InactiveGroupHasNoFutureActivity
  BY TablesFields DEF Enrolled, EnrolledIn, GroupsQuiet, InactiveGroupHasNoFutureActivity
<1> QED
  BY <1>1, EnrolledAlways, PTL

(* Bookings that an administrator's change withdraws leave nobody in a class that
   will not take place, *)
THEOREM NobodyLeftBookedByChanges == EnrolmentSpec => []CancelledClassHasNobodyBooked
<1>1. Enrolled => CancelledClassHasNobodyBooked
  BY TablesFields
     DEF Enrolled, Held, Told, StatusesTell, StatusTells, CancelledClassHasNobodyBooked
<1> QED
  BY <1>1, EnrolledAlways, PTL

(* no class without its slot and no slot without its class, *)
THEOREM ChangesKeepSlotsWithClasses == EnrolmentSpec => []SlotHeldByItsClass
<1>1. Enrolled => SlotHeldByItsClass
  BY TablesFields
     DEF Enrolled, Held, HeldIn, ClassesHold, SlotsHeld, IsLive, SlotHeldByItsClass
<1> QED
  BY <1>1, EnrolledAlways, PTL

(* and a trail that tells of it. *)
THEOREM ChangesAreOnTheTrail == EnrolmentSpec => []AuditTrailReplays
<1>1. Enrolled => AuditTrailReplays
  BY TablesFields DEF Enrolled, TrailsReplay, LeadsTo, Follows, AuditTrailReplays
<1> QED
  BY <1>1, EnrolledAlways, PTL

(* Nor do they overfill a class, give a student two classes a day or make a class
   look completed. *)
THEOREM ChangesKeepClassesInOrder ==
  EnrolmentSpec => [](CapacityRespected /\ OneActiveClassPerDay /\ CompletedWhenAttendanceTaken)
<1>1. Enrolled => CapacityRespected /\ OneActiveClassPerDay /\ CompletedWhenAttendanceTaken
  BY TablesFields
     DEF Enrolled, Held, Told, Safe, SafeIn, CapacityIn, CapacityRespected, OneClassPerDayIn,
         OneActiveClassPerDay, StatusesTell, StatusTells, CompletedWhenAttendanceTaken
<1> QED
  BY <1>1, EnrolledAlways, PTL

-----------------------------------------------------------------------------
(* What the administrators' changes do to bookings that are linked, and to slots
   that are booked. *)

LEMMA TransferUndoes ==
  ASSUME Enrolled, NEW st,
         NEW W, W = {b \in FutureBookingsOfStudent(Tables, st) :
                       memberships[st] # None /\ b \in FutureBookingsInGroup(Tables, memberships[st])},
         memberships[st] \in GroupIds \cup {None}
  PROVE  /\ Undone(Tables, WithdrawBookings(Tables, W), W, {}, {})
         /\ GoTogether(Tables, W, {}, {})
<1>1. Undone(Tables, WithdrawBookings(Tables, W), W, {}, {})
  BY EnrolledFacts, WithdrawBookingsUndoes
<1>2. W \subseteq FutureBookings(Tables)
  BY DEF FutureBookingsOfStudent
<1>3. \A b \in W : /\ Tables.bookings[b].session \in DOMAIN Tables.sessions
                   /\ Tables.sessions[Tables.bookings[b].session].group \in GroupIds
  BY EnrolledFacts DEF WellTyped, FutureBookingsInGroup, FutureBookings
<1>4. \A b \in W : Tables.sessions[Tables.bookings[b].session].program = "BATCH"
  BY <1>3, EnrolledFacts, GroupClasses
<1> QED
  BY <1>1, <1>2, <1>4 DEF GoTogether

(* A change undoes the one-on-one classes of one student at most. *)
OfOneStudent(db, W) ==
  \A b, x \in W :
    /\ db.sessions[db.bookings[b].session].program = "ONE_ON_ONE"
    /\ db.sessions[db.bookings[x].session].program = "ONE_ON_ONE"
    => db.bookings[b].student = db.bookings[x].student

LEMMA ChangeUndoes ==
  ASSUME Enrolled, [EnrolmentNext]_enrolmentVars
  PROVE  \/ [Next]_vars
         \/ Tables' = Tables /\ now' = now
         \/ \E db, W, C, R :
              /\ Undone(Tables, db, W, C, R) /\ GoTogether(Tables, W, C, R)
              /\ OfOneStudent(Tables, W)
              /\ Commit(db) /\ now' = now
<1>0. /\ WellTyped(Tables) /\ ToldIn(Tables) /\ SafeIn(Tables)
      /\ memberships \in [StudentIds -> GroupIds \cup {None}]
  BY EnrolledFacts
<1> DEFINE Undoing == \E db, W, C, R :
                        /\ Undone(Tables, db, W, C, R) /\ GoTogether(Tables, W, C, R)
                        /\ OfOneStudent(Tables, W)
                        /\ Commit(db) /\ now' = now
<1>1. ASSUME NEW st \in StudentIds, NEW program \in ProgramTypes, SwitchProgram(st, program)
      PROVE  Undoing
  <2>1. PICK W : W = FutureBookingsOfStudent(Tables, st)
    OBVIOUS
  <2>2. PICK db : db = CancelFutureBookingsForStudent(Tables, st)
    OBVIOUS
  <2>3. PICK C, R : Undone(Tables, db, W, C, R) /\ GoTogether(Tables, W, C, R)
    BY <1>0, <2>1, <2>2, CancelForStudentUndoes
  <2>4. Commit(db) /\ now' = now
    BY <1>1, <2>2 DEF SwitchProgram
  <2>5. OfOneStudent(Tables, W)
    BY <2>1 DEF OfOneStudent, FutureBookingsOfStudent
  <2> QED
    BY <2>3, <2>4, <2>5
<1>2. ASSUME NEW st \in StudentIds, NEW g \in GroupIds, TransferStudentBatchGroup(st, g)
      PROVE  Undoing
  <2>1. PICK W : W = {b \in FutureBookingsOfStudent(Tables, st) :
                        memberships[st] # None /\ b \in FutureBookingsInGroup(Tables, memberships[st])}
    OBVIOUS
  <2>2. PICK db : db = WithdrawBookings(Tables, W)
    OBVIOUS
  <2>3. Undone(Tables, db, W, {}, {}) /\ GoTogether(Tables, W, {}, {})
    BY <1>0, <2>1, <2>2, TransferUndoes
  <2>4. Commit(db) /\ now' = now
    BY <1>2, <2>1, <2>2 DEF TransferStudentBatchGroup
  <2>5. OfOneStudent(Tables, W)
    BY <2>1 DEF OfOneStudent, FutureBookingsOfStudent
  <2> QED
    BY <2>3, <2>4, <2>5
<1>3. ASSUME NEW g \in GroupIds, Commit(CancelFutureGroupActivity(Tables, g)), now' = now
      PROVE  Undoing
  <2>1. PICK W : W = FutureBookingsInGroup(Tables, g)
    OBVIOUS
  <2>2. PICK db : db = CancelFutureGroupActivity(Tables, g)
    OBVIOUS
  <2>3. PICK C : Undone(Tables, db, W, C, {}) /\ GoTogether(Tables, W, C, {})
    BY <1>0, <2>1, <2>2, CancelGroupActivityUndoes
  <2>4. \A b \in W : Tables.sessions[Tables.bookings[b].session].program = "BATCH"
    BY <1>0, <2>1, GroupClasses DEF FutureBookingsInGroup, FutureBookings, WellTyped
  <2>5. OfOneStudent(Tables, W)
    BY <2>4 DEF OfOneStudent
  <2> QED
    BY <1>3, <2>2, <2>3, <2>5
<1>4. ASSUME NEW g \in GroupIds, NEW active \in BOOLEAN, UpdateBatchGroup(g, active)
      PROVE  Undoing \/ (Tables' = Tables /\ now' = now)
  <2>1. CASE active
    BY <1>4, <2>1 DEF UpdateBatchGroup, Commit, Tables
  <2>2. CASE ~active
    BY <1>3, <1>4, <2>2 DEF UpdateBatchGroup
  <2> QED
    BY <2>1, <2>2
<1>5. ASSUME NEW g \in GroupIds, VoidBatchGroup(g)
      PROVE  Undoing
  BY <1>3, <1>5 DEF VoidBatchGroup
<1>6. ASSUME NEW st, NEW program, NEW active, UpdateStudent(st, program, active)
      PROVE  Tables' = Tables /\ now' = now
  BY <1>6 DEF UpdateStudent, Tables
<1>7. ASSUME NEW st, NEW g, AssignStudentToBatchGroup(st, g)
      PROVE  Tables' = Tables /\ now' = now
  BY <1>7 DEF AssignStudentToBatchGroup, Tables
<1>8. UNCHANGED enrolmentVars => [Next]_vars
  BY DEF enrolmentVars
<1> HIDE DEF Undoing
<1>9. [Next]_vars \/ (Tables' = Tables /\ now' = now) \/ Undoing
  BY <1>1, <1>2, <1>4, <1>5, <1>6, <1>7, <1>8 DEF EnrolmentNext
<1> QED
  BY <1>9 DEF Undoing

(* A withdrawn booking is a cancelled one, and is not rescheduled. *)
LEMMA UndoneMovesOn ==
  ASSUME NEW db, WellTyped(db), TrailsReplay(db),
         NEW W, NEW C, NEW R, NEW new, Undone(db, new, W, C, R), W \subseteq FutureBookings(db)
  PROVE  Keeps(db, new)
<1>1. MovesOn(db, new)
  BY UndoneRows DEF MovesOn, FutureBookings, AttendanceStatuses
<1>2. \A b \in DOMAIN db.bookings : new.events[b][1] = db.events[b][1]
  BY UndoneReplays
<1> QED
  BY <1>1, <1>2, UndoneRows DEF Keeps

LEMMA UndoneLinks ==
  ASSUME NEW db, WellTyped(db), TrailsReplay(db), LinksIn(db),
         NEW W, NEW C, NEW R, NEW new, Undone(db, new, W, C, R), W \subseteq FutureBookings(db)
  PROVE  LinksIn(new)
<1>1. Keeps(db, new) /\ DOMAIN new.bookings = DOMAIN db.bookings
  BY UndoneMovesOn, UndoneRows
<1>2. Replacements(new) = Replacements(db)
  BY <1>1 DEF Replacements, Keeps
<1>3. Rescheduled(new) = Rescheduled(db)
  <2>1. ASSUME NEW b \in DOMAIN db.bookings
        PROVE  (\E i \in DOMAIN new.events[b] : new.events[b][i].type = "RESCHEDULED_FROM")
                 <=> (\E i \in DOMAIN db.events[b] : db.events[b][i].type = "RESCHEDULED_FROM")
    <3>1. PICK trail : trail = db.events[b]
      OBVIOUS
    <3>2. PICK event : event = Event("CANCELLED_BY_ADMIN")
      OBVIOUS
    <3>3. event \in BookingEvent /\ event.type = "CANCELLED_BY_ADMIN"
      BY <3>2, AdminEvent
    <3>4. trail \in Seq(BookingEvent)
      BY <3>1 DEF WellTyped
    <3>5. CASE b \notin W
      <4>1. new.events[b] = db.events[b]
        BY <3>5 DEF Undone
      <4> QED
        BY <4>1
    <3>6. CASE b \in W
      <4>1. new.events[b] = Append(trail, event)
        BY <3>1, <3>2, <3>6 DEF Undone
      <4>2. /\ DOMAIN trail = 1 .. Len(trail) /\ Len(trail) \in Nat
            /\ DOMAIN Append(trail, event) = 1 .. Len(trail) + 1
            /\ \A i \in 1 .. Len(trail) : Append(trail, event)[i] = trail[i]
            /\ Append(trail, event)[Len(trail) + 1] = event
        BY <3>3, <3>4
      <4>3. ASSUME NEW i \in 1 .. Len(trail) + 1, Append(trail, event)[i].type = "RESCHEDULED_FROM"
            PROVE  i \in 1 .. Len(trail) /\ trail[i].type = "RESCHEDULED_FROM"
        BY <3>3, <4>2, <4>3
      <4>4. ASSUME NEW i \in 1 .. Len(trail), trail[i].type = "RESCHEDULED_FROM"
            PROVE  i \in 1 .. Len(trail) + 1 /\ Append(trail, event)[i].type = "RESCHEDULED_FROM"
        BY <4>2, <4>4
      <4> QED
        BY <3>1, <4>1, <4>2, <4>3, <4>4
    <3> QED
      BY <3>5, <3>6
  <2> QED
    BY <1>1, <2>1 DEF Rescheduled
<1> QED
  BY <1>1, <1>2, <1>3, LinksKept

(* The slots given back were those of the classes closed. *)
LEMMA ClosedIsLive ==
  ASSUME NEW db, ToldIn(db), HeldIn(db), NEW W, NEW C, NEW R, GoTogether(db, W, C, R),
         NEW s \in C, db.sessions[s].slot \in SlotIds
  PROVE  /\ s \in DOMAIN db.sessions /\ IsLive(db.sessions, s) /\ db.sessions[s].startsAt > now
         /\ LiveSessionsOf(db.sessions, db.sessions[s].slot) = {s}
<1>0. WellTyped(db) /\ s \in DOMAIN db.sessions
  BY DEF ToldIn, SafeIn, GoTogether
<1>1. db.sessions[s].program = "ONE_ON_ONE"
  BY <1>0, SlotOfClass
<1>2. PICK b \in W : db.bookings[b].session = s
  BY <1>0, <1>1 DEF GoTogether
<1>3. b \in BookedBookingsOf(db.bookings, s) /\ db.sessions[s].startsAt > now
  BY <1>2 DEF GoTogether, FutureBookings, BookedBookingsOf
<1>4. StatusTells(db.bookings, s, db.sessions[s].status)
  BY <1>0 DEF ToldIn, StatusesTell
<1>5. IsLive(db.sessions, s)
  BY <1>1, <1>3, <1>4 DEF StatusTells, IsLive
<1> QED
  BY <1>0, <1>3, <1>5 DEF HeldIn, ClassesHold

LEMMA UndoneReleases ==
  ASSUME NEW db, ToldIn(db), HeldIn(db),
         NEW W, NEW C, NEW R, NEW new, Undone(db, new, W, C, R), GoTogether(db, W, C, R)
  PROVE  ReleasedRightly(db, new)
<1>0. WellTyped(db)
  BY DEF ToldIn, SafeIn
<1> SUFFICES ASSUME NEW slot \in SlotIds, db.slots[slot].status = "BOOKED",
                    new.slots[slot].status # "BOOKED"
             PROVE  /\ new.slots[slot].status = "AVAILABLE"
                    /\ db.slots[slot].startsAt > now
                    /\ LiveSessionsOf(db.sessions, slot) # {}
                    /\ LiveSessionsOf(new.sessions, slot) = {}
  BY DEF ReleasedRightly
<1>1. slot \in R /\ new.slots[slot].status = "AVAILABLE"
  BY <1>0, UndoneRows
<1>2. PICK s \in C : db.sessions[s].slot = slot
  BY <1>1 DEF GoTogether
<1>3. /\ s \in DOMAIN db.sessions /\ IsLive(db.sessions, s) /\ db.sessions[s].startsAt > now
      /\ LiveSessionsOf(db.sessions, slot) = {s}
  BY <1>2, ClosedIsLive
<1>4. db.slots[slot].startsAt = db.sessions[s].startsAt
  BY <1>2, <1>3 DEF HeldIn, ClassesHold
<1>5. /\ DOMAIN new.sessions = DOMAIN db.sessions
      /\ \A x \in DOMAIN db.sessions :
           /\ new.sessions[x].slot = db.sessions[x].slot
           /\ new.sessions[x].status = IF x \in C THEN "CANCELLED" ELSE db.sessions[x].status
  BY <1>0, UndoneRows
<1>6. LiveSessionsOf(new.sessions, slot) = {}
  BY <1>2, <1>3, <1>5 DEF LiveSessionsOf
<1> QED
  BY <1>1, <1>3, <1>4, <1>6

LEMMA ChangeMovesOn ==
  ASSUME Enrolled, [EnrolmentNext]_enrolmentVars
  PROVE  MovesOn(Tables, Tables') /\ ReleasedRightly(Tables, Tables')
<1>1. CASE [Next]_vars
  BY <1>1, NextMovesOn, NextReleases DEF Enrolled, Held, Told, Safe
<1>2. CASE Tables' = Tables
  BY <1>2 DEF MovesOn, ReleasedRightly
<1>3. ASSUME NEW db, NEW W, NEW C, NEW R,
             Undone(Tables, db, W, C, R), GoTogether(Tables, W, C, R), Commit(db)
      PROVE  MovesOn(Tables, Tables') /\ ReleasedRightly(Tables, Tables')
  <2>1. MovesOn(Tables, db)
    BY <1>3, EnrolledFacts, UndoneMovesOn DEF Keeps, GoTogether
  <2>2. ReleasedRightly(Tables, db)
    BY <1>3, EnrolledFacts, UndoneReleases
  <2> QED
    BY <1>3, <2>1, <2>2, CommitMovesOn, CommitReleases
<1> QED
  BY <1>1, <1>2, <1>3, ChangeUndoes

LEMMA ChangeLinks == Enrolled /\ LinksIn(Tables) /\ [EnrolmentNext]_enrolmentVars => LinksIn(Tables)'
<1> SUFFICES ASSUME Enrolled, LinksIn(Tables), [EnrolmentNext]_enrolmentVars
             PROVE  LinksIn(Tables)'
  OBVIOUS
<1>1. CASE [Next]_vars
  BY <1>1, NextLinks DEF Linked, Enrolled, Held, Told, Safe
<1>2. CASE Tables' = Tables
  BY <1>2 DEF LinksIn, EachReplaced, EachReplaces, ReplacementsOf, Rescheduled, Replacements
<1>3. ASSUME NEW db, NEW W, NEW C, NEW R,
             Undone(Tables, db, W, C, R), GoTogether(Tables, W, C, R), Commit(db)
      PROVE  LinksIn(Tables)'
  <2>1. LinksIn(db)
    BY <1>3, EnrolledFacts, UndoneLinks DEF GoTogether
  <2> QED
    BY <1>3, <2>1, CommitLinks
<1> QED
  BY <1>1, <1>2, <1>3, ChangeUndoes

(* No switch, transfer or voided group brings a cancelled booking back, takes
   attendance back or moves a booking to another student or class
   (cancel_future_bookings_for_student and its siblings only cancel). *)
THEOREM ChangesOnlyCancel == EnrolmentSpec => BookingLifecycle
<1>1. Enrolled /\ [EnrolmentNext]_enrolmentVars =>
        [\A b \in DOMAIN bookings :
           LET before == bookings[b]
               after == bookings'[b]
           IN /\ after.student = before.student /\ after.session = before.session
              /\ before.status = "CANCELLED" => after.status = "CANCELLED"
              /\ before.status \in AttendanceStatuses => after.status \in AttendanceStatuses]_vars
  <2>1. Tables.bookings = bookings /\ Tables'.bookings = bookings'
    BY DEF Tables
  <2> QED
    BY <2>1, ChangeMovesOn DEF MovesOn
<1> QED
  BY <1>1, EnrolledAlways, PTL DEF EnrolmentSpec, BookingLifecycle

(* A booking that replaces another, and the one it replaces, stay each other's
   only counterpart when an administrator's change withdraws either. *)
THEOREM ChangesBreakNoLink == EnrolmentSpec => []RescheduleLinks
<1>1. EnrolmentInit => LinksIn(Tables)
  BY TablesFields
     DEF EnrolmentInit, Init, EmptyTable, LinksIn, EachReplaced, EachReplaces, Rescheduled,
         Replacements
<1>2. Enrolled /\ LinksIn(Tables) /\ [EnrolmentNext]_enrolmentVars => LinksIn(Tables)'
  BY ChangeLinks
<1>3. LinksIn(Tables) => RescheduleLinks
  BY TablesFields
     DEF LinksIn, EachReplaced, EachReplaces, ReplacementsOf, Rescheduled, Replacements,
         RescheduleLinks
<1> QED
  BY <1>1, <1>2, <1>3, EnrolledAlways, PTL DEF EnrolmentSpec

(* A switch of program gives back the slots of the student's coming classes and
   no other: each is freed in the step that cancels its class, before it starts. *)
THEOREM ChangesReleaseSlotsRightly == EnrolmentSpec => SlotReleasedWithItsClass
<1>1. Enrolled /\ [EnrolmentNext]_enrolmentVars =>
        [\A slot \in SlotIds :
           slots[slot].status = "BOOKED" /\ slots'[slot].status # "BOOKED" =>
             /\ slots'[slot].status = "AVAILABLE"
             /\ slots[slot].startsAt > now
             /\ LiveSessionsOf(sessions, slot) # {}
             /\ LiveSessionsOf(sessions', slot) = {}]_vars
  <2>1. /\ Tables.slots = slots /\ Tables.sessions = sessions
        /\ Tables'.slots = slots' /\ Tables'.sessions = sessions'
    BY DEF Tables
  <2> QED
    BY <2>1, ChangeMovesOn DEF ReleasedRightly
<1> QED
  BY <1>1, EnrolledAlways, PTL DEF EnrolmentSpec, SlotReleasedWithItsClass

(* A change gives up the slots of one student at most. *)
LEMMA UndoneGivesUp ==
  ASSUME NEW db, ToldIn(db), HeldIn(db),
         NEW W, NEW C, NEW R, NEW new, Undone(db, new, W, C, R), GoTogether(db, W, C, R),
         OfOneStudent(db, W)
  PROVE  \/ DiaryOf(new) = DiaryOf(db)
         \/ \E st \in StudentIds : GivenUp(DiaryOf(db), DiaryOf(new), st)
<1>0. WellTyped(db) /\ SafeIn(db)
  BY DEF ToldIn, SafeIn
<1>1. /\ DOMAIN new.bookings = DOMAIN db.bookings
      /\ \A b \in DOMAIN db.bookings :
           /\ new.bookings[b].student = db.bookings[b].student
           /\ new.bookings[b].session = db.bookings[b].session
           /\ new.bookings[b].status = IF b \in W THEN "CANCELLED" ELSE db.bookings[b].status
      /\ DOMAIN new.sessions = DOMAIN db.sessions
      /\ \A s \in DOMAIN db.sessions :
           /\ new.sessions[s].slot = db.sessions[s].slot
           /\ new.sessions[s].status = IF s \in C THEN "CANCELLED" ELSE db.sessions[s].status
  BY <1>0, UndoneRows
<1>2. \A slot \in SlotIds :
        HoldersOf(new.bookings, new.sessions, slot) \subseteq HoldersOf(db.bookings, db.sessions, slot)
  BY <1>1 DEF HoldersOf, LiveSessionsOf
<1>3. ASSUME NEW slot \in SlotIds,
             NEW b \in HoldersOf(db.bookings, db.sessions, slot)
                         \ HoldersOf(new.bookings, new.sessions, slot)
      PROVE  b \in W /\ db.sessions[db.bookings[b].session].program = "ONE_ON_ONE"
  <2>1. PICK s : s = db.bookings[b].session
    OBVIOUS
  <2>2. /\ b \in DOMAIN db.bookings /\ db.bookings[b].status # "CANCELLED"
        /\ s \in DOMAIN db.sessions /\ s \in LiveSessionsOf(db.sessions, slot)
    BY <2>1 DEF HoldersOf, LiveSessionsOf
  <2>3. IsLive(db.sessions, s) /\ db.sessions[s].program = "ONE_ON_ONE"
    BY <1>0, <2>2, SlotOfClass DEF IsLive
  <2>4. CASE s \in C
    <3>1. PICK x \in W : db.bookings[x].session = s
      BY <2>2, <2>3, <2>4 DEF GoTogether
    <3>2. x \in DOMAIN db.bookings /\ db.bookings[x].status = "BOOKED"
      BY <3>1 DEF GoTogether, FutureBookings
    <3>3. x \in HoldersOf(db.bookings, db.sessions, slot)
      BY <2>2, <3>1, <3>2 DEF HoldersOf
    <3>4. x = b
      BY <1>0, <3>3, OneHolder
    <3> QED
      BY <2>1, <2>3, <3>1, <3>4
  <2>5. CASE s \notin C
    <3>1. s \in LiveSessionsOf(new.sessions, slot)
      BY <1>1, <2>2, <2>5 DEF LiveSessionsOf
    <3>2. new.bookings[b].status = "CANCELLED"
      BY <1>1, <2>1, <2>2, <3>1 DEF HoldersOf
    <3> QED
      BY <1>1, <2>1, <2>2, <2>3, <3>2
  <2> QED
    BY <2>4, <2>5
<1>4. CASE \A slot \in SlotIds :
             HoldersOf(new.bookings, new.sessions, slot) = HoldersOf(db.bookings, db.sessions, slot)
  <2>1. \A slot \in SlotIds : \A b \in HoldersOf(db.bookings, db.sessions, slot) :
          new.bookings[b].student = db.bookings[b].student
    BY <1>1 DEF HoldersOf
  <2> QED
    BY <1>4, <2>1 DEF DiaryOf
<1>5. ASSUME NEW slot \in SlotIds,
             NEW b \in HoldersOf(db.bookings, db.sessions, slot)
                         \ HoldersOf(new.bookings, new.sessions, slot)
      PROVE  \E st \in StudentIds : GivenUp(DiaryOf(db), DiaryOf(new), st)
  <2>1. PICK st : st = db.bookings[b].student
    OBVIOUS
  <2>2. st \in StudentIds
    BY <1>0, <2>1 DEF HoldersOf, WellTyped, Booking
  <2>3. \A t \in SlotIds :
          \A x \in HoldersOf(db.bookings, db.sessions, t)
                     \ HoldersOf(new.bookings, new.sessions, t) :
            db.bookings[x].student = st
    BY <1>3, <2>1 DEF OfOneStudent
  <2>4. GivenUp(DiaryOf(db), DiaryOf(new), st)
    BY <1>0, <1>1, <1>2, <2>3, LosersGiveUp
  <2> QED
    BY <2>2, <2>4
<1> QED
  BY <1>2, <1>4, <1>5

LEMMA ChangeDiaryStep ==
  ASSUME Enrolled, [EnrolmentNext]_enrolmentVars
  PROVE  DiaryStep(DiaryView, DiaryView')
<1>1. CASE [Next]_vars
  BY <1>1, NextDiaryStep DEF Enrolled
<1>2. CASE Tables' = Tables
  <2>1. DiaryView' = DiaryView
    BY <1>2 DEF Tables, DiaryView
  <2> QED
    BY <2>1 DEF DiaryStep
<1>3. ASSUME NEW db, NEW W, NEW C, NEW R,
             Undone(Tables, db, W, C, R), GoTogether(Tables, W, C, R),
             OfOneStudent(Tables, W), Commit(db)
      PROVE  DiaryStep(DiaryView, DiaryView')
  <2>1. ToldIn(Tables) /\ HeldIn(Tables)
    BY EnrolledFacts DEF Enrolled, Held
  <2>2. \/ DiaryOf(db) = DiaryOf(Tables)
        \/ \E st \in StudentIds : GivenUp(DiaryOf(Tables), DiaryOf(db), st)
    BY <1>3, <2>1, UndoneGivesUp
  <2>3. DiaryView' = DiaryOf(db) /\ DiaryView = DiaryOf(Tables)
    BY <1>3, DiaryCommitted, DiaryOfTables
  <2> QED
    BY <2>2, <2>3 DEF DiaryStep
<1> QED
  BY <1>1, <1>2, <1>3, ChangeUndoes

(* What administrators change is on the teachers' time a student's giving up of
   slots, or nothing: a switch of program takes no slot from anybody else and
   leaves none with the student, and a transfer or a voided group touches none. *)
THEOREM ChangesKeepTheDiary == EnrolmentSpec => ImplementsDiary
<1>1. Enrolled /\ [EnrolmentNext]_enrolmentVars => [Diary!DiaryNext]_DiaryView
  BY ChangeDiaryStep, StepOfDiary
<1>2. EnrolmentInit => Diary!DiaryInit
  BY InitDiary DEF EnrolmentInit
<1> QED
  BY <1>1, <1>2, EnrolledAlways, PTL
     DEF EnrolmentSpec, ImplementsDiary, Diary!DiarySpec, DiaryView

=============================================================================
