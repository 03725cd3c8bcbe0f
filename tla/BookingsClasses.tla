--------------------------- MODULE BookingsClasses ---------------------------
(***************************************************************************)
(* The theorems about the classes of Bookings and the slots they hold: what   *)
(* the status of a class says of the seats taken in it, that seen as a roster  *)
(* Bookings implements ClassRoster, that a slot is held by one class as long   *)
(* as that class is live, and goes with it, and that seen as a diary of the     *)
(* slots Bookings implements SlotDiary.  That a one-on-one class closes empty   *)
(* rests on its capacity, so these invariants come on top of Safe.            *)
(***************************************************************************)
EXTENDS BookingsSafety

-----------------------------------------------------------------------------
(* The inductive invariant. *)

(* What the status of class s says of its seats. *)
StatusTells(bks, s, status) ==
  LET active == ActiveBookingsOf(bks, s)
      unmarked == BookedBookingsOf(bks, s)
  IN /\ status = "CANCELLED" => unmarked = {}
     /\ status = "COMPLETED" => active # {} /\ unmarked = {}
     /\ status = "SCHEDULED" => active = {} \/ unmarked # {}

StatusesTell(db) ==
  \A s \in DOMAIN db.sessions : StatusTells(db.bookings, s, db.sessions[s].status)

ToldIn(db) == SafeIn(db) /\ StatusesTell(db)

Told == Safe /\ StatusesTell(Tables)

-----------------------------------------------------------------------------
(* The operators. *)

(* A seat is taken in scheduled classes only. *)
LEMMA AddBookingTells ==
  ASSUME NEW db, WellTyped(db), StatusesTell(db),
         NEW st \in StudentIds, NEW s \in DOMAIN db.sessions, NEW event,
         db.sessions[s].status = "SCHEDULED", HasNewKey(BookingIds, db.bookings)
  PROVE  StatusesTell(AddBooking(db, st, s, event))
<1> DEFINE b == NewKey(BookingIds, db.bookings)
           new == AddBooking(db, st, s, event)
<1>1. b \notin DOMAIN db.bookings
  BY NewKeyIsNew
<1>2. /\ new.sessions = db.sessions
      /\ DOMAIN new.bookings = DOMAIN db.bookings \cup {b}
      /\ new.bookings[b].session = s /\ new.bookings[b].status = "BOOKED"
      /\ \A x \in DOMAIN db.bookings : new.bookings[x] = db.bookings[x]
  BY <1>1 DEF AddBooking, WellTyped, IsTables, Insert
<1> HIDE DEF b, new
<1>3. ASSUME NEW x \in DOMAIN db.sessions
      PROVE  StatusTells(new.bookings, x, db.sessions[x].status)
  <2>1. CASE x = s
    <3>1. b \in BookedBookingsOf(new.bookings, s)
      BY <1>2 DEF BookedBookingsOf
    <3> QED
      BY <2>1, <3>1 DEF StatusTells
  <2>2. CASE x # s
    <3>1. StatusTells(db.bookings, x, db.sessions[x].status)
      BY DEF StatusesTell
    <3>2. /\ ActiveBookingsOf(new.bookings, x) = ActiveBookingsOf(db.bookings, x)
          /\ BookedBookingsOf(new.bookings, x) = BookedBookingsOf(db.bookings, x)
      BY <1>2, <2>2 DEF ActiveBookingsOf, BookedBookingsOf
    <3> QED
      BY <3>1, <3>2 DEF StatusTells
  <2> QED
    BY <2>1, <2>2
<1> QED
  BY <1>2, <1>3 DEF StatusesTell, new

(* A claimed slot becomes a scheduled class that nobody is in yet. *)
LEMMA AddOneOnOneBookingTells ==
  ASSUME NEW db, WellTyped(db), StatusesTell(db),
         NEW st \in StudentIds, NEW slot \in SlotIds, NEW event,
         CanCreateOneOnOneBooking(db, st, slot)
  PROVE  StatusesTell(AddOneOnOneBooking(db, st, slot, event))
<1> DEFINE s == NewKey(SessionIds, db.sessions)
           new == ClaimSlot(db, slot)
<1>1. HasNewKey(BookingIds, db.bookings) /\ HasNewKey(SessionIds, db.sessions)
  BY DEF CanCreateOneOnOneBooking
<1>2. /\ WellTyped(new) /\ s \in DOMAIN new.sessions
      /\ new.bookings = db.bookings
      /\ DOMAIN new.sessions = DOMAIN db.sessions \cup {s} /\ s \notin DOMAIN db.sessions
      /\ \A x \in DOMAIN db.sessions : new.sessions[x] = db.sessions[x]
  BY <1>1, ClaimSlotTyped, ClaimSlotKeepsClasses
<1>3. new.sessions[s].status = "SCHEDULED"
  BY DEF ClaimSlot, WellTyped, IsTables, Insert
<1> HIDE DEF s, new
<1>4. StatusTells(new.bookings, s, "SCHEDULED")
  BY <1>2 DEF StatusTells, ActiveBookingsOf, WellTyped
<1>5. StatusesTell(new)
  BY <1>2, <1>3, <1>4 DEF StatusesTell
<1>6. StatusesTell(AddBooking(new, st, s, event))
  BY <1>1, <1>2, <1>3, <1>5, AddBookingTells
<1> QED
  BY <1>6 DEF AddOneOnOneBooking, s, new

(* The only student of a one-on-one class is the only one booked into it. *)
LEMMA OneOnOneHasOneSeat ==
  ASSUME NEW db, SafeIn(db), NEW b \in DOMAIN db.bookings, db.bookings[b].status = "BOOKED",
         db.sessions[db.bookings[b].session].program = "ONE_ON_ONE"
  PROVE  BookedBookingsOf(db.bookings, db.bookings[b].session) = {b}
<1> DEFINE s == db.bookings[b].session
           active == ActiveBookingsOf(db.bookings, s)
<1>1. s \in DOMAIN db.sessions /\ WellTyped(db)
  BY DEF SafeIn, WellTyped
<1>2. db.sessions[s].capacity = 1
  BY <1>1 DEF WellTyped, Session, OneOnOneSession, BatchSession
<1>3. b \in active
  BY DEF ActiveBookingsOf
<1>4. IsFiniteSet(active) /\ Cardinality(active) \in Nat /\ Cardinality(active) <= 1
  BY <1>1, <1>2, ActiveBookingsFinite DEF SafeIn, CapacityIn
<1> HIDE DEF s, active
<1>5. active = {b}
  <2>1. \A x \in active : x = b
    <3> SUFFICES ASSUME NEW x \in active, x # b
                 PROVE  FALSE
      OBVIOUS
    <3>1. {x, b} \subseteq active
      BY <1>3
    <3>2. Cardinality({x, b}) <= Cardinality(active)
      BY <1>4, <3>1, FS_Subset
    <3>3. Cardinality({x, b}) = 2
      <4>1. IsFiniteSet({b}) /\ Cardinality({b}) = 1
        BY FS_Singleton
      <4>2. x \notin {b}
        OBVIOUS
      <4>3. Cardinality({b} \cup {x}) = Cardinality({b}) + 1
        BY <4>1, <4>2, FS_AddElement
      <4>4. {b} \cup {x} = {x, b}
        OBVIOUS
      <4> QED
        BY <4>1, <4>3, <4>4
    <3> QED
      BY <1>4, <3>2, <3>3
  <2> QED
    BY <1>3, <2>1
<1> QED
  BY <1>5 DEF active, ActiveBookingsOf, BookedBookingsOf, s

(* A cancellation closes the class it leaves without anybody booked, and no
   other. *)
LEMMA CancelExistingBookingTells ==
  ASSUME NEW db, ToldIn(db), NEW b \in DOMAIN db.bookings,
         db.bookings[b].status = "BOOKED", NEW type \in CancellationEvents
  PROVE  StatusesTell(CancelExistingBooking(db, b, type))
<1> DEFINE s == db.bookings[b].session
           new == CancelExistingBooking(db, b, type)
<1>1. WellTyped(db) /\ s \in DOMAIN db.sessions /\ db.sessions[s] \in Session
  BY DEF ToldIn, SafeIn, WellTyped
<1>2. /\ DOMAIN new.bookings = DOMAIN db.bookings
      /\ new.bookings[b].session = s /\ new.bookings[b].status = "CANCELLED"
      /\ \A x \in DOMAIN db.bookings : x # b => new.bookings[x] = db.bookings[x]
  <2>1. new.bookings = [db.bookings EXCEPT ![b].status = "CANCELLED"]
    BY DEF CancelExistingBooking
  <2>2. /\ [db.bookings[b] EXCEPT !.status = "CANCELLED"].session = db.bookings[b].session
        /\ [db.bookings[b] EXCEPT !.status = "CANCELLED"].status = "CANCELLED"
    BY <1>1, BookingStatusWritten DEF WellTyped, BookingStatuses
  <2> QED
    BY <1>1, <2>1, <2>2 DEF WellTyped
<1>3. /\ DOMAIN new.sessions = DOMAIN db.sessions
      /\ \A x \in DOMAIN db.sessions : x # s => new.sessions[x] = db.sessions[x]
      /\ new.sessions[s].status = IF ClosesClass(db, b) THEN "CANCELLED" ELSE db.sessions[s].status
  <2>1. new.sessions = IF ClosesClass(db, b)
                       THEN [db.sessions EXCEPT ![s].status = "CANCELLED"] ELSE db.sessions
    BY DEF CancelExistingBooking
  <2>2. [db.sessions[s] EXCEPT !.status = "CANCELLED"].status = "CANCELLED"
    BY <1>1, SessionStatusWritten DEF SessionStatuses
  <2> QED
    BY <1>1, <2>1, <2>2 DEF WellTyped
<1>4. db.sessions[s].status = "SCHEDULED"
  <2>1. b \in BookedBookingsOf(db.bookings, s)
    BY DEF BookedBookingsOf
  <2>2. StatusTells(db.bookings, s, db.sessions[s].status)
    BY <1>1 DEF ToldIn, StatusesTell
  <2>3. db.sessions[s].status \in SessionStatuses
    BY <1>1 DEF Session, OneOnOneSession, BatchSession
  <2> QED
    BY <2>1, <2>2, <2>3 DEF StatusTells, SessionStatuses
<1>5. ClosesClass(db, b) <=> BookedBookingsOf(db.bookings, s) = {b}
  <2>1. ClosesClass(db, b) <=> \/ db.sessions[s].program = "ONE_ON_ONE"
                               \/ BookedBookingsOf(db.bookings, s) = {b}
    BY <1>4 DEF ClosesClass
  <2> QED
    BY <2>1, OneOnOneHasOneSeat DEF ToldIn
<1> HIDE DEF s, new
<1>6. BookedBookingsOf(new.bookings, s) = BookedBookingsOf(db.bookings, s) \ {b}
  BY <1>2 DEF BookedBookingsOf
<1>7. b \in BookedBookingsOf(db.bookings, s)
  BY DEF BookedBookingsOf, s
<1>8. StatusTells(new.bookings, s, new.sessions[s].status)
  BY <1>3, <1>4, <1>5, <1>6, <1>7 DEF StatusTells
<1>9. ASSUME NEW x \in DOMAIN db.sessions, x # s
      PROVE  StatusTells(new.bookings, x, new.sessions[x].status)
  <2>1. StatusTells(db.bookings, x, db.sessions[x].status)
    BY DEF ToldIn, StatusesTell
  <2>2. /\ ActiveBookingsOf(new.bookings, x) = ActiveBookingsOf(db.bookings, x)
        /\ BookedBookingsOf(new.bookings, x) = BookedBookingsOf(db.bookings, x)
    BY <1>2, <1>9 DEF ActiveBookingsOf, BookedBookingsOf, s
  <2> QED
    BY <1>3, <1>9, <2>1, <2>2 DEF StatusTells
<1> QED
  BY <1>3, <1>8, <1>9 DEF StatusesTell, new

(* Attendance completes the class whose last seat it marks, and no other. *)
LEMMA AttendanceTakenTells ==
  ASSUME NEW db, ToldIn(db), NEW s \in DOMAIN db.sessions,
         NEW marks, DOMAIN marks \subseteq DOMAIN db.bookings, DOMAIN marks # {},
         \A b \in DOMAIN marks :
           /\ marks[b] \in AttendanceStatuses /\ db.bookings[b].status # "CANCELLED"
           /\ db.bookings[b].session = s,
         db.sessions[s].status # "CANCELLED"
  PROVE  StatusesTell(AttendanceTaken(db, s, marks))
<1> DEFINE marked == MarkBookings(db, marks)
           new == AttendanceTaken(db, s, marks)
<1>1. WellTyped(db) /\ WellTyped(marked) /\ marked.sessions = db.sessions
  BY MarkBookingsTyped DEF ToldIn, SafeIn
<1>2. marked.bookings = [b \in DOMAIN db.bookings |->
         IF b \in DOMAIN marks
         THEN [db.bookings[b] EXCEPT !.status = marks[b]] ELSE db.bookings[b]]
  BY <1>1 DEF MarkBookings, WellTyped, IsTables
<1> HIDE DEF marked
<1>3. /\ DOMAIN marked.bookings = DOMAIN db.bookings
      /\ \A b \in DOMAIN db.bookings \ DOMAIN marks : marked.bookings[b] = db.bookings[b]
      /\ \A b \in DOMAIN marks :
           /\ marked.bookings[b].session = s
           /\ marked.bookings[b].status \in AttendanceStatuses
  BY <1>1, <1>2, BookingStatusWritten DEF WellTyped, BookingStatuses
<1>4. /\ new.bookings = marked.bookings
      /\ DOMAIN new.sessions = DOMAIN db.sessions
      /\ \A x \in DOMAIN db.sessions : x # s => new.sessions[x] = db.sessions[x]
      /\ new.sessions[s].status = IF CompletesClass(marked, s) THEN "COMPLETED"
                                  ELSE db.sessions[s].status
  <2>1. [db.sessions[s] EXCEPT !.status = "COMPLETED"].status = "COMPLETED"
    BY <1>1, SessionStatusWritten DEF WellTyped, SessionStatuses
  <2>2. /\ new.bookings = marked.bookings
        /\ new.sessions = IF CompletesClass(marked, s)
                          THEN [db.sessions EXCEPT ![s].status = "COMPLETED"] ELSE db.sessions
    BY <1>1 DEF AttendanceTaken, CompleteClassSessionIfAttendanceMarked, WellTyped, IsTables,
                marked
  <2> QED
    BY <1>1, <2>1, <2>2 DEF WellTyped
<1> HIDE DEF new
<1>5. \E b \in DOMAIN marks : b \in ActiveBookingsOf(marked.bookings, s)
  BY <1>3 DEF ActiveBookingsOf, AttendanceStatuses
<1>6. CompletesClass(marked, s) <=> BookedBookingsOf(marked.bookings, s) = {}
  BY <1>1, <1>5 DEF CompletesClass
<1>7. BookedBookingsOf(marked.bookings, s) \subseteq BookedBookingsOf(db.bookings, s)
  BY <1>3 DEF BookedBookingsOf, AttendanceStatuses
<1>8. StatusTells(marked.bookings, s, new.sessions[s].status)
  <2>1. StatusTells(db.bookings, s, db.sessions[s].status)
    BY DEF ToldIn, StatusesTell
  <2> QED
    BY <1>4, <1>5, <1>6, <1>7, <2>1 DEF StatusTells
<1>9. ASSUME NEW x \in DOMAIN db.sessions, x # s
      PROVE  StatusTells(marked.bookings, x, new.sessions[x].status)
  <2>1. StatusTells(db.bookings, x, db.sessions[x].status)
    BY DEF ToldIn, StatusesTell
  <2>2. /\ ActiveBookingsOf(marked.bookings, x) = ActiveBookingsOf(db.bookings, x)
        /\ BookedBookingsOf(marked.bookings, x) = BookedBookingsOf(db.bookings, x)
    BY <1>3, <1>9 DEF ActiveBookingsOf, BookedBookingsOf
  <2> QED
    BY <1>4, <1>9, <2>1, <2>2 DEF StatusTells
<1> QED
  BY <1>4, <1>8, <1>9 DEF StatusesTell, new

-----------------------------------------------------------------------------
(* The invariant is inductive. *)

LEMMA InitTold == Init => Told
<1> SUFFICES ASSUME Init PROVE Told
  OBVIOUS
<1>1. Safe
  BY InitSafe
<1>2. DOMAIN Tables.bookings = {}
  BY TablesFields DEF Init, EmptyTable
<1>3. \A s \in DOMAIN Tables.sessions : Tables.sessions[s].status = "SCHEDULED"
  BY TablesFields, InitialTablesAssumption DEF Init
<1>4. StatusesTell(Tables)
  BY <1>2, <1>3 DEF StatusesTell, StatusTells, ActiveBookingsOf
<1> QED
  BY <1>1, <1>4 DEF Told

LEMMA CommitTold ==
  ASSUME Safe, NEW db, SafeIn(db), StatusesTell(db), Commit(db),
         UNCHANGED <<now, students, memberships>>
  PROVE  Told'
<1>1. Safe'
  BY CommitSafe
<1>2. Tables'.bookings = db.bookings /\ Tables'.sessions = db.sessions
  BY DEF Commit, Tables
<1> QED
  BY <1>1, <1>2 DEF Told, StatusesTell

LEMMA NextTold == Told /\ [Next]_vars => Told'
<1> SUFFICES ASSUME Told, [Next]_vars PROVE Told'
  OBVIOUS
<1>0. /\ Safe /\ ToldIn(Tables) /\ SafeIn(Tables) /\ WellTyped(Tables) /\ StatusesTell(Tables)
      /\ Tables.bookings = bookings /\ Tables.sessions = sessions
      /\ DOMAIN bookings \subseteq BookingIds
      /\ \A b \in DOMAIN bookings :
           bookings[b].student \in StudentIds /\ bookings[b].session \in DOMAIN sessions
  BY TablesFields DEF Told, ToldIn, Safe, SafeIn, Typed, TypeOK, WellTyped, Booking
<1>1. ASSUME NEW st \in StudentIds, NEW s \in DOMAIN sessions, CreateBatchBooking(st, s)
      PROVE  Told'
  <2> DEFINE new == AddBooking(Tables, st, s, Event("BOOKED"))
  <2>1. CanCreateBatchBooking(Tables, st, s) /\ Commit(new) /\ UNCHANGED <<now, students, memberships>>
    BY <1>1 DEF CreateBatchBooking
  <2>2. SafeIn(new)
    BY <1>0, <2>1, AddBookingSafe, EventsTyped DEF CanCreateBatchBooking, CreationEvents
  <2>3. StatusesTell(new)
    BY <1>0, <2>1, AddBookingTells DEF CanCreateBatchBooking
  <2> HIDE DEF new
  <2> QED
    BY <1>0, <2>1, <2>2, <2>3, CommitTold
<1>2. ASSUME NEW st \in StudentIds, NEW s \in DOMAIN sessions, AdminAddStudentToClass(st, s)
      PROVE  Told'
  <2> DEFINE new == AddBooking(Tables, st, s, Event("MANUALLY_ADDED_BY_ADMIN"))
  <2>1. Commit(new) /\ UNCHANGED <<now, students, memberships>>
    BY <1>2 DEF AdminAddStudentToClass
  <2>2. SafeIn(new)
    BY <1>0, <1>2, AddBookingSafe, EventsTyped DEF AdminAddStudentToClass, CreationEvents
  <2>3. StatusesTell(new)
    BY <1>0, <1>2, AddBookingTells DEF AdminAddStudentToClass
  <2> HIDE DEF new
  <2> QED
    BY <1>0, <2>1, <2>2, <2>3, CommitTold
<1>3. ASSUME NEW st \in StudentIds, NEW slot \in SlotIds, CreateOneOnOneBooking(st, slot)
      PROVE  Told'
  BY <1>0, <1>3, AddOneOnOneBookingSafe, AddOneOnOneBookingTells, EventsTyped, CommitTold
     DEF CreateOneOnOneBooking, CreationEvents
<1>4. ASSUME NEW b \in DOMAIN bookings, CancelBooking(b) \/ AdminCancelBooking(b)
      PROVE  Told'
  BY <1>0, <1>4, CancelExistingBookingSafe, CancelExistingBookingTells, CommitTold
     DEF CancelBooking, AdminCancelBooking, CanCancel, CancellationEvents
<1>5. ASSUME NEW b \in DOMAIN bookings, NEW s \in DOMAIN sessions, NEW cutoff \in BOOLEAN,
             RescheduleBatchBooking(b, s, cutoff)
      PROVE  Told'
  <2> DEFINE db == CancelExistingBooking(Tables, b, "RESCHEDULED_FROM")
             new == AddBooking(db, bookings[b].student, s, RescheduledTo(b))
  <2>1. SafeIn(db) /\ StatusesTell(db) /\ DOMAIN db.sessions = DOMAIN sessions
    BY <1>0, <1>5, CancelExistingBookingSafe, CancelExistingBookingTells
       DEF RescheduleBatchBooking, CanCancel, CancellationEvents
  <2> HIDE DEF db
  <2>2. /\ CanCreateBatchBooking(db, bookings[b].student, s)
        /\ Commit(new) /\ UNCHANGED <<now, students, memberships>>
    BY <1>5 DEF RescheduleBatchBooking, db
  <2>3. SafeIn(new)
    BY <1>0, <2>1, <2>2, AddBookingSafe, EventsTyped DEF CanCreateBatchBooking
  <2>4. StatusesTell(new)
    BY <1>0, <2>1, <2>2, AddBookingTells DEF CanCreateBatchBooking, SafeIn
  <2> HIDE DEF new
  <2> QED
    BY <1>0, <2>2, <2>3, <2>4, CommitTold
<1>6. ASSUME NEW b \in DOMAIN bookings, NEW slot \in SlotIds, NEW cutoff \in BOOLEAN,
             RescheduleOneOnOneBooking(b, slot, cutoff)
      PROVE  Told'
  <2> DEFINE db == CancelExistingBooking(Tables, b, "RESCHEDULED_FROM")
             new == AddOneOnOneBooking(db, bookings[b].student, slot, RescheduledTo(b))
  <2>1. SafeIn(db) /\ StatusesTell(db)
    BY <1>0, <1>6, CancelExistingBookingSafe, CancelExistingBookingTells
       DEF RescheduleOneOnOneBooking, CanCancel, CancellationEvents
  <2> HIDE DEF db
  <2>2. /\ CanCreateOneOnOneBooking(db, bookings[b].student, slot)
        /\ Commit(new) /\ UNCHANGED <<now, students, memberships>>
    BY <1>6 DEF RescheduleOneOnOneBooking, db
  <2>3. SafeIn(new)
    BY <1>0, <2>1, <2>2, AddOneOnOneBookingSafe, EventsTyped
  <2>4. StatusesTell(new)
    BY <1>0, <2>1, <2>2, AddOneOnOneBookingTells DEF SafeIn
  <2> HIDE DEF new
  <2> QED
    BY <1>0, <2>2, <2>3, <2>4, CommitTold
<1>7. ASSUME NEW s \in DOMAIN sessions, NEW marks, DOMAIN marks \subseteq DOMAIN bookings,
             DOMAIN marks # {},
             \A b \in DOMAIN marks :
               marks[b] \in AttendanceStatuses /\ bookings[b].session = s,
             MarkAttendance(s, marks)
      PROVE  Told'
  <2>1. \A b \in DOMAIN marks : /\ bookings[b].status # "CANCELLED"
                                /\ sessions[s].status # "CANCELLED"
    BY <1>7 DEF MarkAttendance, CanMarkAttendance
  <2>2. SafeIn(AttendanceTaken(Tables, s, marks)) /\ StatusesTell(AttendanceTaken(Tables, s, marks))
    BY <1>0, <1>7, <2>1, AttendanceTakenSafe, AttendanceTakenTells
  <2> QED
    BY <1>0, <1>7, <2>2, CommitTold DEF MarkAttendance, AttendanceTaken
<1>8. ASSUME NEW b \in DOMAIN bookings, NEW status \in AttendanceStatuses,
             MarkBookingAttendance(b, status)
      PROVE  Told'
  <2> DEFINE marks == [x \in {b} |-> status]
  <2>1. /\ DOMAIN marks = {b} /\ marks[b] = status
        /\ MarkAttendance(bookings[b].session, marks)
    BY <1>8 DEF MarkBookingAttendance
  <2> HIDE DEF marks
  <2> QED
    BY <1>0, <1>7, <2>1
<1>9. ASSUME NEW s \in DOMAIN sessions, NEW named \in (SUBSET DOMAIN bookings) \ {{}},
             NEW marks \in [named -> AttendanceStatuses], MarkClassAttendance(s, marks)
      PROVE  Told'
  BY <1>7, <1>9 DEF MarkClassAttendance
<1>10. CASE Tick \/ UNCHANGED vars
  <2>1. Safe'
    BY <1>0, <1>10, NextSafe DEF Next
  <2>2. Tables'.bookings = Tables.bookings /\ Tables'.sessions = Tables.sessions
    BY <1>10 DEF Tables, Tick, vars
  <2> QED
    BY <1>0, <2>1, <2>2 DEF Told, StatusesTell
<1> QED
  BY <1>1, <1>2, <1>3, <1>4, <1>5, <1>6, <1>8, <1>9, <1>10 DEF Next

LEMMA ToldAlways == Spec => []Told
BY InitTold, NextTold, PTL DEF Spec

(* Cancelling, rescheduling, adding and marking, in any order, leave nobody
   booked into a class that will not take place. *)
THEOREM NobodyBookedIntoCancelled == Spec => []CancelledClassHasNobodyBooked
<1>1. Told => CancelledClassHasNobodyBooked
  BY TablesFields DEF Told, StatusesTell, StatusTells, CancelledClassHasNobodyBooked
<1> QED
  BY <1>1, ToldAlways, PTL

(* However attendance is taken, in one request or in many, a class is completed
   exactly when the last of its seats is marked. *)
THEOREM CompletedWithAttendance == Spec => []CompletedWhenAttendanceTaken
<1>1. Told => CompletedWhenAttendanceTaken
  BY TablesFields DEF Told, StatusesTell, StatusTells, CompletedWhenAttendanceTaken
<1> QED
  BY <1>1, ToldAlways, PTL

-----------------------------------------------------------------------------
(* The roster of a record of tables.  A roster holds students and the tables
   hold bookings.  The two agree because a student never has two active bookings
   for one class, which is what one class a day comes to within a class (Safe),
   and because a class with somebody booked into it is scheduled (Told). *)

SeatsOf(db, s) == {db.bookings[b].student : b \in ActiveBookingsOf(db.bookings, s)}

RosterOf(db) ==
  [s \in DOMAIN db.sessions |->
     [seats |-> SeatsOf(db, s),
      capacity |-> db.sessions[s].capacity,
      phase |-> db.sessions[s].status]]

(* ClassRoster counts as Bookings does. *)
LEMMA SameCardinality == \A S : Roster!Cardinality(S) = Cardinality(S)
BY DEF Roster!Cardinality, Cardinality

(* A set of bookings has at least as many members as it has students. *)
LEMMA FewerStudentsThanBookings ==
  ASSUME NEW db, WellTyped(db), NEW s
  PROVE  /\ IsFiniteSet(SeatsOf(db, s)) /\ Cardinality(SeatsOf(db, s)) \in Nat
         /\ Cardinality(SeatsOf(db, s)) <= Cardinality(ActiveBookingsOf(db.bookings, s))
<1> DEFINE active == ActiveBookingsOf(db.bookings, s)
           studentOf == [b \in active |-> db.bookings[b].student]
<1>1. IsFiniteSet(active)
  BY ActiveBookingsFinite
<1>2. /\ studentOf \in [active -> SeatsOf(db, s)]
      /\ \A st \in SeatsOf(db, s) : \E b \in active : studentOf[b] = st
  BY DEF SeatsOf
<1> HIDE DEF active, studentOf
<1>3. studentOf \in Surjection(active, SeatsOf(db, s))
  BY <1>2 DEF Surjection
<1>4. /\ IsFiniteSet(SeatsOf(db, s))
      /\ Cardinality(SeatsOf(db, s)) <= Cardinality(active)
  BY <1>1, <1>3, FS_Surjection
<1> QED
  BY <1>4, FS_CardinalityType DEF active

(* The booking of a student for a class that is on is the student's only one:
   two would be two active classes on one day. *)
LEMMA OneBookingPerSeat ==
  ASSUME NEW db, SafeIn(db), NEW s \in DOMAIN db.sessions, db.sessions[s].status # "CANCELLED",
         NEW b1 \in ActiveBookingsOf(db.bookings, s), NEW b2 \in ActiveBookingsOf(db.bookings, s),
         db.bookings[b1].student = db.bookings[b2].student
  PROVE  b1 = b2
<1> DEFINE st == db.bookings[b1].student
<1>1. st \in StudentIds
  BY DEF SafeIn, WellTyped, ActiveBookingsOf, Booking
<1>2. /\ {b1, b2} \subseteq ActiveClassesOf(db.bookings, db.sessions, st)
      /\ db.bookings[b1].session = s /\ db.bookings[b2].session = s
  BY DEF ActiveBookingsOf, ActiveClassesOf
<1> QED
  BY <1>1, <1>2 DEF SafeIn, OneClassPerDayIn

-----------------------------------------------------------------------------
(* What each operator does to the roster. *)

(* A booking takes a free seat. *)
LEMMA AddBookingSeats ==
  ASSUME NEW db, SafeIn(db), NEW st \in StudentIds, NEW s \in DOMAIN db.sessions, NEW event,
         db.sessions[s].status = "SCHEDULED", HasNewKey(BookingIds, db.bookings),
         NoActiveClassOnDay(db, st, db.sessions[s].startsAt), CapacityAvailable(db, s)
  PROVE  /\ Roster!HasSeatFor(RosterOf(db), st, s)
         /\ RosterOf(AddBooking(db, st, s, event)) = Roster!Seat(RosterOf(db), st, s)
<1> DEFINE b == NewKey(BookingIds, db.bookings)
           new == AddBooking(db, st, s, event)
<1>1. b \notin DOMAIN db.bookings /\ WellTyped(db)
  BY NewKeyIsNew DEF SafeIn
<1>2. /\ new.sessions = db.sessions
      /\ DOMAIN new.bookings = DOMAIN db.bookings \cup {b}
      /\ new.bookings[b].student = st /\ new.bookings[b].session = s
      /\ new.bookings[b].status = "BOOKED"
      /\ \A x \in DOMAIN db.bookings : new.bookings[x] = db.bookings[x]
  BY <1>1 DEF AddBooking, WellTyped, IsTables, Insert
<1> HIDE DEF b, new
<1>3. Roster!HasSeatFor(RosterOf(db), st, s)
  <2>1. st \notin SeatsOf(db, s)
    <3> SUFFICES ASSUME NEW x \in ActiveBookingsOf(db.bookings, s), db.bookings[x].student = st
                 PROVE  FALSE
      BY DEF SeatsOf
    <3>1. x \in ActiveClassesOf(db.bookings, db.sessions, st) /\ db.bookings[x].session = s
      BY DEF ActiveBookingsOf, ActiveClassesOf
    <3> QED
      BY <3>1 DEF NoActiveClassOnDay
  <2>2. Cardinality(SeatsOf(db, s)) < db.sessions[s].capacity
    BY <1>1, FewerStudentsThanBookings, ActiveBookingsFinite, CapacityIsNat DEF CapacityAvailable
  <2> QED
    BY <2>1, <2>2, SameCardinality DEF Roster!HasSeatFor, RosterOf
<1>4. SeatsOf(new, s) = SeatsOf(db, s) \cup {st}
  <2>1. ActiveBookingsOf(new.bookings, s) = ActiveBookingsOf(db.bookings, s) \cup {b}
    BY <1>2 DEF ActiveBookingsOf
  <2>2. \A x \in ActiveBookingsOf(db.bookings, s) : new.bookings[x] = db.bookings[x]
    BY <1>2 DEF ActiveBookingsOf
  <2> QED
    BY <1>2, <2>1, <2>2 DEF SeatsOf
<1>5. \A x \in DOMAIN db.sessions : x # s => SeatsOf(new, x) = SeatsOf(db, x)
  <2> SUFFICES ASSUME NEW x \in DOMAIN db.sessions, x # s
               PROVE  SeatsOf(new, x) = SeatsOf(db, x)
    OBVIOUS
  <2>1. ActiveBookingsOf(new.bookings, x) = ActiveBookingsOf(db.bookings, x)
    BY <1>2 DEF ActiveBookingsOf
  <2>2. \A y \in ActiveBookingsOf(db.bookings, x) : new.bookings[y] = db.bookings[y]
    BY <1>2 DEF ActiveBookingsOf
  <2> QED
    BY <2>1, <2>2 DEF SeatsOf
<1>6. RosterOf(new) = Roster!Seat(RosterOf(db), st, s)
  BY <1>2, <1>4, <1>5 DEF RosterOf, Roster!Seat
<1> QED
  BY <1>3, <1>6 DEF new

(* A claimed slot becomes a class that is opened for its student. *)
LEMMA AddOneOnOneBookingSeats ==
  ASSUME NEW db, SafeIn(db), NEW st \in StudentIds, NEW slot \in SlotIds, NEW event,
         CanCreateOneOnOneBooking(db, st, slot)
  PROVE  LET s == NewKey(SessionIds, db.sessions) IN
           /\ s \in SessionIds \ DOMAIN db.sessions
           /\ RosterOf(AddOneOnOneBooking(db, st, slot, event))
                = Roster!OpenFor(RosterOf(db), st, s)
<1> DEFINE s == NewKey(SessionIds, db.sessions)
           claimed == ClaimSlot(db, slot)
           b == NewKey(BookingIds, claimed.bookings)
           new == AddBooking(claimed, st, s, event)
<1>1. /\ HasNewKey(BookingIds, db.bookings) /\ HasNewKey(SessionIds, db.sessions)
      /\ WellTyped(db)
  BY DEF CanCreateOneOnOneBooking, SafeIn
<1>2. /\ WellTyped(claimed)
      /\ claimed.bookings = db.bookings
      /\ DOMAIN claimed.sessions = DOMAIN db.sessions \cup {s} /\ s \notin DOMAIN db.sessions
      /\ \A x \in DOMAIN db.sessions : claimed.sessions[x] = db.sessions[x]
      /\ claimed.sessions[s].capacity = 1
  BY <1>1, ClaimSlotTyped, ClaimSlotKeepsClasses
<1>3. s \in SessionIds
  BY <1>1, NewKeyIsNew
<1>4. claimed.sessions[s].status = "SCHEDULED"
  BY <1>1 DEF ClaimSlot, WellTyped, IsTables, Insert
<1>5. b \notin DOMAIN db.bookings
  BY <1>1, <1>2, NewKeyIsNew
<1> HIDE DEF s, claimed, b
<1>6. /\ new.sessions = claimed.sessions
      /\ DOMAIN new.bookings = DOMAIN db.bookings \cup {b}
      /\ new.bookings[b].student = st /\ new.bookings[b].session = s
      /\ new.bookings[b].status = "BOOKED"
      /\ \A x \in DOMAIN db.bookings : new.bookings[x] = db.bookings[x]
  BY <1>2, <1>5 DEF AddBooking, WellTyped, IsTables, Insert, b
<1> HIDE DEF new
<1>7. SeatsOf(new, s) = {st}
  <2>1. ActiveBookingsOf(new.bookings, s) = {b}
    BY <1>1, <1>2, <1>6 DEF ActiveBookingsOf, WellTyped
  <2> QED
    BY <1>6, <2>1 DEF SeatsOf
<1>8. ASSUME NEW x \in DOMAIN db.sessions
      PROVE  SeatsOf(new, x) = SeatsOf(db, x)
  <2>1. ActiveBookingsOf(new.bookings, x) = ActiveBookingsOf(db.bookings, x)
    BY <1>2, <1>6 DEF ActiveBookingsOf
  <2>2. \A y \in ActiveBookingsOf(db.bookings, x) : new.bookings[y] = db.bookings[y]
    BY <1>6 DEF ActiveBookingsOf
  <2> QED
    BY <2>1, <2>2 DEF SeatsOf
<1>9. RosterOf(new) = Roster!OpenFor(RosterOf(db), st, s)
  BY <1>2, <1>4, <1>6, <1>7, <1>8 DEF RosterOf, Roster!OpenFor
<1> QED
  BY <1>2, <1>3, <1>9 DEF AddOneOnOneBooking, new, claimed, s

(* A cancellation gives up the student's seat, and may call the class off. *)
LEMMA CancelExistingBookingUnseats ==
  ASSUME NEW db, ToldIn(db), NEW b \in DOMAIN db.bookings,
         db.bookings[b].status = "BOOKED", NEW type \in CancellationEvents
  PROVE  LET s == db.bookings[b].session
             st == db.bookings[b].student
             phase == IF ClosesClass(db, b) THEN "CANCELLED" ELSE "SCHEDULED"
         IN /\ Roster!HasStudent(RosterOf(db), st, s)
            /\ RosterOf(CancelExistingBooking(db, b, type))
                 = Roster!Unseat(RosterOf(db), st, s, phase)
<1> DEFINE s == db.bookings[b].session
           st == db.bookings[b].student
           phase == IF ClosesClass(db, b) THEN "CANCELLED" ELSE "SCHEDULED"
           new == CancelExistingBooking(db, b, type)
<1>1. /\ SafeIn(db) /\ WellTyped(db)
      /\ s \in DOMAIN db.sessions /\ db.sessions[s] \in Session
  BY DEF ToldIn, SafeIn, WellTyped
<1>2. /\ DOMAIN new.bookings = DOMAIN db.bookings
      /\ new.bookings[b].session = s /\ new.bookings[b].status = "CANCELLED"
      /\ \A x \in DOMAIN db.bookings : x # b => new.bookings[x] = db.bookings[x]
  <2>1. new.bookings = [db.bookings EXCEPT ![b].status = "CANCELLED"]
    BY DEF CancelExistingBooking
  <2>2. /\ [db.bookings[b] EXCEPT !.status = "CANCELLED"].session = db.bookings[b].session
        /\ [db.bookings[b] EXCEPT !.status = "CANCELLED"].status = "CANCELLED"
    BY <1>1, BookingStatusWritten DEF WellTyped, BookingStatuses
  <2> QED
    BY <1>1, <2>1, <2>2 DEF WellTyped
<1>3. db.sessions[s].status = "SCHEDULED"
  <2>1. b \in BookedBookingsOf(db.bookings, s)
    BY DEF BookedBookingsOf
  <2>2. StatusTells(db.bookings, s, db.sessions[s].status)
    BY <1>1 DEF ToldIn, StatusesTell
  <2>3. db.sessions[s].status \in SessionStatuses
    BY <1>1 DEF Session, OneOnOneSession, BatchSession
  <2> QED
    BY <2>1, <2>2, <2>3 DEF StatusTells, SessionStatuses
<1>4. /\ DOMAIN new.sessions = DOMAIN db.sessions
      /\ \A x \in DOMAIN db.sessions : x # s => new.sessions[x] = db.sessions[x]
      /\ new.sessions[s].status = phase
      /\ new.sessions[s].capacity = db.sessions[s].capacity
  <2>1. new.sessions = IF ClosesClass(db, b)
                       THEN [db.sessions EXCEPT ![s].status = "CANCELLED"] ELSE db.sessions
    BY DEF CancelExistingBooking
  <2>2. /\ [db.sessions[s] EXCEPT !.status = "CANCELLED"].status = "CANCELLED"
        /\ [db.sessions[s] EXCEPT !.status = "CANCELLED"].capacity = db.sessions[s].capacity
    BY <1>1, SessionStatusWritten DEF SessionStatuses
  <2> QED
    BY <1>1, <1>3, <2>1, <2>2 DEF WellTyped
<1>5. b \in ActiveBookingsOf(db.bookings, s)
  BY DEF ActiveBookingsOf
<1>6. \A x \in ActiveBookingsOf(db.bookings, s) : db.bookings[x].student = st => x = b
  BY <1>1, <1>3, <1>5, OneBookingPerSeat
<1> HIDE DEF s, st, phase, new
<1>7. Roster!HasStudent(RosterOf(db), st, s)
  <2>1. st \in SeatsOf(db, s)
    BY <1>5 DEF SeatsOf, st
  <2> QED
    BY <1>1, <1>3, <2>1 DEF Roster!HasStudent, RosterOf
<1>8. SeatsOf(new, s) = SeatsOf(db, s) \ {st}
  <2>1. ActiveBookingsOf(new.bookings, s) = ActiveBookingsOf(db.bookings, s) \ {b}
    BY <1>2 DEF ActiveBookingsOf
  <2>2. \A x \in ActiveBookingsOf(db.bookings, s) \ {b} : new.bookings[x] = db.bookings[x]
    BY <1>2 DEF ActiveBookingsOf
  <2>3. \A x \in ActiveBookingsOf(db.bookings, s) : db.bookings[x].student = st <=> x = b
    BY <1>6 DEF st
  <2> QED
    BY <2>1, <2>2, <2>3 DEF SeatsOf
<1>9. ASSUME NEW x \in DOMAIN db.sessions, x # s
      PROVE  SeatsOf(new, x) = SeatsOf(db, x)
  <2>1. ActiveBookingsOf(new.bookings, x) = ActiveBookingsOf(db.bookings, x)
    BY <1>2, <1>9 DEF ActiveBookingsOf, s
  <2>2. \A y \in ActiveBookingsOf(db.bookings, x) : new.bookings[y] = db.bookings[y]
    BY <1>2, <1>9 DEF ActiveBookingsOf, s
  <2> QED
    BY <2>1, <2>2 DEF SeatsOf
<1>10. RosterOf(new) = Roster!Unseat(RosterOf(db), st, s, phase)
  BY <1>1, <1>4, <1>8, <1>9 DEF RosterOf, Roster!Unseat
<1> QED
  BY <1>7, <1>10 DEF s, st, phase, new

(* Attendance leaves everybody in the seats and completes the class whose last
   seat it marks; a correction in a class that is over changes nothing here. *)
LEMMA AttendanceTakenCompletes ==
  ASSUME NEW db, ToldIn(db), NEW s \in DOMAIN db.sessions,
         NEW marks, DOMAIN marks \subseteq DOMAIN db.bookings, DOMAIN marks # {},
         \A b \in DOMAIN marks :
           /\ marks[b] \in AttendanceStatuses /\ db.bookings[b].status # "CANCELLED"
           /\ db.bookings[b].session = s,
         db.sessions[s].status # "CANCELLED"
  PROVE  \/ RosterOf(AttendanceTaken(db, s, marks)) = RosterOf(db)
         \/ /\ RosterOf(db)[s].phase = "SCHEDULED" /\ RosterOf(db)[s].seats # {}
            /\ RosterOf(AttendanceTaken(db, s, marks))
                 = [RosterOf(db) EXCEPT ![s].phase = "COMPLETED"]
<1> DEFINE marked == MarkBookings(db, marks)
           new == AttendanceTaken(db, s, marks)
<1>1. /\ WellTyped(db) /\ WellTyped(marked) /\ marked.sessions = db.sessions
      /\ db.sessions[s] \in Session
  BY MarkBookingsTyped DEF ToldIn, SafeIn, WellTyped
<1>2. marked.bookings = [b \in DOMAIN db.bookings |->
         IF b \in DOMAIN marks
         THEN [db.bookings[b] EXCEPT !.status = marks[b]] ELSE db.bookings[b]]
  BY <1>1 DEF MarkBookings, WellTyped, IsTables
<1>3. /\ new.bookings = marked.bookings
      /\ new.sessions = IF CompletesClass(marked, s)
                        THEN [db.sessions EXCEPT ![s].status = "COMPLETED"] ELSE db.sessions
  BY <1>1 DEF AttendanceTaken, CompleteClassSessionIfAttendanceMarked, WellTyped, IsTables
<1> HIDE DEF marked, new
<1>4. /\ DOMAIN marked.bookings = DOMAIN db.bookings
      /\ \A b \in DOMAIN db.bookings :
           /\ marked.bookings[b].student = db.bookings[b].student
           /\ marked.bookings[b].session = db.bookings[b].session
           /\ marked.bookings[b].status = "CANCELLED" <=> db.bookings[b].status = "CANCELLED"
  <2>1. ASSUME NEW b \in DOMAIN marks
        PROVE  LET row == [db.bookings[b] EXCEPT !.status = marks[b]] IN
                 /\ row.student = db.bookings[b].student
                 /\ row.session = db.bookings[b].session
                 /\ row.status # "CANCELLED"
    <3>1. db.bookings[b] \in Booking
      BY <1>1 DEF WellTyped
    <3>2. marks[b] \in BookingStatuses /\ marks[b] # "CANCELLED"
      BY DEF BookingStatuses, AttendanceStatuses
    <3> QED
      BY <3>1, <3>2, BookingStatusWritten
  <2> QED
    BY <1>2, <2>1
<1>5. \A x : SeatsOf(new, x) = SeatsOf(db, x)
  <2>1. \A x : ActiveBookingsOf(new.bookings, x) = ActiveBookingsOf(db.bookings, x)
    BY <1>3, <1>4 DEF ActiveBookingsOf
  <2>2. \A x : \A b \in ActiveBookingsOf(db.bookings, x) :
          new.bookings[b].student = db.bookings[b].student
    BY <1>3, <1>4 DEF ActiveBookingsOf
  <2> QED
    BY <2>1, <2>2 DEF SeatsOf
<1>6. SeatsOf(db, s) # {}
  <2>1. PICK b \in DOMAIN marks : TRUE
    OBVIOUS
  <2>2. b \in ActiveBookingsOf(db.bookings, s)
    BY <2>1 DEF ActiveBookingsOf
  <2> QED
    BY <2>2 DEF SeatsOf
<1>7. /\ [db.sessions[s] EXCEPT !.status = "COMPLETED"].status = "COMPLETED"
      /\ [db.sessions[s] EXCEPT !.status = "COMPLETED"].capacity = db.sessions[s].capacity
  BY <1>1, SessionStatusWritten DEF SessionStatuses
<1>8. CASE new.sessions = db.sessions
  BY <1>5, <1>8 DEF RosterOf, new
<1>9. CASE db.sessions[s].status = "SCHEDULED"
           /\ new.sessions = [db.sessions EXCEPT ![s].status = "COMPLETED"]
  <2>1. /\ DOMAIN new.sessions = DOMAIN db.sessions
        /\ new.sessions[s].status = "COMPLETED"
        /\ new.sessions[s].capacity = db.sessions[s].capacity
        /\ \A x \in DOMAIN db.sessions : x # s => new.sessions[x] = db.sessions[x]
    BY <1>1, <1>7, <1>9 DEF WellTyped
  <2>2. RosterOf(new) = [RosterOf(db) EXCEPT ![s].phase = "COMPLETED"]
    BY <1>5, <2>1 DEF RosterOf
  <2> QED
    BY <1>6, <1>9, <2>2 DEF RosterOf, new
<1>10. CASE db.sessions[s].status = "COMPLETED"
            /\ new.sessions = [db.sessions EXCEPT ![s].status = "COMPLETED"]
  <2>1. /\ DOMAIN new.sessions = DOMAIN db.sessions
        /\ \A x \in DOMAIN db.sessions :
             /\ new.sessions[x].status = db.sessions[x].status
             /\ new.sessions[x].capacity = db.sessions[x].capacity
    BY <1>1, <1>7, <1>10 DEF WellTyped
  <2> QED
    BY <1>5, <2>1 DEF RosterOf, new
<1>11. db.sessions[s].status \in {"SCHEDULED", "COMPLETED"}
  BY <1>1 DEF Session, OneOnOneSession, BatchSession, SessionStatuses
<1> QED
  BY <1>3, <1>8, <1>9, <1>10, <1>11

-----------------------------------------------------------------------------
(* The refinement. *)

(* The roster Bookings is seen as is the one of its tables. *)
RosterView ==
  [s \in DOMAIN sessions |->
     [seats |-> {bookings[b].student : b \in ActiveBookingsOf(bookings, s)},
      capacity |-> sessions[s].capacity,
      phase |-> sessions[s].status]]

LEMMA ViewOfTables == RosterView = RosterOf(Tables)
BY TablesFields DEF RosterView, RosterOf, SeatsOf

(* A roster has the type ClassRoster gives it. *)
LEMMA RosterTyped == Typed => Roster!RosterTypeOK
<1> SUFFICES ASSUME Typed PROVE Roster!RosterTypeOK
  OBVIOUS
<1>1. ASSUME NEW s \in DOMAIN sessions
      PROVE  /\ {bookings[b].student : b \in ActiveBookingsOf(bookings, s)} \subseteq StudentIds
             /\ sessions[s].capacity \in Nat \ {0}
             /\ sessions[s].status \in SessionStatuses
  <2>1. sessions[s] \in Session /\ \A b \in DOMAIN bookings : bookings[b] \in Booking
    BY DEF Typed, TypeOK
  <2> QED
    BY <2>1 DEF Session, OneOnOneSession, BatchSession, Booking, ActiveBookingsOf
<1>2. DOMAIN sessions \subseteq SessionIds
  BY DEF Typed, TypeOK
<1> QED
  BY <1>1, <1>2 DEF Roster!RosterTypeOK, Roster!Phases, SessionStatuses

LEMMA InitRoster == Init => Roster!RosterInit
<1> SUFFICES ASSUME Init PROVE Roster!RosterInit
  OBVIOUS
<1>1. Roster!RosterTypeOK
  BY InitTyped, RosterTyped
<1>2. DOMAIN bookings = {} /\ \A s \in DOMAIN sessions : sessions[s].status = "SCHEDULED"
  BY InitialTablesAssumption DEF Init, EmptyTable
<1> QED
  BY <1>1, <1>2 DEF Roster!RosterInit, ActiveBookingsOf

(* The steps of ClassRoster, of the rosters of two records of tables. *)
RosterStep(old, new) ==
  \/ new = old
  \/ \E st \in StudentIds, c \in DOMAIN old :
       Roster!HasSeatFor(old, st, c) /\ new = Roster!Seat(old, st, c)
  \/ \E st \in StudentIds, c \in SessionIds \ DOMAIN old : new = Roster!OpenFor(old, st, c)
  \/ \E st \in StudentIds, c \in DOMAIN old, phase \in {"SCHEDULED", "CANCELLED"} :
       LET left == Roster!Unseat(old, st, c, phase) IN
         /\ Roster!HasStudent(old, st, c)
         /\ \/ new = left
            \/ \E d \in DOMAIN old : Roster!HasSeatFor(left, st, d) /\ new = Roster!Seat(left, st, d)
            \/ \E d \in SessionIds \ DOMAIN old : new = Roster!OpenFor(left, st, d)
  \/ \E c \in DOMAIN old :
       /\ old[c].phase = "SCHEDULED" /\ old[c].seats # {}
       /\ new = [old EXCEPT ![c].phase = "COMPLETED"]

LEMMA StepOfRoster ==
  ASSUME RosterStep(RosterView, RosterView')
  PROVE  [Roster!RosterNext]_RosterView
<1> DEFINE next == Roster!RosterNext
<1>1. CASE RosterView' = RosterView
  BY <1>1
<1>2. ASSUME NEW st \in StudentIds, NEW c \in DOMAIN RosterView,
             Roster!HasSeatFor(RosterView, st, c), RosterView' = Roster!Seat(RosterView, st, c)
      PROVE  next
  <2>1. Roster!Join(st, c)
    BY <1>2 DEF Roster!Join, RosterView
  <2> QED
    BY <2>1 DEF Roster!RosterNext, RosterView
<1>3. ASSUME NEW st \in StudentIds, NEW c \in SessionIds \ DOMAIN RosterView,
             RosterView' = Roster!OpenFor(RosterView, st, c)
      PROVE  next
  <2>1. Roster!JoinNew(st, c)
    BY <1>3 DEF Roster!JoinNew, RosterView
  <2> QED
    BY <2>1 DEF Roster!RosterNext
<1>4. ASSUME NEW st \in StudentIds, NEW c \in DOMAIN RosterView,
             NEW phase \in {"SCHEDULED", "CANCELLED"},
             Roster!HasStudent(RosterView, st, c),
             RosterView' = Roster!Unseat(RosterView, st, c, phase)
      PROVE  next
  <2>1. Roster!Leave(st, c, phase)
    BY <1>4 DEF Roster!Leave, RosterView
  <2> QED
    BY <2>1 DEF Roster!RosterNext, RosterView
<1>5. ASSUME NEW st \in StudentIds, NEW c \in DOMAIN RosterView,
             NEW phase \in {"SCHEDULED", "CANCELLED"}, NEW d \in DOMAIN RosterView,
             Roster!HasStudent(RosterView, st, c),
             Roster!HasSeatFor(Roster!Unseat(RosterView, st, c, phase), st, d),
             RosterView' = Roster!Seat(Roster!Unseat(RosterView, st, c, phase), st, d)
      PROVE  next
  <2>1. Roster!Move(st, c, phase, d)
    BY <1>5 DEF Roster!Move, RosterView
  <2> QED
    BY <2>1 DEF Roster!RosterNext, RosterView
<1>6. ASSUME NEW st \in StudentIds, NEW c \in DOMAIN RosterView,
             NEW phase \in {"SCHEDULED", "CANCELLED"}, NEW d \in SessionIds \ DOMAIN RosterView,
             Roster!HasStudent(RosterView, st, c),
             RosterView' = Roster!OpenFor(Roster!Unseat(RosterView, st, c, phase), st, d)
      PROVE  next
  <2>1. Roster!MoveNew(st, c, phase, d)
    BY <1>6 DEF Roster!MoveNew, RosterView
  <2> QED
    BY <2>1 DEF Roster!RosterNext, RosterView
<1>7. ASSUME NEW c \in DOMAIN RosterView,
             RosterView[c].phase = "SCHEDULED", RosterView[c].seats # {},
             RosterView' = [RosterView EXCEPT ![c].phase = "COMPLETED"]
      PROVE  next
  <2>1. Roster!Complete(c)
    BY <1>7 DEF Roster!Complete, RosterView
  <2> QED
    BY <2>1 DEF Roster!RosterNext, RosterView
<1> QED
  BY <1>1, <1>2, <1>3, <1>4, <1>5, <1>6, <1>7 DEF RosterStep

(* A request commits the tables whose roster is seen afterwards. *)
LEMMA ViewCommitted ==
  ASSUME NEW db, Commit(db)
  PROVE  RosterView' = RosterOf(db)
BY DEF Commit, RosterView, RosterOf, SeatsOf

LEMMA NextRosterStep ==
  ASSUME Told, [Next]_vars
  PROVE  RosterStep(RosterView, RosterView')
<1>0. /\ Safe /\ ToldIn(Tables) /\ SafeIn(Tables) /\ WellTyped(Tables)
      /\ Tables.bookings = bookings /\ Tables.sessions = sessions
      /\ DOMAIN bookings \subseteq BookingIds
      /\ \A b \in DOMAIN bookings :
           bookings[b].student \in StudentIds /\ bookings[b].session \in DOMAIN sessions
      /\ RosterView = RosterOf(Tables) /\ DOMAIN RosterView = DOMAIN sessions
  BY TablesFields, ViewOfTables
     DEF Told, ToldIn, Safe, SafeIn, Typed, TypeOK, WellTyped, Booking, RosterView
<1>1. ASSUME NEW st \in StudentIds, NEW s \in DOMAIN sessions, CreateBatchBooking(st, s)
      PROVE  RosterStep(RosterView, RosterView')
  BY <1>0, <1>1, AddBookingSeats, ViewCommitted
     DEF CreateBatchBooking, CanCreateBatchBooking, RosterStep
<1>2. ASSUME NEW st \in StudentIds, NEW s \in DOMAIN sessions, AdminAddStudentToClass(st, s)
      PROVE  RosterStep(RosterView, RosterView')
  BY <1>0, <1>2, AddBookingSeats, ViewCommitted DEF AdminAddStudentToClass, RosterStep
<1>3. ASSUME NEW st \in StudentIds, NEW slot \in SlotIds, CreateOneOnOneBooking(st, slot)
      PROVE  RosterStep(RosterView, RosterView')
  BY <1>0, <1>3, AddOneOnOneBookingSeats, ViewCommitted DEF CreateOneOnOneBooking, RosterStep
<1>4. ASSUME NEW b \in DOMAIN bookings, NEW type \in CancellationEvents,
             bookings[b].status = "BOOKED"
      PROVE  LET st == bookings[b].student
                 s == bookings[b].session
                 db == CancelExistingBooking(Tables, b, type)
             IN \E phase \in {"SCHEDULED", "CANCELLED"} :
                  /\ Roster!HasStudent(RosterView, st, s)
                  /\ RosterOf(db) = Roster!Unseat(RosterView, st, s, phase)
  BY <1>0, <1>4, CancelExistingBookingUnseats
<1>5. ASSUME NEW b \in DOMAIN bookings, CancelBooking(b) \/ AdminCancelBooking(b)
      PROVE  RosterStep(RosterView, RosterView')
  <2>1. PICK type \in CancellationEvents :
          Commit(CancelExistingBooking(Tables, b, type)) /\ bookings[b].status = "BOOKED"
    BY <1>5 DEF CancelBooking, AdminCancelBooking, CanCancel, CancellationEvents
  <2>2. RosterView' = RosterOf(CancelExistingBooking(Tables, b, type))
    BY <2>1, ViewCommitted
  <2> QED
    BY <1>0, <1>4, <2>1, <2>2 DEF RosterStep
<1>6. ASSUME NEW b \in DOMAIN bookings, NEW s \in DOMAIN sessions, NEW cutoff \in BOOLEAN,
             RescheduleBatchBooking(b, s, cutoff)
      PROVE  RosterStep(RosterView, RosterView')
  <2> DEFINE st == bookings[b].student
             c == bookings[b].session
             db == CancelExistingBooking(Tables, b, "RESCHEDULED_FROM")
             new == AddBooking(db, st, s, RescheduledTo(b))
  <2>1. bookings[b].status = "BOOKED" /\ CanCreateBatchBooking(db, st, s) /\ Commit(new)
    BY <1>6 DEF RescheduleBatchBooking, CanCancel
  <2>2. SafeIn(db) /\ DOMAIN db.sessions = DOMAIN sessions
    BY <1>0, CancelExistingBookingSafe DEF CancellationEvents
  <2>3. PICK phase \in {"SCHEDULED", "CANCELLED"} :
          /\ Roster!HasStudent(RosterView, st, c)
          /\ RosterOf(db) = Roster!Unseat(RosterView, st, c, phase)
    BY <1>4, <2>1 DEF CancellationEvents
  <2> HIDE DEF db
  <2>4. /\ Roster!HasSeatFor(RosterOf(db), st, s)
        /\ RosterOf(new) = Roster!Seat(RosterOf(db), st, s)
    BY <1>0, <2>1, <2>2, AddBookingSeats DEF CanCreateBatchBooking
  <2>5. RosterView' = RosterOf(new)
    BY <2>1, ViewCommitted
  <2> HIDE DEF new, st, c
  <2>6. st \in StudentIds /\ c \in DOMAIN RosterView /\ s \in DOMAIN RosterView
    BY <1>0 DEF st, c
  <2> QED
    BY <2>3, <2>4, <2>5, <2>6 DEF RosterStep
<1>7. ASSUME NEW b \in DOMAIN bookings, NEW slot \in SlotIds, NEW cutoff \in BOOLEAN,
             RescheduleOneOnOneBooking(b, slot, cutoff)
      PROVE  RosterStep(RosterView, RosterView')
  <2> DEFINE st == bookings[b].student
             c == bookings[b].session
             db == CancelExistingBooking(Tables, b, "RESCHEDULED_FROM")
             d == NewKey(SessionIds, db.sessions)
             new == AddOneOnOneBooking(db, st, slot, RescheduledTo(b))
  <2>1. bookings[b].status = "BOOKED" /\ CanCreateOneOnOneBooking(db, st, slot) /\ Commit(new)
    BY <1>7 DEF RescheduleOneOnOneBooking, CanCancel
  <2>2. SafeIn(db) /\ DOMAIN db.sessions = DOMAIN sessions
    BY <1>0, CancelExistingBookingSafe DEF CancellationEvents
  <2>3. PICK phase \in {"SCHEDULED", "CANCELLED"} :
          /\ Roster!HasStudent(RosterView, st, c)
          /\ RosterOf(db) = Roster!Unseat(RosterView, st, c, phase)
    BY <1>4, <2>1 DEF CancellationEvents
  <2> HIDE DEF db
  <2>4. /\ d \in SessionIds \ DOMAIN db.sessions
        /\ RosterOf(new) = Roster!OpenFor(RosterOf(db), st, d)
    BY <1>0, <2>1, <2>2, AddOneOnOneBookingSeats
  <2>5. RosterView' = RosterOf(new)
    BY <2>1, ViewCommitted
  <2> HIDE DEF new, st, c, d
  <2>6. st \in StudentIds /\ c \in DOMAIN RosterView /\ d \in SessionIds \ DOMAIN RosterView
    BY <1>0, <2>2, <2>4 DEF st, c
  <2> QED
    BY <2>3, <2>4, <2>5, <2>6 DEF RosterStep
<1>8. ASSUME NEW s \in DOMAIN sessions, NEW marks, DOMAIN marks \subseteq DOMAIN bookings,
             DOMAIN marks # {},
             \A b \in DOMAIN marks :
               marks[b] \in AttendanceStatuses /\ bookings[b].session = s,
             MarkAttendance(s, marks)
      PROVE  RosterStep(RosterView, RosterView')
  <2>1. \A b \in DOMAIN marks : /\ bookings[b].status # "CANCELLED"
                                /\ sessions[s].status # "CANCELLED"
    BY <1>8 DEF MarkAttendance, CanMarkAttendance
  <2>2. RosterView' = RosterOf(AttendanceTaken(Tables, s, marks))
    BY <1>8, ViewCommitted DEF MarkAttendance, AttendanceTaken
  <2> QED
    BY <1>0, <1>8, <2>1, <2>2, AttendanceTakenCompletes DEF RosterStep
<1>9. ASSUME NEW b \in DOMAIN bookings, NEW status \in AttendanceStatuses,
             MarkBookingAttendance(b, status)
      PROVE  RosterStep(RosterView, RosterView')
  <2> DEFINE marks == [x \in {b} |-> status]
  <2>1. /\ DOMAIN marks = {b} /\ marks[b] = status
        /\ MarkAttendance(bookings[b].session, marks)
    BY <1>9 DEF MarkBookingAttendance
  <2> HIDE DEF marks
  <2> QED
    BY <1>0, <1>8, <2>1
<1>10. ASSUME NEW s \in DOMAIN sessions, NEW named \in (SUBSET DOMAIN bookings) \ {{}},
              NEW marks \in [named -> AttendanceStatuses], MarkClassAttendance(s, marks)
       PROVE  RosterStep(RosterView, RosterView')
  BY <1>8, <1>10 DEF MarkClassAttendance
<1>11. CASE Tick \/ UNCHANGED vars
  <2>1. RosterView' = RosterView
    BY <1>11 DEF Tick, vars, RosterView
  <2> QED
    BY <2>1 DEF RosterStep
<1> QED
  BY <1>1, <1>2, <1>3, <1>5, <1>6, <1>7, <1>9, <1>10, <1>11 DEF Next

(* Whatever requests are served, the classes fill, empty and end as ClassRoster
   says: a student who moves is never in both classes and never in neither, no
   class takes more than it holds, and one that is over keeps its students. *)
THEOREM RosterPromiseKept == Spec => ImplementsRoster
<1>1. Told /\ [Next]_vars => [Roster!RosterNext]_RosterView
  BY NextRosterStep, StepOfRoster
<1> QED
  BY <1>1, InitRoster, ToldAlways, PTL DEF Spec, ImplementsRoster, Roster!RosterSpec, RosterView

-----------------------------------------------------------------------------
(* Slots and the classes that hold them: the inductive invariant. *)

IsLive(ses, s) == ses[s].program = "ONE_ON_ONE" /\ ses[s].status # "CANCELLED"

(* Slots and live classes are tied to each other in both directions. *)
ClassesHold(db) ==
  \A s \in DOMAIN db.sessions :
    IsLive(db.sessions, s) =>
      LET slot == db.sessions[s].slot IN
        /\ db.slots[slot].status = "BOOKED"
        /\ db.slots[slot].startsAt = db.sessions[s].startsAt
        /\ LiveSessionsOf(db.sessions, slot) = {s}
        /\ ActiveBookingsOf(db.bookings, s) # {}

SlotsHeld(db) ==
  \A slot \in SlotIds :
    db.slots[slot].status = "BOOKED" /\ db.slots[slot].startsAt > now
      => LiveSessionsOf(db.sessions, slot) # {}

HeldIn(db) == ClassesHold(db) /\ SlotsHeld(db)

Held == Told /\ HeldIn(Tables)

(* A class of a slot is a one-on-one class. *)
LEMMA SlotOfClass ==
  ASSUME NEW db, WellTyped(db), NEW s \in DOMAIN db.sessions
  PROVE  /\ db.sessions[s].slot \in SlotIds <=> db.sessions[s].program = "ONE_ON_ONE"
         /\ db.sessions[s].slot \in SlotIds \cup {None}
         /\ \A slot \in SlotIds : s \in LiveSessionsOf(db.sessions, slot)
              <=> IsLive(db.sessions, s) /\ db.sessions[s].slot = slot
<1>1. db.sessions[s] \in OneOnOneSession \cup BatchSession
  BY DEF WellTyped, Session
<1>2. /\ db.sessions[s].slot \in SlotIds <=> db.sessions[s].program = "ONE_ON_ONE"
      /\ db.sessions[s].slot \in SlotIds \cup {None}
  BY <1>1, KeysAssumption DEF OneOnOneSession, BatchSession
<1> QED
  BY <1>2 DEF LiveSessionsOf, IsLive

(* Tables with the same slots, the same live classes and at least their seats
   hold as much. *)
LEMMA SameHolders ==
  ASSUME NEW db, WellTyped(db), HeldIn(db), NEW new,
         new.slots = db.slots,
         DOMAIN new.sessions = DOMAIN db.sessions,
         \A s \in DOMAIN db.sessions :
           /\ new.sessions[s].slot = db.sessions[s].slot
           /\ new.sessions[s].startsAt = db.sessions[s].startsAt
           /\ IsLive(new.sessions, s) <=> IsLive(db.sessions, s)
           /\ db.sessions[s].program = "ONE_ON_ONE" =>
                (new.sessions[s].status = "CANCELLED" <=> db.sessions[s].status = "CANCELLED")
           /\ IsLive(db.sessions, s) /\ ActiveBookingsOf(db.bookings, s) # {}
                => ActiveBookingsOf(new.bookings, s) # {}
  PROVE  HeldIn(new)
<1>1. ASSUME NEW slot \in SlotIds
      PROVE  LiveSessionsOf(new.sessions, slot) = LiveSessionsOf(db.sessions, slot)
  BY SlotOfClass DEF LiveSessionsOf
<1>2. ClassesHold(new)
  BY <1>1, SlotOfClass DEF HeldIn, ClassesHold, IsLive
<1>3. SlotsHeld(new)
  BY <1>1 DEF HeldIn, SlotsHeld
<1> QED
  BY <1>2, <1>3 DEF HeldIn

-----------------------------------------------------------------------------
(* The operators. *)

LEMMA AddBookingHolds ==
  ASSUME NEW db, WellTyped(db), HeldIn(db), NEW st, NEW s, NEW event,
         HasNewKey(BookingIds, db.bookings)
  PROVE  HeldIn(AddBooking(db, st, s, event))
<1> DEFINE b == NewKey(BookingIds, db.bookings)
           new == AddBooking(db, st, s, event)
<1>1. b \notin DOMAIN db.bookings
  BY NewKeyIsNew
<1>2. /\ new.sessions = db.sessions /\ new.slots = db.slots
      /\ DOMAIN new.bookings = DOMAIN db.bookings \cup {b}
      /\ \A x \in DOMAIN db.bookings : new.bookings[x] = db.bookings[x]
  BY <1>1 DEF AddBooking, WellTyped, IsTables, Insert
<1> HIDE DEF b, new
<1>3. \A x : ActiveBookingsOf(db.bookings, x) \subseteq ActiveBookingsOf(new.bookings, x)
  BY <1>2 DEF ActiveBookingsOf
<1>4. HeldIn(new)
  BY <1>2, <1>3, SameHolders
<1> QED
  BY <1>4 DEF new

(* A slot is claimed by one class, and only when no live class has it. *)
LEMMA AddOneOnOneBookingHolds ==
  ASSUME NEW db, WellTyped(db), HeldIn(db),
         NEW st \in StudentIds, NEW slot \in SlotIds, NEW event,
         CanCreateOneOnOneBooking(db, st, slot)
  PROVE  HeldIn(AddOneOnOneBooking(db, st, slot, event))
<1> DEFINE s == NewKey(SessionIds, db.sessions)
           b == NewKey(BookingIds, db.bookings)
           row == [program |-> "ONE_ON_ONE", slot |-> slot, group |-> None,
                   startsAt |-> db.slots[slot].startsAt, status |-> "SCHEDULED",
                   capacity |-> 1]
           new == AddOneOnOneBooking(db, st, slot, event)
<1>1. /\ s \in SessionIds /\ s \notin DOMAIN db.sessions
      /\ b \notin DOMAIN db.bookings
      /\ LiveSessionsOf(db.sessions, slot) = {}
  BY NewKeyIsNew DEF CanCreateOneOnOneBooking
<1>2. /\ new.sessions = Insert(db.sessions, s, row)
      /\ new.slots = [db.slots EXCEPT ![slot].status = "BOOKED"]
      /\ new.bookings = Insert(db.bookings, b, [student |-> st, session |-> s, status |-> "BOOKED"])
  BY DEF AddOneOnOneBooking, AddBooking, ClaimSlot, WellTyped, IsTables
<1>3. /\ DOMAIN new.sessions = DOMAIN db.sessions \cup {s}
      /\ new.sessions[s] = row
      /\ \A x \in DOMAIN db.sessions : new.sessions[x] = db.sessions[x]
      /\ \A x \in DOMAIN db.bookings : x \in DOMAIN new.bookings /\ new.bookings[x] = db.bookings[x]
      /\ b \in DOMAIN new.bookings
      /\ new.bookings[b].session = s /\ new.bookings[b].status = "BOOKED"
  BY <1>1, <1>2 DEF Insert
<1>4. /\ new.slots[slot].status = "BOOKED"
      /\ new.slots[slot].startsAt = db.slots[slot].startsAt
      /\ \A x \in SlotIds : x # slot => new.slots[x] = db.slots[x]
  BY <1>2, SlotStatusWritten DEF WellTyped, SlotStatuses
<1>5. /\ row.slot = slot /\ row.startsAt = db.slots[slot].startsAt
      /\ row.status = "SCHEDULED" /\ row.program = "ONE_ON_ONE"
  OBVIOUS
<1> HIDE DEF s, b, row, new
<1>6. \A x : ActiveBookingsOf(db.bookings, x) \subseteq ActiveBookingsOf(new.bookings, x)
  BY <1>3 DEF ActiveBookingsOf
<1>7. b \in ActiveBookingsOf(new.bookings, s)
  BY <1>3 DEF ActiveBookingsOf
<1>8. LiveSessionsOf(new.sessions, slot) = {s}
  BY <1>1, <1>3, <1>5 DEF LiveSessionsOf
<1>9. \A x \in SlotIds : x # slot =>
        LiveSessionsOf(new.sessions, x) = LiveSessionsOf(db.sessions, x)
  BY <1>3, <1>5 DEF LiveSessionsOf
<1>10. ASSUME NEW x \in DOMAIN new.sessions, IsLive(new.sessions, x)
       PROVE  LET its == new.sessions[x].slot IN
                /\ new.slots[its].status = "BOOKED"
                /\ new.slots[its].startsAt = new.sessions[x].startsAt
                /\ LiveSessionsOf(new.sessions, its) = {x}
                /\ ActiveBookingsOf(new.bookings, x) # {}
  <2>1. CASE x = s
    BY <1>3, <1>4, <1>5, <1>7, <1>8, <2>1
  <2>2. CASE x # s
    <3>1. x \in DOMAIN db.sessions /\ new.sessions[x] = db.sessions[x] /\ IsLive(db.sessions, x)
      BY <1>3, <1>10, <2>2 DEF IsLive
    <3>2. db.sessions[x].slot \in SlotIds /\ db.sessions[x].slot # slot
      BY <1>1, <3>1, SlotOfClass DEF IsLive
    <3> QED
      BY <1>4, <1>6, <1>9, <3>1, <3>2 DEF HeldIn, ClassesHold
  <2> QED
    BY <2>1, <2>2
<1>11. ClassesHold(new)
  BY <1>10 DEF ClassesHold
<1>12. SlotsHeld(new)
  BY <1>4, <1>8, <1>9 DEF HeldIn, SlotsHeld
<1> QED
  BY <1>11, <1>12 DEF HeldIn, new

(* A one-on-one class goes with its booking; its slot, if it is to come, goes
   back on offer. *)
LEMMA CancelExistingBookingHolds ==
  ASSUME NEW db, ToldIn(db), HeldIn(db), NEW b \in DOMAIN db.bookings,
         db.bookings[b].status = "BOOKED", NEW type
  PROVE  HeldIn(CancelExistingBooking(db, b, type))
<1> DEFINE s == db.bookings[b].session
           slot == db.sessions[s].slot
           new == CancelExistingBooking(db, b, type)
<1>1. WellTyped(db) /\ s \in DOMAIN db.sessions /\ db.sessions[s] \in Session
  BY DEF ToldIn, SafeIn, WellTyped
<1>2. db.sessions[s].status = "SCHEDULED"
  <2>1. b \in BookedBookingsOf(db.bookings, s)
    BY DEF BookedBookingsOf
  <2>2. StatusTells(db.bookings, s, db.sessions[s].status)
    BY <1>1 DEF ToldIn, StatusesTell
  <2>3. db.sessions[s].status \in SessionStatuses
    BY <1>1 DEF Session, OneOnOneSession, BatchSession
  <2> QED
    BY <2>1, <2>2, <2>3 DEF StatusTells, SessionStatuses
<1>3. /\ new.sessions = IF ClosesClass(db, b)
                        THEN [db.sessions EXCEPT ![s].status = "CANCELLED"] ELSE db.sessions
      /\ new.slots = IF ReleasesSlot(db, b)
                     THEN [db.slots EXCEPT ![slot].status = "AVAILABLE"] ELSE db.slots
      /\ new.bookings = [db.bookings EXCEPT ![b].status = "CANCELLED"]
  BY DEF CancelExistingBooking
<1>4. LET row == [db.sessions[s] EXCEPT !.status = "CANCELLED"] IN
        /\ row.status = "CANCELLED" /\ row.program = db.sessions[s].program
        /\ row.slot = db.sessions[s].slot /\ row.startsAt = db.sessions[s].startsAt
  BY <1>1, SessionStatusWritten DEF SessionStatuses
<1>5. /\ DOMAIN new.sessions = DOMAIN db.sessions
      /\ \A x \in DOMAIN db.sessions : x # s => new.sessions[x] = db.sessions[x]
      /\ new.sessions[s].program = db.sessions[s].program
      /\ new.sessions[s].slot = db.sessions[s].slot
      /\ new.sessions[s].startsAt = db.sessions[s].startsAt
  BY <1>1, <1>3, <1>4 DEF WellTyped
<1>6. \A x : x # s => ActiveBookingsOf(new.bookings, x) = ActiveBookingsOf(db.bookings, x)
  <2>1. \A y \in DOMAIN db.bookings :
          /\ new.bookings[y].session = db.bookings[y].session
          /\ y # b => new.bookings[y] = db.bookings[y]
    <3>1. [db.bookings[b] EXCEPT !.status = "CANCELLED"].session = db.bookings[b].session
      BY <1>1, BookingStatusWritten DEF WellTyped, BookingStatuses
    <3> QED
      BY <1>1, <1>3, <3>1 DEF WellTyped
  <2>2. DOMAIN new.bookings = DOMAIN db.bookings
    BY <1>3
  <2> QED
    BY <2>1, <2>2 DEF ActiveBookingsOf
<1>7. CASE db.sessions[s].program = "BATCH"
  <2>1. new.slots = db.slots
    BY <1>3, <1>7 DEF ReleasesSlot
  <2>2. \A x \in DOMAIN db.sessions : IsLive(new.sessions, x) <=> IsLive(db.sessions, x)
    BY <1>5, <1>7 DEF IsLive
  <2> HIDE DEF s, new
  <2>3. ~IsLive(db.sessions, s)
    BY <1>7 DEF IsLive
  <2>4. HeldIn(new)
    BY <1>1, <1>5, <1>6, <1>7, <2>1, <2>2, <2>3, SameHolders
  <2> QED
    BY <2>4 DEF new
<1>8. CASE db.sessions[s].program = "ONE_ON_ONE"
  <2>1. /\ new.sessions[s].status = "CANCELLED"
        /\ IsLive(db.sessions, s) /\ ~IsLive(new.sessions, s)
        /\ \A x \in DOMAIN db.sessions : x # s => (IsLive(new.sessions, x) <=> IsLive(db.sessions, x))
    BY <1>1, <1>2, <1>3, <1>4, <1>5, <1>8 DEF ClosesClass, IsLive, WellTyped
  <2>2. slot \in SlotIds
    BY <1>1, <1>8, SlotOfClass
  <2>3. /\ db.slots[slot].status = "BOOKED"
        /\ db.slots[slot].startsAt = db.sessions[s].startsAt
        /\ LiveSessionsOf(db.sessions, slot) = {s}
    BY <1>1, <2>1 DEF HeldIn, ClassesHold
  <2>4. /\ \A x \in SlotIds : x # slot => new.slots[x] = db.slots[x]
        /\ new.slots[slot].startsAt = db.slots[slot].startsAt
        /\ db.slots[slot].startsAt > now => new.slots[slot].status = "AVAILABLE"
    <3>1. /\ [db.slots[slot] EXCEPT !.status = "AVAILABLE"].status = "AVAILABLE"
          /\ [db.slots[slot] EXCEPT !.status = "AVAILABLE"].startsAt = db.slots[slot].startsAt
      BY <1>1, <2>2, SlotStatusWritten DEF WellTyped, SlotStatuses
    <3>2. ReleasesSlot(db, b) <=> db.slots[slot].startsAt > now
      BY <1>8, <2>3 DEF ReleasesSlot
    <3> QED
      BY <1>1, <1>3, <2>2, <3>1, <3>2 DEF WellTyped
  <2> HIDE DEF s, slot, new
  <2>5. \A x \in SlotIds : x # slot =>
          LiveSessionsOf(new.sessions, x) = LiveSessionsOf(db.sessions, x)
    BY <1>5, <2>1 DEF LiveSessionsOf, slot
  <2>6. ASSUME NEW x \in DOMAIN new.sessions, IsLive(new.sessions, x)
        PROVE  LET its == new.sessions[x].slot IN
                 /\ new.slots[its].status = "BOOKED"
                 /\ new.slots[its].startsAt = new.sessions[x].startsAt
                 /\ LiveSessionsOf(new.sessions, its) = {x}
                 /\ ActiveBookingsOf(new.bookings, x) # {}
    <3>1. x # s /\ x \in DOMAIN db.sessions /\ IsLive(db.sessions, x)
      BY <1>5, <2>1, <2>6
    <3>2. db.sessions[x].slot \in SlotIds /\ db.sessions[x].slot # slot
      BY <1>1, <2>2, <2>3, <3>1, SlotOfClass DEF IsLive
    <3> QED
      BY <1>5, <1>6, <2>4, <2>5, <3>1, <3>2 DEF HeldIn, ClassesHold
  <2>7. ClassesHold(new)
    BY <2>6 DEF ClassesHold
  <2>8. SlotsHeld(new)
    BY <2>4, <2>5 DEF HeldIn, SlotsHeld
  <2> QED
    BY <2>7, <2>8 DEF HeldIn, new
<1> QED
  BY <1>1, <1>7, <1>8 DEF Session, OneOnOneSession, BatchSession

(* Attendance leaves live classes live. *)
LEMMA AttendanceTakenHolds ==
  ASSUME NEW db, WellTyped(db), HeldIn(db), NEW s \in DOMAIN db.sessions,
         NEW marks, DOMAIN marks \subseteq DOMAIN db.bookings,
         \A b \in DOMAIN marks : marks[b] \in AttendanceStatuses
  PROVE  HeldIn(AttendanceTaken(db, s, marks))
<1> DEFINE marked == MarkBookings(db, marks)
           new == AttendanceTaken(db, s, marks)
<1>1. WellTyped(marked) /\ marked.sessions = db.sessions /\ marked.slots = db.slots
  <2>1. marked.slots = db.slots
    BY DEF MarkBookings, WellTyped, IsTables
  <2> QED
    BY <2>1, MarkBookingsTyped
<1>2. marked.bookings = [b \in DOMAIN db.bookings |->
         IF b \in DOMAIN marks
         THEN [db.bookings[b] EXCEPT !.status = marks[b]] ELSE db.bookings[b]]
  BY DEF MarkBookings, WellTyped, IsTables
<1> HIDE DEF marked
<1>3. /\ DOMAIN marked.bookings = DOMAIN db.bookings
      /\ \A b \in DOMAIN db.bookings :
           /\ marked.bookings[b].session = db.bookings[b].session
           /\ db.bookings[b].status # "CANCELLED" => marked.bookings[b].status # "CANCELLED"
  <2>1. ASSUME NEW b \in DOMAIN db.bookings
        PROVE  /\ marked.bookings[b].session = db.bookings[b].session
               /\ db.bookings[b].status # "CANCELLED" => marked.bookings[b].status # "CANCELLED"
    <3>1. CASE b \in DOMAIN marks
      <4>1. db.bookings[b] \in Booking /\ marks[b] \in BookingStatuses /\ marks[b] # "CANCELLED"
        BY <3>1 DEF WellTyped, BookingStatuses, AttendanceStatuses
      <4>2. marked.bookings[b] = [db.bookings[b] EXCEPT !.status = marks[b]]
        BY <1>2, <3>1
      <4> QED
        BY <4>1, <4>2, BookingStatusWritten
    <3>2. CASE b \notin DOMAIN marks
      BY <1>2, <3>2
    <3> QED
      BY <3>1, <3>2
  <2>2. DOMAIN marked.bookings = DOMAIN db.bookings
    BY <1>2
  <2> QED
    BY <2>1, <2>2
<1>4. \A x : ActiveBookingsOf(db.bookings, x) \subseteq ActiveBookingsOf(marked.bookings, x)
  BY <1>3 DEF ActiveBookingsOf
<1>5. LET row == [db.sessions[s] EXCEPT !.status = "COMPLETED"] IN
        /\ row.status = "COMPLETED" /\ row.program = db.sessions[s].program
        /\ row.slot = db.sessions[s].slot /\ row.startsAt = db.sessions[s].startsAt
  BY SessionStatusWritten DEF WellTyped, SessionStatuses
<1>6. /\ new.bookings = marked.bookings /\ new.slots = db.slots
      /\ \/ new.sessions = db.sessions
         \/ /\ db.sessions[s].status # "CANCELLED"
            /\ new.sessions = [db.sessions EXCEPT ![s].status = "COMPLETED"]
  BY <1>1 DEF AttendanceTaken, CompleteClassSessionIfAttendanceMarked, CompletesClass,
              WellTyped, IsTables, marked
<1> HIDE DEF new
<1>7. /\ DOMAIN new.sessions = DOMAIN db.sessions
      /\ \A x \in DOMAIN db.sessions :
           /\ new.sessions[x].slot = db.sessions[x].slot
           /\ new.sessions[x].startsAt = db.sessions[x].startsAt
           /\ new.sessions[x].program = db.sessions[x].program
           /\ new.sessions[x].status = "CANCELLED" <=> db.sessions[x].status = "CANCELLED"
  BY <1>5, <1>6 DEF WellTyped
<1>8. \A x \in DOMAIN db.sessions : IsLive(new.sessions, x) <=> IsLive(db.sessions, x)
  BY <1>7 DEF IsLive
<1>9. HeldIn(new)
  BY <1>4, <1>6, <1>7, <1>8, SameHolders
<1> QED
  BY <1>9 DEF new

-----------------------------------------------------------------------------
(* The invariant is inductive. *)

LEMMA InitHeld == Init => Held
<1> SUFFICES ASSUME Init PROVE Held
  OBVIOUS
<1>1. Told /\ WellTyped(Tables)
  BY InitTold DEF Told, Safe, SafeIn
<1>2. \A s \in DOMAIN sessions : sessions[s].program = "BATCH"
  BY InitialTablesAssumption DEF Init, BatchSession
<1>3. \A slot \in SlotIds : slots[slot].status # "BOOKED"
  BY InitialTablesAssumption DEF Init
<1>4. HeldIn(Tables)
  BY <1>2, <1>3, TablesFields DEF HeldIn, ClassesHold, SlotsHeld, IsLive
<1> QED
  BY <1>1, <1>4 DEF Held

LEMMA CommitHeld ==
  ASSUME NEW db, HeldIn(db), Commit(db), now' = now, Told'
  PROVE  Held'
<1>1. /\ Tables'.bookings = db.bookings /\ Tables'.sessions = db.sessions
      /\ Tables'.slots = db.slots
  BY DEF Commit, Tables
<1>2. ClassesHold(Tables)'
  BY <1>1 DEF HeldIn, ClassesHold
<1>3. SlotsHeld(Tables)'
  BY <1>1 DEF HeldIn, SlotsHeld
<1> QED
  BY <1>2, <1>3 DEF Held, HeldIn

LEMMA NextHeld == Held /\ [Next]_vars => Held'
<1> SUFFICES ASSUME Held, [Next]_vars PROVE Held'
  OBVIOUS
<1>0. /\ ToldIn(Tables) /\ SafeIn(Tables) /\ WellTyped(Tables) /\ HeldIn(Tables)
      /\ Typed /\ Told'
      /\ Tables.bookings = bookings /\ Tables.sessions = sessions
      /\ \A b \in DOMAIN bookings :
           bookings[b].student \in StudentIds /\ bookings[b].session \in DOMAIN sessions
  BY NextTold, TablesFields
     DEF Held, Told, ToldIn, Safe, SafeIn, Typed, TypeOK, WellTyped, Booking
<1>1. ASSUME NEW st \in StudentIds, NEW s \in DOMAIN sessions, CreateBatchBooking(st, s)
      PROVE  Held'
  BY <1>0, <1>1, AddBookingHolds, CommitHeld DEF CreateBatchBooking, CanCreateBatchBooking
<1>2. ASSUME NEW st \in StudentIds, NEW s \in DOMAIN sessions, AdminAddStudentToClass(st, s)
      PROVE  Held'
  BY <1>0, <1>2, AddBookingHolds, CommitHeld DEF AdminAddStudentToClass
<1>3. ASSUME NEW st \in StudentIds, NEW slot \in SlotIds, CreateOneOnOneBooking(st, slot)
      PROVE  Held'
  BY <1>0, <1>3, AddOneOnOneBookingHolds, CommitHeld DEF CreateOneOnOneBooking
<1>4. ASSUME NEW b \in DOMAIN bookings, CancelBooking(b) \/ AdminCancelBooking(b)
      PROVE  Held'
  BY <1>0, <1>4, CancelExistingBookingHolds, CommitHeld
     DEF CancelBooking, AdminCancelBooking, CanCancel
<1>5. ASSUME NEW b \in DOMAIN bookings, NEW s \in DOMAIN sessions, NEW cutoff \in BOOLEAN,
             RescheduleBatchBooking(b, s, cutoff)
      PROVE  Held'
  <2> DEFINE db == CancelExistingBooking(Tables, b, "RESCHEDULED_FROM")
  <2>1. SafeIn(db) /\ HeldIn(db)
    BY <1>0, <1>5, CancelExistingBookingSafe, CancelExistingBookingHolds
       DEF RescheduleBatchBooking, CanCancel, CancellationEvents
  <2> HIDE DEF db
  <2>2. /\ CanCreateBatchBooking(db, bookings[b].student, s)
        /\ Commit(AddBooking(db, bookings[b].student, s, RescheduledTo(b)))
        /\ now' = now
    BY <1>5 DEF RescheduleBatchBooking, db
  <2> QED
    BY <1>0, <2>1, <2>2, AddBookingHolds, CommitHeld DEF CanCreateBatchBooking, SafeIn
<1>6. ASSUME NEW b \in DOMAIN bookings, NEW slot \in SlotIds, NEW cutoff \in BOOLEAN,
             RescheduleOneOnOneBooking(b, slot, cutoff)
      PROVE  Held'
  <2> DEFINE db == CancelExistingBooking(Tables, b, "RESCHEDULED_FROM")
  <2>1. SafeIn(db) /\ HeldIn(db)
    BY <1>0, <1>6, CancelExistingBookingSafe, CancelExistingBookingHolds
       DEF RescheduleOneOnOneBooking, CanCancel, CancellationEvents
  <2> HIDE DEF db
  <2>2. /\ CanCreateOneOnOneBooking(db, bookings[b].student, slot)
        /\ Commit(AddOneOnOneBooking(db, bookings[b].student, slot, RescheduledTo(b)))
        /\ now' = now
    BY <1>6 DEF RescheduleOneOnOneBooking, db
  <2> QED
    BY <1>0, <2>1, <2>2, AddOneOnOneBookingHolds, CommitHeld DEF SafeIn
<1>7. ASSUME NEW s \in DOMAIN sessions, NEW marks, DOMAIN marks \subseteq DOMAIN bookings,
             \A b \in DOMAIN marks : marks[b] \in AttendanceStatuses,
             MarkAttendance(s, marks)
      PROVE  Held'
  <2>1. HeldIn(AttendanceTaken(Tables, s, marks))
    BY <1>0, <1>7, AttendanceTakenHolds
  <2>2. Commit(AttendanceTaken(Tables, s, marks)) /\ now' = now
    BY <1>7 DEF MarkAttendance, AttendanceTaken
  <2> QED
    BY <1>0, <2>1, <2>2, CommitHeld
<1>8. ASSUME NEW b \in DOMAIN bookings, NEW status \in AttendanceStatuses,
             MarkBookingAttendance(b, status)
      PROVE  Held'
  BY <1>0, <1>7, <1>8 DEF MarkBookingAttendance
<1>9. ASSUME NEW s \in DOMAIN sessions, NEW named \in (SUBSET DOMAIN bookings) \ {{}},
             NEW marks \in [named -> AttendanceStatuses], MarkClassAttendance(s, marks)
      PROVE  Held'
  BY <1>7, <1>9 DEF MarkClassAttendance
<1>10. CASE Tick \/ UNCHANGED vars
  <2>1. now \in Nat /\ now' \in Nat /\ now' >= now
    BY <1>0, <1>10, InstantsAssumption DEF Tick, vars, Typed, TypeOK
  <2>2. \A slot \in SlotIds : Tables.slots[slot].startsAt \in Nat
    BY <1>0 DEF WellTyped, Slot
  <2>3. /\ Tables'.bookings = Tables.bookings /\ Tables'.sessions = Tables.sessions
        /\ Tables'.slots = Tables.slots
    BY <1>10 DEF Tables, Tick, vars
  <2>4. ClassesHold(Tables)'
    BY <1>0, <2>3 DEF HeldIn, ClassesHold
  <2>5. SlotsHeld(Tables)'
    BY <1>0, <2>1, <2>2, <2>3 DEF HeldIn, SlotsHeld
  <2> QED
    BY <1>0, <2>4, <2>5 DEF Held, HeldIn
<1> QED
  BY <1>1, <1>2, <1>3, <1>4, <1>5, <1>6, <1>8, <1>9, <1>10 DEF Next

(* No slot is held by two live classes, lost by the class that has it or kept
   by none, for any calendar and any series of requests. *)
THEOREM SlotsFollowClasses == Spec => []SlotHeldByItsClass
<1>1. Held => SlotHeldByItsClass
  BY TablesFields
     DEF Held, HeldIn, ClassesHold, SlotsHeld, IsLive, SlotHeldByItsClass
<1> QED
  BY <1>1, InitHeld, NextHeld, PTL DEF Spec

-----------------------------------------------------------------------------
(* The slots that are given back. *)

(* What happens between db and new to the slots that are booked in db. *)
ReleasedRightly(db, new) ==
  \A slot \in SlotIds :
    db.slots[slot].status = "BOOKED" /\ new.slots[slot].status # "BOOKED" =>
      /\ new.slots[slot].status = "AVAILABLE"
      /\ db.slots[slot].startsAt > now
      /\ LiveSessionsOf(db.sessions, slot) # {}
      /\ LiveSessionsOf(new.sessions, slot) = {}

(* A cancellation releases the slot of the class it closes. *)
LEMMA CancelExistingBookingReleases ==
  ASSUME NEW db, ToldIn(db), HeldIn(db), NEW b \in DOMAIN db.bookings,
         db.bookings[b].status = "BOOKED", NEW type
  PROVE  ReleasedRightly(db, CancelExistingBooking(db, b, type))
<1> DEFINE s == db.bookings[b].session
           its == db.sessions[s].slot
           new == CancelExistingBooking(db, b, type)
<1>1. WellTyped(db) /\ s \in DOMAIN db.sessions /\ db.sessions[s] \in Session
  BY DEF ToldIn, SafeIn, WellTyped
<1>2. /\ new.sessions = IF ClosesClass(db, b)
                        THEN [db.sessions EXCEPT ![s].status = "CANCELLED"] ELSE db.sessions
      /\ new.slots = IF ReleasesSlot(db, b)
                     THEN [db.slots EXCEPT ![its].status = "AVAILABLE"] ELSE db.slots
  BY DEF CancelExistingBooking
<1>3. SUFFICES ASSUME NEW slot \in SlotIds, db.slots[slot].status = "BOOKED",
                      new.slots[slot].status # "BOOKED"
               PROVE  /\ new.slots[slot].status = "AVAILABLE"
                      /\ db.slots[slot].startsAt > now
                      /\ LiveSessionsOf(db.sessions, slot) # {}
                      /\ LiveSessionsOf(new.sessions, slot) = {}
  BY DEF ReleasedRightly
<1>4. ReleasesSlot(db, b) /\ slot = its
  BY <1>1, <1>2, <1>3 DEF WellTyped
<1>5. db.sessions[s].status = "SCHEDULED"
  <2>1. b \in BookedBookingsOf(db.bookings, s)
    BY DEF BookedBookingsOf
  <2>2. StatusTells(db.bookings, s, db.sessions[s].status)
    BY <1>1 DEF ToldIn, StatusesTell
  <2>3. db.sessions[s].status \in SessionStatuses
    BY <1>1 DEF Session, OneOnOneSession, BatchSession
  <2> QED
    BY <2>1, <2>2, <2>3 DEF StatusTells, SessionStatuses
<1>6. db.sessions[s].program = "ONE_ON_ONE" /\ db.sessions[s].startsAt > now
  BY <1>4 DEF ReleasesSlot
<1>7. new.sessions = [db.sessions EXCEPT ![s].status = "CANCELLED"]
  BY <1>2, <1>5, <1>6 DEF ClosesClass
<1>8. /\ db.slots[slot].startsAt = db.sessions[s].startsAt
      /\ LiveSessionsOf(db.sessions, slot) = {s}
  BY <1>1, <1>4, <1>5, <1>6 DEF HeldIn, ClassesHold, IsLive
<1>9. LiveSessionsOf(new.sessions, slot) = {}
  <2>1. [db.sessions[s] EXCEPT !.status = "CANCELLED"].status = "CANCELLED"
    BY <1>1, SessionStatusWritten DEF SessionStatuses
  <2>2. /\ DOMAIN new.sessions = DOMAIN db.sessions
        /\ new.sessions[s].status = "CANCELLED"
        /\ \A x \in DOMAIN db.sessions : x # s => new.sessions[x] = db.sessions[x]
    BY <1>1, <1>7, <2>1 DEF WellTyped
  <2> QED
    BY <1>8, <2>2 DEF LiveSessionsOf
<1>10. new.slots[slot].status = "AVAILABLE"
  <2>1. [db.slots[slot] EXCEPT !.status = "AVAILABLE"].status = "AVAILABLE"
    BY <1>1, SlotStatusWritten DEF WellTyped, SlotStatuses
  <2> QED
    BY <1>1, <1>2, <1>4, <2>1 DEF WellTyped
<1> QED
  BY <1>6, <1>8, <1>9, <1>10

(* A claim books its slot and leaves the others and their classes alone. *)
LEMMA AddOneOnOneBookingClaims ==
  ASSUME NEW db, WellTyped(db), NEW st \in StudentIds, NEW slot \in SlotIds, NEW event,
         CanCreateOneOnOneBooking(db, st, slot)
  PROVE  LET new == AddOneOnOneBooking(db, st, slot, event) IN
           /\ new.slots[slot].status = "BOOKED"
           /\ \A x \in SlotIds \ {slot} :
                /\ new.slots[x] = db.slots[x]
                /\ LiveSessionsOf(new.sessions, x) = LiveSessionsOf(db.sessions, x)
<1> DEFINE s == NewKey(SessionIds, db.sessions)
           row == [program |-> "ONE_ON_ONE", slot |-> slot, group |-> None,
                   startsAt |-> db.slots[slot].startsAt, status |-> "SCHEDULED",
                   capacity |-> 1]
           new == AddOneOnOneBooking(db, st, slot, event)
<1>1. s \notin DOMAIN db.sessions
  BY NewKeyIsNew DEF CanCreateOneOnOneBooking
<1>2. /\ new.sessions = Insert(db.sessions, s, row)
      /\ new.slots = [db.slots EXCEPT ![slot].status = "BOOKED"]
  BY DEF AddOneOnOneBooking, AddBooking, ClaimSlot, WellTyped, IsTables
<1>3. /\ DOMAIN new.sessions = DOMAIN db.sessions \cup {s}
      /\ new.sessions[s].slot = slot
      /\ \A x \in DOMAIN db.sessions : new.sessions[x] = db.sessions[x]
  BY <1>1, <1>2 DEF Insert
<1>4. /\ new.slots[slot].status = "BOOKED"
      /\ \A x \in SlotIds : x # slot => new.slots[x] = db.slots[x]
  BY <1>2, SlotStatusWritten DEF WellTyped, SlotStatuses
<1> HIDE DEF s, row, new
<1>5. ASSUME NEW x \in SlotIds, x # slot
      PROVE  LiveSessionsOf(new.sessions, x) = LiveSessionsOf(db.sessions, x)
  BY <1>3, <1>5 DEF LiveSessionsOf
<1> QED
  BY <1>4, <1>5 DEF new

LEMMA CommitReleases ==
  ASSUME NEW db, ReleasedRightly(Tables, db), Commit(db)
  PROVE  ReleasedRightly(Tables, Tables')
<1>1. Tables'.sessions = db.sessions /\ Tables'.slots = db.slots
  BY DEF Commit, Tables
<1> QED
  BY <1>1 DEF ReleasedRightly

LEMMA NextReleases ==
  ASSUME Held, [Next]_vars
  PROVE  ReleasedRightly(Tables, Tables')
<1>0. /\ ToldIn(Tables) /\ WellTyped(Tables) /\ HeldIn(Tables)
      /\ Tables.bookings = bookings /\ Tables.sessions = sessions /\ Tables.slots = slots
      /\ \A b \in DOMAIN bookings : bookings[b].student \in StudentIds
  BY TablesFields DEF Held, Told, ToldIn, Safe, SafeIn, Typed, TypeOK, WellTyped, Booking
<1>1. ASSUME NEW db, WellTyped(db), NEW st, NEW s, NEW event
      PROVE  /\ AddBooking(db, st, s, event).sessions = db.sessions
             /\ AddBooking(db, st, s, event).slots = db.slots
  BY <1>1 DEF AddBooking, WellTyped, IsTables
<1>2. ASSUME slots' = slots
      PROVE  ReleasedRightly(Tables, Tables')
  BY <1>2 DEF ReleasedRightly, Tables
<1>3. ASSUME NEW st \in StudentIds, NEW s \in DOMAIN sessions,
             CreateBatchBooking(st, s) \/ AdminAddStudentToClass(st, s)
      PROVE  ReleasedRightly(Tables, Tables')
  BY <1>0, <1>1, <1>2, <1>3 DEF CreateBatchBooking, AdminAddStudentToClass, Commit
<1>4. ASSUME NEW st \in StudentIds, NEW slot \in SlotIds, CreateOneOnOneBooking(st, slot)
      PROVE  ReleasedRightly(Tables, Tables')
  <2> DEFINE new == AddOneOnOneBooking(Tables, st, slot, Event("BOOKED"))
  <2>1. Commit(new) /\ CanCreateOneOnOneBooking(Tables, st, slot)
    BY <1>4 DEF CreateOneOnOneBooking
  <2>2. /\ new.slots[slot].status = "BOOKED"
        /\ \A x \in SlotIds \ {slot} : new.slots[x] = Tables.slots[x]
    BY <1>0, <2>1, AddOneOnOneBookingClaims
  <2> HIDE DEF new
  <2>3. ReleasedRightly(Tables, new)
    BY <2>2 DEF ReleasedRightly
  <2> QED
    BY <2>1, <2>3, CommitReleases
<1>5. ASSUME NEW b \in DOMAIN bookings, CancelBooking(b) \/ AdminCancelBooking(b)
      PROVE  ReleasedRightly(Tables, Tables')
  BY <1>0, <1>5, CancelExistingBookingReleases, CommitReleases
     DEF CancelBooking, AdminCancelBooking, CanCancel
<1>6. ASSUME NEW b \in DOMAIN bookings, NEW s \in DOMAIN sessions, NEW cutoff \in BOOLEAN,
             RescheduleBatchBooking(b, s, cutoff)
      PROVE  ReleasedRightly(Tables, Tables')
  <2> DEFINE db == CancelExistingBooking(Tables, b, "RESCHEDULED_FROM")
             new == AddBooking(db, bookings[b].student, s, RescheduledTo(b))
  <2>1. bookings[b].status = "BOOKED" /\ Commit(new)
    BY <1>6 DEF RescheduleBatchBooking, CanCancel
  <2>2. WellTyped(db) /\ ReleasedRightly(Tables, db)
    BY <1>0, <2>1, CancelExistingBookingTyped, CancelExistingBookingReleases
       DEF CancellationEvents
  <2> HIDE DEF db
  <2>3. new.sessions = db.sessions /\ new.slots = db.slots
    BY <1>1, <2>2
  <2> HIDE DEF new
  <2>4. ReleasedRightly(Tables, new)
    BY <2>2, <2>3 DEF ReleasedRightly
  <2> QED
    BY <2>1, <2>4, CommitReleases
<1>7. ASSUME NEW b \in DOMAIN bookings, NEW slot \in SlotIds, NEW cutoff \in BOOLEAN,
             RescheduleOneOnOneBooking(b, slot, cutoff)
      PROVE  ReleasedRightly(Tables, Tables')
  <2> DEFINE db == CancelExistingBooking(Tables, b, "RESCHEDULED_FROM")
             st == bookings[b].student
             new == AddOneOnOneBooking(db, st, slot, RescheduledTo(b))
  <2>1. bookings[b].status = "BOOKED" /\ CanCreateOneOnOneBooking(db, st, slot) /\ Commit(new)
    BY <1>7 DEF RescheduleOneOnOneBooking, CanCancel
  <2>2. WellTyped(db) /\ ReleasedRightly(Tables, db)
    BY <1>0, <2>1, CancelExistingBookingTyped, CancelExistingBookingReleases
       DEF CancellationEvents
  <2> HIDE DEF db
  <2>3. /\ new.slots[slot].status = "BOOKED"
        /\ \A x \in SlotIds \ {slot} :
             /\ new.slots[x] = db.slots[x]
             /\ LiveSessionsOf(new.sessions, x) = LiveSessionsOf(db.sessions, x)
    BY <1>0, <2>1, <2>2, AddOneOnOneBookingClaims
  <2> HIDE DEF new
  <2>4. ReleasedRightly(Tables, new)
    BY <2>2, <2>3 DEF ReleasedRightly
  <2> QED
    BY <2>1, <2>4, CommitReleases
<1>8. ASSUME NEW s, NEW marks, MarkAttendance(s, marks)
      PROVE  ReleasedRightly(Tables, Tables')
  <2>1. MarkBookings(Tables, marks).slots = Tables.slots
        /\ IsTables(MarkBookings(Tables, marks))
    BY <1>0 DEF MarkBookings, WellTyped, IsTables
  <2>2. AttendanceTaken(Tables, s, marks).slots = Tables.slots
    BY <2>1 DEF AttendanceTaken, CompleteClassSessionIfAttendanceMarked, IsTables
  <2> QED
    BY <1>0, <1>2, <1>8, <2>2 DEF MarkAttendance, Commit, AttendanceTaken
<1>9. CASE Tick \/ UNCHANGED vars
  BY <1>2, <1>9 DEF Tick, vars
<1> QED
  BY <1>3, <1>4, <1>5, <1>6, <1>7, <1>8, <1>9
     DEF Next, MarkBookingAttendance, MarkClassAttendance

(* A booked slot goes back on offer only while it is to come, and only with the
   class it was booked for: no request frees it under a class that is on. *)
THEOREM SlotsReleasedWithTheirClass == Spec => SlotReleasedWithItsClass
<1>1. Held /\ [Next]_vars =>
        [\A slot \in SlotIds :
           slots[slot].status = "BOOKED" /\ slots'[slot].status # "BOOKED" =>
             /\ slots'[slot].status = "AVAILABLE"
             /\ slots[slot].startsAt > now
             /\ LiveSessionsOf(sessions, slot) # {}
             /\ LiveSessionsOf(sessions', slot) = {}]_vars
  <2>1. /\ Tables.slots = slots /\ Tables.sessions = sessions
        /\ Tables'.slots = slots' /\ Tables'.sessions = sessions'
    BY DEF Tables
  <2> QED
    BY <2>1, NextReleases DEF ReleasedRightly
<1> QED
  BY <1>1, InitHeld, NextHeld, PTL DEF Spec, SlotReleasedWithItsClass

-----------------------------------------------------------------------------
(* The diary. *)

(* A one-on-one class has one student at most. *)
LEMMA OneOnOneHasOneStudent ==
  ASSUME NEW db, SafeIn(db), NEW s \in DOMAIN db.sessions,
         db.sessions[s].program = "ONE_ON_ONE", NEW b \in ActiveBookingsOf(db.bookings, s)
  PROVE  ActiveBookingsOf(db.bookings, s) = {b}
<1> DEFINE active == ActiveBookingsOf(db.bookings, s)
<1>1. db.sessions[s].capacity = 1
  BY DEF SafeIn, WellTyped, Session, OneOnOneSession, BatchSession
<1>2. IsFiniteSet(active) /\ Cardinality(active) \in Nat /\ Cardinality(active) <= 1
  BY <1>1, ActiveBookingsFinite DEF SafeIn, CapacityIn
<1> HIDE DEF active
<1>3. b \in active
  BY DEF active
<1>4. ASSUME NEW x \in active, x # b PROVE FALSE
  <2>1. Cardinality({x, b}) <= Cardinality(active)
    BY <1>2, <1>3, FS_Subset
  <2>2. IsFiniteSet({b}) /\ Cardinality({b}) = 1
    BY FS_Singleton
  <2>3. Cardinality({b} \cup {x}) = Cardinality({b}) + 1
    BY <1>4, <2>2, FS_AddElement
  <2>4. {b} \cup {x} = {x, b}
    OBVIOUS
  <2> QED
    BY <1>2, <2>1, <2>2, <2>3, <2>4
<1> QED
  BY <1>3, <1>4 DEF active

DiaryOf(db) ==
  [slot \in SlotIds |->
     {db.bookings[b].student : b \in HoldersOf(db.bookings, db.sessions, slot)}]

DiaryView ==
  [slot \in SlotIds |->
     {bookings[b].student : b \in HoldersOf(bookings, sessions, slot)}]

LEMMA DiaryOfTables == DiaryView = DiaryOf(Tables)
BY TablesFields DEF DiaryView, DiaryOf

LEMMA DiaryCommitted ==
  ASSUME NEW db, Commit(db)
  PROVE  DiaryView' = DiaryOf(db)
BY DEF Commit, DiaryView, DiaryOf

(* A slot has one holder at most, the student of its live class. *)
LEMMA OneHolder ==
  ASSUME NEW db, SafeIn(db), HeldIn(db), NEW slot \in SlotIds,
         NEW b \in HoldersOf(db.bookings, db.sessions, slot)
  PROVE  HoldersOf(db.bookings, db.sessions, slot) = {b}
<1>1. PICK s : s = db.bookings[b].session
  OBVIOUS
<1>2. WellTyped(db) /\ s \in DOMAIN db.sessions /\ s \in LiveSessionsOf(db.sessions, slot)
  BY <1>1 DEF SafeIn, HoldersOf, LiveSessionsOf
<1>3. IsLive(db.sessions, s) /\ db.sessions[s].slot = slot
  BY <1>2, SlotOfClass
<1>4. LiveSessionsOf(db.sessions, slot) = {s}
  BY <1>2, <1>3 DEF HeldIn, ClassesHold
<1>5. b \in ActiveBookingsOf(db.bookings, s)
  BY <1>1 DEF HoldersOf, ActiveBookingsOf
<1>6. ActiveBookingsOf(db.bookings, s) = {b}
  BY <1>2, <1>3, <1>5, OneOnOneHasOneStudent DEF IsLive
<1> QED
  BY <1>4, <1>6 DEF HoldersOf, ActiveBookingsOf

(* Whoever joins a class joins one of a group: a one-on-one class is full. *)
LEMMA AddBookingKeepsDiary ==
  ASSUME NEW db, SafeIn(db), HeldIn(db), NEW st, NEW s \in DOMAIN db.sessions, NEW event,
         db.sessions[s].status = "SCHEDULED", HasNewKey(BookingIds, db.bookings),
         CapacityAvailable(db, s)
  PROVE  DiaryOf(AddBooking(db, st, s, event)) = DiaryOf(db)
<1> DEFINE b == NewKey(BookingIds, db.bookings)
           new == AddBooking(db, st, s, event)
<1>1. b \notin DOMAIN db.bookings /\ WellTyped(db)
  BY NewKeyIsNew DEF SafeIn
<1>2. /\ new.sessions = db.sessions
      /\ DOMAIN new.bookings = DOMAIN db.bookings \cup {b}
      /\ new.bookings[b].session = s
      /\ \A x \in DOMAIN db.bookings : new.bookings[x] = db.bookings[x]
  BY <1>1 DEF AddBooking, WellTyped, IsTables, Insert
<1> HIDE DEF b, new
<1>3. ~IsLive(db.sessions, s)
  <2> SUFFICES ASSUME IsLive(db.sessions, s) PROVE FALSE
    OBVIOUS
  <2>1. PICK x : x \in ActiveBookingsOf(db.bookings, s)
    BY DEF HeldIn, ClassesHold
  <2>2. ActiveBookingsOf(db.bookings, s) = {x}
    BY <2>1, OneOnOneHasOneStudent DEF IsLive
  <2>3. db.sessions[s].capacity = 1
    BY <1>1 DEF IsLive, WellTyped, Session, OneOnOneSession, BatchSession
  <2>4. Cardinality({x}) = 1
    BY FS_Singleton
  <2> QED
    BY <2>2, <2>3, <2>4 DEF CapacityAvailable
<1>4. ASSUME NEW slot \in SlotIds
      PROVE  HoldersOf(new.bookings, new.sessions, slot) = HoldersOf(db.bookings, db.sessions, slot)
  <2>1. s \notin LiveSessionsOf(db.sessions, slot)
    BY <1>1, <1>3, SlotOfClass
  <2> QED
    BY <1>2, <2>1 DEF HoldersOf
<1>5. \A slot \in SlotIds : \A x \in HoldersOf(db.bookings, db.sessions, slot) :
        new.bookings[x].student = db.bookings[x].student
  BY <1>2 DEF HoldersOf
<1>6. DiaryOf(new) = DiaryOf(db)
  BY <1>4, <1>5 DEF DiaryOf
<1> QED
  BY <1>6 DEF new

(* A claimed slot is free before, and the student's afterwards. *)
LEMMA AddOneOnOneBookingTakes ==
  ASSUME NEW db, WellTyped(db), NEW st \in StudentIds, NEW slot \in SlotIds, NEW event,
         CanCreateOneOnOneBooking(db, st, slot)
  PROVE  /\ DiaryOf(db)[slot] = {}
         /\ DiaryOf(AddOneOnOneBooking(db, st, slot, event)) = [DiaryOf(db) EXCEPT ![slot] = {st}]
<1> DEFINE s == NewKey(SessionIds, db.sessions)
           b == NewKey(BookingIds, db.bookings)
           row == [program |-> "ONE_ON_ONE", slot |-> slot, group |-> None,
                   startsAt |-> db.slots[slot].startsAt, status |-> "SCHEDULED",
                   capacity |-> 1]
           new == AddOneOnOneBooking(db, st, slot, event)
<1>1. /\ s \notin DOMAIN db.sessions /\ b \notin DOMAIN db.bookings
      /\ LiveSessionsOf(db.sessions, slot) = {}
  BY NewKeyIsNew DEF CanCreateOneOnOneBooking
<1>2. /\ new.sessions = Insert(db.sessions, s, row)
      /\ new.bookings = Insert(db.bookings, b, [student |-> st, session |-> s, status |-> "BOOKED"])
  BY DEF AddOneOnOneBooking, AddBooking, ClaimSlot, WellTyped, IsTables
<1>3. /\ DOMAIN new.sessions = DOMAIN db.sessions \cup {s}
      /\ new.sessions[s] = row
      /\ \A x \in DOMAIN db.sessions : new.sessions[x] = db.sessions[x]
      /\ DOMAIN new.bookings = DOMAIN db.bookings \cup {b}
      /\ \A x \in DOMAIN db.bookings : new.bookings[x] = db.bookings[x]
      /\ new.bookings[b].session = s /\ new.bookings[b].status = "BOOKED"
      /\ new.bookings[b].student = st
  BY <1>1, <1>2 DEF Insert
<1>4. row.slot = slot /\ row.status = "SCHEDULED"
  OBVIOUS
<1>5. \A x \in DOMAIN db.bookings : db.bookings[x].session \in DOMAIN db.sessions
  BY DEF WellTyped
<1> HIDE DEF s, b, row, new
<1>6. LiveSessionsOf(new.sessions, slot) = {s}
  BY <1>1, <1>3, <1>4 DEF LiveSessionsOf
<1>7. \A x \in SlotIds : x # slot =>
        LiveSessionsOf(new.sessions, x) = LiveSessionsOf(db.sessions, x)
  BY <1>3, <1>4 DEF LiveSessionsOf
<1>8. HoldersOf(new.bookings, new.sessions, slot) = {b}
  BY <1>1, <1>3, <1>5, <1>6 DEF HoldersOf
<1>9. ASSUME NEW x \in SlotIds, x # slot
      PROVE  /\ HoldersOf(new.bookings, new.sessions, x) = HoldersOf(db.bookings, db.sessions, x)
             /\ \A y \in HoldersOf(db.bookings, db.sessions, x) : new.bookings[y] = db.bookings[y]
  <2>1. s \notin LiveSessionsOf(db.sessions, x)
    BY <1>1 DEF LiveSessionsOf
  <2> QED
    BY <1>3, <1>7, <1>9, <2>1 DEF HoldersOf
<1>10. DiaryOf(new)[slot] = {st}
  BY <1>3, <1>8 DEF DiaryOf
<1>11. \A x \in SlotIds : x # slot => DiaryOf(new)[x] = DiaryOf(db)[x]
  BY <1>9 DEF DiaryOf
<1>12. HoldersOf(db.bookings, db.sessions, slot) = {}
  BY <1>1 DEF HoldersOf
<1>13. DiaryOf(db)[slot] = {}
  BY <1>12 DEF DiaryOf
<1>14. DiaryOf(new) = [DiaryOf(db) EXCEPT ![slot] = {st}]
  BY <1>10, <1>11 DEF DiaryOf
<1> QED
  BY <1>13, <1>14 DEF new

(* A diary in which slots have been given up. *)
WithoutSlots(diary, given) == [slot \in SlotIds |-> IF slot \in given THEN {} ELSE diary[slot]]

GivenUp(old, new, st) ==
  \E given \in SUBSET SlotIds :
    (\A slot \in given : old[slot] = {st}) /\ new = WithoutSlots(old, given)

(* When every booking that lost its class was one student's, that student has
   given up slots and the others have theirs. *)
LEMMA LosersGiveUp ==
  ASSUME NEW db, SafeIn(db), HeldIn(db), NEW new, NEW st,
         \A slot \in SlotIds :
           HoldersOf(new.bookings, new.sessions, slot) \subseteq HoldersOf(db.bookings, db.sessions, slot),
         \A b \in DOMAIN db.bookings : new.bookings[b].student = db.bookings[b].student,
         \A slot \in SlotIds :
           \A b \in HoldersOf(db.bookings, db.sessions, slot)
                      \ HoldersOf(new.bookings, new.sessions, slot) :
             db.bookings[b].student = st
  PROVE  GivenUp(DiaryOf(db), DiaryOf(new), st)
<1>1. PICK given : given = {slot \in SlotIds :
                              HoldersOf(new.bookings, new.sessions, slot)
                                # HoldersOf(db.bookings, db.sessions, slot)}
  OBVIOUS
<1>2. ASSUME NEW slot \in given
      PROVE  DiaryOf(db)[slot] = {st} /\ DiaryOf(new)[slot] = {}
  <2>1. slot \in SlotIds
    BY <1>1
  <2>2. PICK b : b \in HoldersOf(db.bookings, db.sessions, slot)
                         \ HoldersOf(new.bookings, new.sessions, slot)
    BY <1>1, <2>1
  <2>3. HoldersOf(db.bookings, db.sessions, slot) = {b}
    BY <2>1, <2>2, OneHolder
  <2>4. HoldersOf(new.bookings, new.sessions, slot) = {}
    BY <2>1, <2>2, <2>3
  <2>5. db.bookings[b].student = st
    BY <2>1, <2>2
  <2> QED
    BY <2>1, <2>3, <2>4, <2>5 DEF DiaryOf
<1>3. ASSUME NEW slot \in SlotIds, slot \notin given
      PROVE  DiaryOf(new)[slot] = DiaryOf(db)[slot]
  <2>1. HoldersOf(new.bookings, new.sessions, slot) = HoldersOf(db.bookings, db.sessions, slot)
    BY <1>1, <1>3
  <2>2. \A b \in HoldersOf(db.bookings, db.sessions, slot) :
          new.bookings[b].student = db.bookings[b].student
    BY DEF HoldersOf
  <2> QED
    BY <2>1, <2>2 DEF DiaryOf
<1>4. DiaryOf(new) = WithoutSlots(DiaryOf(db), given)
  <2>1. DiaryOf(new) = [slot \in SlotIds |-> DiaryOf(new)[slot]]
    BY DEF DiaryOf
  <2> QED
    BY <1>2, <1>3, <2>1 DEF WithoutSlots
<1>5. given \in SUBSET SlotIds
  BY <1>1
<1> QED
  BY <1>2, <1>4, <1>5 DEF GivenUp

(* Who cancels a one-on-one class gives up its slot, and nothing else. *)
LEMMA CancelExistingBookingGivesUp ==
  ASSUME NEW db, ToldIn(db), HeldIn(db), NEW b \in DOMAIN db.bookings,
         db.bookings[b].status = "BOOKED", NEW type
  PROVE  LET st == db.bookings[b].student
             s == db.bookings[b].session
             slot == db.sessions[s].slot
             new == CancelExistingBooking(db, b, type)
         IN /\ db.sessions[s].program = "ONE_ON_ONE" =>
                 /\ slot \in SlotIds /\ DiaryOf(db)[slot] = {st}
                 /\ DiaryOf(new) = [DiaryOf(db) EXCEPT ![slot] = {}]
            /\ db.sessions[s].program # "ONE_ON_ONE" => DiaryOf(new) = DiaryOf(db)
<1> DEFINE s == db.bookings[b].session
           slot == db.sessions[s].slot
           new == CancelExistingBooking(db, b, type)
<1>1. WellTyped(db) /\ SafeIn(db) /\ s \in DOMAIN db.sessions /\ db.sessions[s] \in Session
  BY DEF ToldIn, SafeIn, WellTyped
<1>2. db.sessions[s].status # "CANCELLED"
  <2>1. b \in BookedBookingsOf(db.bookings, s)
    BY DEF BookedBookingsOf
  <2> QED
    BY <1>1, <2>1 DEF ToldIn, StatusesTell, StatusTells
<1>3. /\ new.sessions = IF ClosesClass(db, b)
                        THEN [db.sessions EXCEPT ![s].status = "CANCELLED"] ELSE db.sessions
      /\ new.bookings = [db.bookings EXCEPT ![b].status = "CANCELLED"]
  BY DEF CancelExistingBooking
<1>4. /\ DOMAIN new.sessions = DOMAIN db.sessions
      /\ \A x \in DOMAIN db.sessions : x # s => new.sessions[x] = db.sessions[x]
      /\ new.sessions[s].slot = db.sessions[s].slot
  <2>1. [db.sessions[s] EXCEPT !.status = "CANCELLED"].slot = db.sessions[s].slot
    BY <1>1, SessionStatusWritten DEF SessionStatuses
  <2> QED
    BY <1>1, <1>3, <2>1 DEF WellTyped
<1>5. /\ DOMAIN new.bookings = DOMAIN db.bookings
      /\ new.bookings[b].status = "CANCELLED"
      /\ \A x \in DOMAIN db.bookings : /\ x # b => new.bookings[x] = db.bookings[x]
                                       /\ new.bookings[x].student = db.bookings[x].student
  <2>1. LET row == [db.bookings[b] EXCEPT !.status = "CANCELLED"] IN
          row.student = db.bookings[b].student /\ row.status = "CANCELLED"
    BY <1>1, BookingStatusWritten DEF WellTyped, BookingStatuses
  <2> QED
    BY <1>1, <1>3, <2>1 DEF WellTyped
<1> HIDE DEF s, slot, new
<1>6. \A x \in SlotIds : x # slot =>
        LiveSessionsOf(new.sessions, x) = LiveSessionsOf(db.sessions, x)
  BY <1>4 DEF LiveSessionsOf, slot
<1>7. ASSUME NEW x \in SlotIds, x # slot
      PROVE  DiaryOf(new)[x] = DiaryOf(db)[x]
  <2>1. b \notin HoldersOf(db.bookings, db.sessions, x)
    BY <1>7 DEF HoldersOf, LiveSessionsOf, slot, s
  <2>2. HoldersOf(new.bookings, new.sessions, x) = HoldersOf(db.bookings, db.sessions, x)
    BY <1>5, <1>6, <1>7, <2>1 DEF HoldersOf
  <2>3. \A y \in HoldersOf(db.bookings, db.sessions, x) :
          new.bookings[y].student = db.bookings[y].student
    BY <1>5 DEF HoldersOf
  <2> QED
    BY <2>2, <2>3 DEF DiaryOf
<1>8. CASE db.sessions[s].program = "ONE_ON_ONE"
  <2>1. slot \in SlotIds /\ s \in LiveSessionsOf(db.sessions, slot)
    BY <1>1, <1>2, <1>8, SlotOfClass DEF slot, LiveSessionsOf
  <2>2. b \in HoldersOf(db.bookings, db.sessions, slot)
    BY <2>1 DEF HoldersOf, s
  <2>3. HoldersOf(db.bookings, db.sessions, slot) = {b}
    BY <1>1, <2>1, <2>2, OneHolder
  <2>4. LiveSessionsOf(new.sessions, slot) \subseteq {s}
    <3>1. LiveSessionsOf(db.sessions, slot) = {s}
      BY <1>1, <1>2, <1>8 DEF HeldIn, ClassesHold, IsLive, slot
    <3> QED
      BY <1>4, <3>1 DEF LiveSessionsOf
  <2>5. HoldersOf(new.bookings, new.sessions, slot) = {}
    BY <1>5, <2>1, <2>3, <2>4 DEF HoldersOf
  <2>6. DiaryOf(db)[slot] = {db.bookings[b].student} /\ DiaryOf(new)[slot] = {}
    BY <2>1, <2>3, <2>5 DEF DiaryOf
  <2>7. DiaryOf(new) = [DiaryOf(db) EXCEPT ![slot] = {}]
    BY <1>7, <2>6 DEF DiaryOf
  <2> QED
    BY <1>8, <2>1, <2>6, <2>7 DEF s, slot, new
<1>9. CASE db.sessions[s].program # "ONE_ON_ONE"
  <2>1. slot \notin SlotIds
    BY <1>1, <1>9, SlotOfClass DEF slot
  <2>2. DiaryOf(new) = DiaryOf(db)
    BY <1>7, <2>1 DEF DiaryOf
  <2> QED
    BY <1>9, <2>2 DEF s, new
<1> QED
  BY <1>8, <1>9

(* Attendance changes no slot's class. *)
LEMMA AttendanceTakenKeepsDiary ==
  ASSUME NEW db, WellTyped(db), NEW s \in DOMAIN db.sessions,
         NEW marks, DOMAIN marks \subseteq DOMAIN db.bookings,
         \A b \in DOMAIN marks :
           marks[b] \in AttendanceStatuses /\ db.bookings[b].status # "CANCELLED"
  PROVE  DiaryOf(AttendanceTaken(db, s, marks)) = DiaryOf(db)
<1> DEFINE marked == MarkBookings(db, marks)
           new == AttendanceTaken(db, s, marks)
<1>1. WellTyped(marked) /\ marked.sessions = db.sessions
  BY MarkBookingsTyped
<1>2. marked.bookings = [b \in DOMAIN db.bookings |->
         IF b \in DOMAIN marks
         THEN [db.bookings[b] EXCEPT !.status = marks[b]] ELSE db.bookings[b]]
  BY DEF MarkBookings, WellTyped, IsTables
<1> HIDE DEF marked
<1>3. ASSUME NEW b \in DOMAIN db.bookings
      PROVE  /\ marked.bookings[b].session = db.bookings[b].session
             /\ marked.bookings[b].student = db.bookings[b].student
             /\ marked.bookings[b].status = "CANCELLED" <=> db.bookings[b].status = "CANCELLED"
  <2>1. CASE b \in DOMAIN marks
    <3>1. db.bookings[b] \in Booking /\ marks[b] \in BookingStatuses /\ marks[b] # "CANCELLED"
      BY <2>1 DEF WellTyped, BookingStatuses, AttendanceStatuses
    <3>2. marked.bookings[b] = [db.bookings[b] EXCEPT !.status = marks[b]]
      BY <1>2, <2>1
    <3> QED
      BY <2>1, <3>1, <3>2, BookingStatusWritten
  <2>2. CASE b \notin DOMAIN marks
    BY <1>2, <2>2
  <2> QED
    BY <2>1, <2>2
<1>4. DOMAIN marked.bookings = DOMAIN db.bookings
  BY <1>2
<1>5. LET row == [db.sessions[s] EXCEPT !.status = "COMPLETED"] IN
        row.status = "COMPLETED" /\ row.slot = db.sessions[s].slot
  BY SessionStatusWritten DEF WellTyped, SessionStatuses
<1>6. /\ new.bookings = marked.bookings
      /\ \/ new.sessions = db.sessions
         \/ /\ db.sessions[s].status # "CANCELLED"
            /\ new.sessions = [db.sessions EXCEPT ![s].status = "COMPLETED"]
  BY <1>1 DEF AttendanceTaken, CompleteClassSessionIfAttendanceMarked, CompletesClass,
              WellTyped, IsTables, marked
<1> HIDE DEF new
<1>7. /\ DOMAIN new.sessions = DOMAIN db.sessions
      /\ \A x \in DOMAIN db.sessions :
           /\ new.sessions[x].slot = db.sessions[x].slot
           /\ new.sessions[x].status = "CANCELLED" <=> db.sessions[x].status = "CANCELLED"
  BY <1>5, <1>6 DEF WellTyped
<1>8. \A slot : LiveSessionsOf(new.sessions, slot) = LiveSessionsOf(db.sessions, slot)
  BY <1>7 DEF LiveSessionsOf
<1>9. ASSUME NEW slot \in SlotIds
      PROVE  DiaryOf(new)[slot] = DiaryOf(db)[slot]
  <2>1. HoldersOf(new.bookings, new.sessions, slot) = HoldersOf(db.bookings, db.sessions, slot)
    BY <1>3, <1>4, <1>6, <1>8 DEF HoldersOf
  <2>2. \A b \in HoldersOf(db.bookings, db.sessions, slot) :
          new.bookings[b].student = db.bookings[b].student
    BY <1>3, <1>6 DEF HoldersOf
  <2> QED
    BY <2>1, <2>2 DEF DiaryOf
<1>10. DiaryOf(new) = DiaryOf(db)
  BY <1>9 DEF DiaryOf
<1> QED
  BY <1>10 DEF new

(* The steps of SlotDiary, of two diaries. *)
DiaryStep(old, new) ==
  \/ new = old
  \/ \E st \in StudentIds, slot \in SlotIds :
       old[slot] = {} /\ new = [old EXCEPT ![slot] = {st}]
  \/ \E st \in StudentIds : GivenUp(old, new, st)
  \/ \E st \in StudentIds, from, to \in SlotIds :
       /\ old[from] = {st} /\ old[to] = {}
       /\ new = [WithoutSlots(old, {from}) EXCEPT ![to] = {st}]

LEMMA StepOfDiary ==
  ASSUME DiaryStep(DiaryView, DiaryView')
  PROVE  [Diary!DiaryNext]_DiaryView
<1>1. CASE DiaryView' = DiaryView
  BY <1>1
<1>2. ASSUME NEW st \in StudentIds, NEW slot \in SlotIds,
             DiaryView[slot] = {}, DiaryView' = [DiaryView EXCEPT ![slot] = {st}]
      PROVE  Diary!DiaryNext
  <2>1. Diary!Take(st, slot)
    BY <1>2 DEF Diary!Take, DiaryView
  <2> QED
    BY <2>1 DEF Diary!DiaryNext
<1>3. ASSUME NEW st \in StudentIds, NEW given \in SUBSET SlotIds,
             \A slot \in given : DiaryView[slot] = {st},
             DiaryView' = WithoutSlots(DiaryView, given)
      PROVE  Diary!DiaryNext
  <2>1. given \subseteq Diary!HeldBy(st)
    BY <1>3 DEF Diary!HeldBy, DiaryView
  <2>2. DiaryView' = Diary!Freed(given)
    BY <1>3 DEF Diary!Freed, WithoutSlots, DiaryView
  <2>3. Diary!GiveUp(st, given)
    BY <2>1, <2>2 DEF Diary!GiveUp, DiaryView
  <2> QED
    BY <2>3 DEF Diary!DiaryNext
<1>4. ASSUME NEW st \in StudentIds, NEW from \in SlotIds, NEW to \in SlotIds,
             DiaryView[from] = {st}, DiaryView[to] = {},
             DiaryView' = [WithoutSlots(DiaryView, {from}) EXCEPT ![to] = {st}]
      PROVE  Diary!DiaryNext
  <2>1. from \in Diary!HeldBy(st)
    BY <1>4 DEF Diary!HeldBy, DiaryView
  <2>2. Diary!Freed({from}) = WithoutSlots(DiaryView, {from})
    BY DEF Diary!Freed, WithoutSlots, DiaryView
  <2>3. Diary!Move(st, from, to)
    BY <1>4, <2>1, <2>2 DEF Diary!Move, DiaryView
  <2> QED
    BY <2>3 DEF Diary!DiaryNext
<1> QED
  BY <1>1, <1>2, <1>3, <1>4 DEF DiaryStep, GivenUp

LEMMA NextDiaryStep ==
  ASSUME Held, [Next]_vars
  PROVE  DiaryStep(DiaryView, DiaryView')
<1>0. /\ ToldIn(Tables) /\ SafeIn(Tables) /\ WellTyped(Tables) /\ HeldIn(Tables)
      /\ Tables.bookings = bookings /\ Tables.sessions = sessions
      /\ \A b \in DOMAIN bookings :
           bookings[b].student \in StudentIds /\ bookings[b].session \in DOMAIN sessions
      /\ DiaryView = DiaryOf(Tables) /\ DOMAIN DiaryView = SlotIds
  BY TablesFields, DiaryOfTables
     DEF Held, Told, ToldIn, Safe, SafeIn, Typed, TypeOK, WellTyped, Booking, DiaryView
<1>1. ASSUME NEW st \in StudentIds, NEW s \in DOMAIN sessions, CreateBatchBooking(st, s)
      PROVE  DiaryStep(DiaryView, DiaryView')
  BY <1>0, <1>1, AddBookingKeepsDiary, DiaryCommitted
     DEF CreateBatchBooking, CanCreateBatchBooking, DiaryStep
<1>2. ASSUME NEW st \in StudentIds, NEW s \in DOMAIN sessions, AdminAddStudentToClass(st, s)
      PROVE  DiaryStep(DiaryView, DiaryView')
  BY <1>0, <1>2, AddBookingKeepsDiary, DiaryCommitted DEF AdminAddStudentToClass, DiaryStep
<1>3. ASSUME NEW st \in StudentIds, NEW slot \in SlotIds, CreateOneOnOneBooking(st, slot)
      PROVE  DiaryStep(DiaryView, DiaryView')
  BY <1>0, <1>3, AddOneOnOneBookingTakes, DiaryCommitted DEF CreateOneOnOneBooking, DiaryStep
<1>4. ASSUME NEW b \in DOMAIN bookings, CancelBooking(b) \/ AdminCancelBooking(b)
      PROVE  DiaryStep(DiaryView, DiaryView')
  <2>1. PICK type : /\ Commit(CancelExistingBooking(Tables, b, type))
                    /\ bookings[b].status = "BOOKED"
    BY <1>4 DEF CancelBooking, AdminCancelBooking, CanCancel
  <2>2. PICK slot, st : /\ slot = sessions[bookings[b].session].slot
                        /\ st = bookings[b].student /\ st \in StudentIds
    BY <1>0
  <2>3. \/ DiaryView' = DiaryView
        \/ /\ slot \in SlotIds /\ DiaryView[slot] = {st}
           /\ DiaryView' = [DiaryView EXCEPT ![slot] = {}]
    BY <1>0, <2>1, <2>2, CancelExistingBookingGivesUp, DiaryCommitted
  <2>4. ASSUME slot \in SlotIds, DiaryView[slot] = {st},
               DiaryView' = [DiaryView EXCEPT ![slot] = {}]
        PROVE  GivenUp(DiaryView, DiaryView', st)
    <3>1. {slot} \in SUBSET SlotIds /\ \A t \in {slot} : DiaryView[t] = {st}
      BY <2>4
    <3>2. DiaryView' = WithoutSlots(DiaryView, {slot})
      BY <1>0, <2>4 DEF WithoutSlots, DiaryView
    <3> QED
      BY <3>1, <3>2 DEF GivenUp
  <2> QED
    BY <2>2, <2>3, <2>4 DEF DiaryStep
<1>5. ASSUME NEW b \in DOMAIN bookings, NEW s \in DOMAIN sessions, NEW cutoff \in BOOLEAN,
             RescheduleBatchBooking(b, s, cutoff)
      PROVE  DiaryStep(DiaryView, DiaryView')
  <2> DEFINE db == CancelExistingBooking(Tables, b, "RESCHEDULED_FROM")
  <2>1. SafeIn(db) /\ HeldIn(db) /\ DOMAIN db.sessions = DOMAIN sessions
    BY <1>0, <1>5, CancelExistingBookingSafe, CancelExistingBookingHolds
       DEF RescheduleBatchBooking, CanCancel, CancellationEvents
  <2>2. DiaryOf(db) = DiaryView
    BY <1>0, <1>5, CancelExistingBookingGivesUp DEF RescheduleBatchBooking, CanCancel
  <2> HIDE DEF db
  <2>3. /\ CanCreateBatchBooking(db, bookings[b].student, s)
        /\ Commit(AddBooking(db, bookings[b].student, s, RescheduledTo(b)))
    BY <1>5 DEF RescheduleBatchBooking, db
  <2> QED
    BY <2>1, <2>2, <2>3, AddBookingKeepsDiary, DiaryCommitted DEF CanCreateBatchBooking, DiaryStep
<1>6. ASSUME NEW b \in DOMAIN bookings, NEW slot \in SlotIds, NEW cutoff \in BOOLEAN,
             RescheduleOneOnOneBooking(b, slot, cutoff)
      PROVE  DiaryStep(DiaryView, DiaryView')
  <2> DEFINE db == CancelExistingBooking(Tables, b, "RESCHEDULED_FROM")
  <2>1. PICK from, st : /\ from = sessions[bookings[b].session].slot
                        /\ st = bookings[b].student /\ st \in StudentIds
    BY <1>0
  <2>2. WellTyped(db)
    BY <1>0, <1>6, CancelExistingBookingSafe
       DEF RescheduleOneOnOneBooking, CanCancel, CancellationEvents, SafeIn
  <2>3. /\ from \in SlotIds /\ DiaryView[from] = {st}
        /\ DiaryOf(db) = [DiaryView EXCEPT ![from] = {}]
    BY <1>0, <1>6, <2>1, CancelExistingBookingGivesUp DEF RescheduleOneOnOneBooking, CanCancel
  <2> HIDE DEF db
  <2>4. /\ CanCreateOneOnOneBooking(db, st, slot)
        /\ Commit(AddOneOnOneBooking(db, st, slot, RescheduledTo(b)))
    BY <1>6, <2>1 DEF RescheduleOneOnOneBooking, db
  <2>5. DiaryOf(db)[slot] = {} /\ DiaryView' = [DiaryOf(db) EXCEPT ![slot] = {st}]
    BY <2>1, <2>2, <2>4, AddOneOnOneBookingTakes, DiaryCommitted
  <2>6. DiaryOf(db) = WithoutSlots(DiaryView, {from})
    BY <1>0, <2>3 DEF WithoutSlots, DiaryView
  <2>7. CASE slot = from
    <3>1. DiaryView' = DiaryView
      BY <1>0, <2>3, <2>5, <2>7 DEF DiaryView
    <3> QED
      BY <3>1 DEF DiaryStep
  <2>8. CASE slot # from
    <3>1. DiaryView[slot] = {}
      BY <1>0, <2>3, <2>5, <2>8
    <3> QED
      BY <2>1, <2>3, <2>5, <2>6, <3>1 DEF DiaryStep
  <2> QED
    BY <2>7, <2>8
<1>7. ASSUME NEW s \in DOMAIN sessions, NEW marks, DOMAIN marks \subseteq DOMAIN bookings,
             \A b \in DOMAIN marks : marks[b] \in AttendanceStatuses,
             MarkAttendance(s, marks)
      PROVE  DiaryStep(DiaryView, DiaryView')
  <2>1. \A b \in DOMAIN marks : bookings[b].status # "CANCELLED"
    BY <1>7 DEF MarkAttendance, CanMarkAttendance
  <2>2. DiaryView' = DiaryOf(AttendanceTaken(Tables, s, marks))
    BY <1>7, DiaryCommitted DEF MarkAttendance, AttendanceTaken
  <2> QED
    BY <1>0, <1>7, <2>1, <2>2, AttendanceTakenKeepsDiary DEF DiaryStep
<1>8. ASSUME NEW b \in DOMAIN bookings, NEW status \in AttendanceStatuses,
             MarkBookingAttendance(b, status)
      PROVE  DiaryStep(DiaryView, DiaryView')
  BY <1>0, <1>7, <1>8 DEF MarkBookingAttendance
<1>9. ASSUME NEW s \in DOMAIN sessions, NEW named \in (SUBSET DOMAIN bookings) \ {{}},
             NEW marks \in [named -> AttendanceStatuses], MarkClassAttendance(s, marks)
      PROVE  DiaryStep(DiaryView, DiaryView')
  BY <1>7, <1>9 DEF MarkClassAttendance
<1>10. CASE Tick \/ UNCHANGED vars
  <2>1. DiaryView' = DiaryView
    BY <1>10 DEF Tick, vars, DiaryView
  <2> QED
    BY <2>1 DEF DiaryStep
<1> QED
  BY <1>1, <1>2, <1>3, <1>4, <1>5, <1>6, <1>8, <1>9, <1>10 DEF Next

LEMMA InitDiary == Init => Diary!DiaryInit
BY DEF Init, EmptyTable, Diary!DiaryInit, HoldersOf

(* For any calendar and any requests, slots are taken, moved between and given
   up as SlotDiary says: a student who reschedules has one of the two slots at
   every moment, no administrator adds a second student to a one-on-one class,
   and a cancellation frees the slot of its own student's class and no other. *)
THEOREM SlotPromiseKept == Spec => ImplementsDiary
<1>1. Held /\ [Next]_vars => [Diary!DiaryNext]_DiaryView
  BY NextDiaryStep, StepOfDiary
<1> QED
  BY <1>1, InitDiary, InitHeld, NextHeld, PTL DEF Spec, ImplementsDiary, Diary!DiarySpec, DiaryView

=============================================================================
