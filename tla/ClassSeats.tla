----------------------------- MODULE ClassSeats -----------------------------
(***************************************************************************)
(* The booking requests on batch classes, interleaved statement by          *)
(* statement.  Every request runs in a database session of its own, in one  *)
(* READ COMMITTED transaction: a statement sees what has been committed      *)
(* before it and what its own transaction has written; SELECT ... FOR        *)
(* UPDATE waits for the row's lock and keeps it until the transaction ends;  *)
(* an exception rolls everything back.                                       *)
(*                                                                         *)
(* Who may book at all (programme, access window, membership) does not        *)
(* change here, and of the clock only which classes have started is kept.     *)
(***************************************************************************)
EXTENDS SequencesExt

CONSTANTS
  Workers,                       \* the requests being served
  StudentIds, SessionIds, BookingIds,
  Capacity,                      \* seats of each class
  DayOf,                         \* the UTC day of each class
  Kinds,                         \* the kinds of request made
  MaxMarks,                      \* bound: seats marked by one request for a class
  None

ASSUME SeatsAssumption ==
  /\ IsFiniteSet(BookingIds) /\ IsFiniteSet(Workers)
  /\ Capacity \in [SessionIds -> Nat \ {0}]
  /\ DayOf \in [SessionIds -> Nat]
  /\ SessionIds \cap BookingIds = {} /\ MaxMarks \in Nat
  /\ None \notin Workers \cup SessionIds \cup BookingIds

VARIABLES
  bookings,   \* committed rows
  sessions,   \* committed status of each class
  started,    \* the classes that have started
  locks,      \* the transaction that holds each row's lock
  txns        \* the transaction of each worker

vars == <<bookings, sessions, started, locks, txns>>

BookingStatuses == {"BOOKED", "CANCELLED", "ATTENDED"}
SessionStatuses == {"SCHEDULED", "COMPLETED", "CANCELLED"}
Booking == [student: StudentIds, session: SessionIds, status: BookingStatuses]
EmptyTable == [k \in {} |-> None]
Rows == SessionIds \cup BookingIds

-----------------------------------------------------------------------------
(* Requests. *)

(* A request is the sequence of statements its handler executes; row is the
   session or booking the statement is about. *)
Statement(op, row) == [op |-> op, row |-> row]

(* begun: the classes that have started, by the handler's one reading of the
   clock, taken as the request begins unless the request has a statement for it;
   bookings and sessions: the rows the transaction has written. *)
Request(kind, student, todo) ==
  [kind |-> kind, student |-> student, todo |-> todo,
   begun |-> started, bookings |-> EmptyTable, sessions |-> EmptyTable]

Idle ==
  [kind |-> "IDLE", student |-> None, todo |-> << >>,
   begun |-> {}, bookings |-> EmptyTable, sessions |-> EmptyTable]

(* Mutants: the class is not locked; it is locked after it has been checked. *)
TakeSeatUnlocked(s) == <<Statement("CHECK_DAY", s), Statement("TAKE_SEAT", s)>>
TakeSeatLockedLate(s) ==
  <<Statement("CHECK_DAY", s), Statement("LOCK", s), Statement("TAKE_SEAT", s)>>

TakeSeat(s) ==
  <<Statement("LOCK", s), Statement("CHECK_DAY", s), Statement("TAKE_SEAT", s)>>

(* Mutants: only the booking is locked; nothing is. *)
GiveUpSeatClassUnlocked(b) ==
  <<Statement("LOCK", b), Statement("CLOCK", bookings[b].session), Statement("CANCEL", b)>>
GiveUpSeatUnlocked(b) ==
  <<Statement("CLOCK", bookings[b].session), Statement("CANCEL", b)>>

GiveUpSeat(b) ==
  LET s == bookings[b].session IN
    <<Statement("LOCK", b), Statement("LOCK", s), Statement("CLOCK", s), Statement("CANCEL", b)>>

(* Each booking is locked, and then marked. *)
MarkSeats(bs) ==
  [i \in 1 .. 2 * Len(bs) |->
     IF i % 2 = 1 THEN Statement("LOCK", bs[(i + 1) \div 2])
     ELSE Statement("MARK", bs[i \div 2])]

Take(kind, st, s) == Request(kind, st, TakeSeat(s))

GiveUp(kind, b) == Request(kind, bookings[b].student, GiveUpSeat(b))

Reschedule(kind, b, s) ==
  Request(kind, bookings[b].student, GiveUpSeat(b) \o TakeSeat(s))

(* Mutant: the class is not locked. *)
MarkOneClassUnlocked(b) ==
  LET s == bookings[b].session IN
    Request("MARK", None,
      <<Statement("LOCK", b), Statement("CLOCK", s),
        Statement("MARK", b), Statement("COMPLETE", s)>>)

MarkOne(b) ==
  LET s == bookings[b].session IN
    Request("MARK", None,
      <<Statement("LOCK", b), Statement("LOCK", s), Statement("CLOCK", s),
        Statement("MARK", b), Statement("COMPLETE", s)>>)

(* The only handler that locks the class before the bookings. *)
MarkMany(bs) ==
  LET s == bookings[bs[1]].session IN
    Request("MARK_CLASS", None,
      <<Statement("LOCK", s), Statement("CLOCK", s)>>
        \o MarkSeats(bs) \o <<Statement("COMPLETE", s)>>)

Requests ==
  {r \in
    {Take(kind, st, s) :
       kind \in {"BOOK", "ADMIN_ADD"}, st \in StudentIds, s \in SessionIds}
    \cup {GiveUp(kind, b) : kind \in {"CANCEL", "ADMIN_CANCEL"}, b \in DOMAIN bookings}
    \cup {Reschedule(kind, b, s) :
            kind \in {"RESCHEDULE", "ADMIN_RESCHEDULE"}, b \in DOMAIN bookings, s \in SessionIds}
    \cup {MarkOne(b) : b \in DOMAIN bookings}
    \cup {MarkMany(bs) :
            bs \in UNION {SetToSeqs(marked) :
                            marked \in UNION {kSubset(n, DOMAIN bookings) : n \in 1 .. MaxMarks}}} :
   r.kind \in Kinds}

-----------------------------------------------------------------------------
(* Transactions. *)

Overlay(written, table) ==
  [k \in DOMAIN table \cup DOMAIN written |->
     IF k \in DOMAIN written THEN written[k] ELSE table[k]]

(* The tables as the statements of worker w see them. *)
BookingsSeen(w) == Overlay(txns[w].bookings, bookings)
SessionsSeen(w) == Overlay(txns[w].sessions, sessions)

Busy(w) == txns[w].kind # "IDLE"
Running(w, op) == txns[w].todo # << >> /\ Head(txns[w].todo).op = op
Row(w) == Head(txns[w].todo).row

(* The statement is done; the transaction has written a booking, a class. *)
Done(w, txn) == txns' = [txns EXCEPT ![w] = [txn EXCEPT !.todo = Tail(@)]]
WriteBooking(txn, b, row) == [txn EXCEPT !.bookings = Overlay([k \in {b} |-> row], @)]
WriteSession(txn, s, status) == [txn EXCEPT !.sessions = Overlay([k \in {s} |-> status], @)]

(* The transaction ends and its locks are released. *)
End(w) ==
  /\ txns' = [txns EXCEPT ![w] = Idle]
  /\ locks' = [r \in Rows |-> IF locks[r] = w THEN None ELSE locks[r]]

(* Mutant: the answer is sent and the session is not closed. *)
RollbackSessionLeftOpen(w) ==
  /\ txns' = [txns EXCEPT ![w] = Idle]
  /\ UNCHANGED <<bookings, sessions, started, locks>>

Rollback(w) == End(w) /\ UNCHANGED <<bookings, sessions, started>>

-----------------------------------------------------------------------------
(* Queries. *)

ActiveBookingsOf(bks, s) ==
  {b \in DOMAIN bks : bks[b].session = s /\ bks[b].status # "CANCELLED"}

BookedBookingsOf(bks, s) ==
  {b \in DOMAIN bks : bks[b].session = s /\ bks[b].status = "BOOKED"}

ActiveClassesOf(bks, ses, st) ==
  {b \in DOMAIN bks :
     /\ bks[b].student = st
     /\ bks[b].status # "CANCELLED"
     /\ ses[bks[b].session] # "CANCELLED"}

NoActiveClassOnDay(w, st, s) ==
  \A b \in ActiveClassesOf(BookingsSeen(w), SessionsSeen(w), st) :
    DayOf[BookingsSeen(w)[b].session] # DayOf[s]

CapacityAvailable(w, s) ==
  Cardinality(ActiveBookingsOf(BookingsSeen(w), s)) < Capacity[s]

KeysInUse == DOMAIN bookings \cup UNION {DOMAIN txns[w].bookings : w \in Workers}

-----------------------------------------------------------------------------
(* The checks a handler makes before a statement; one that fails raises. *)

MayTakeClass(w) ==
  /\ SessionsSeen(w)[Row(w)] = "SCHEDULED"
  /\ txns[w].kind # "ADMIN_ADD" => Row(w) \notin txns[w].begun
  /\ NoActiveClassOnDay(w, txns[w].student, Row(w))

MayTakeSeat(w) == CapacityAvailable(w, Row(w)) /\ BookingIds \ KeysInUse # {}

(* The 24 hours a student must keep are taken to reach to the class's start. *)
MayCancel(w) ==
  LET booking == BookingsSeen(w)[Row(w)] IN
    /\ booking.status = "BOOKED"
    /\ txns[w].kind \in {"CANCEL", "RESCHEDULE"} => booking.session \notin txns[w].begun

(* The class whose attendance a request takes. *)
ClassMarked(w) == txns[w].todo[Len(txns[w].todo)].row

MayMark(w) ==
  LET booking == BookingsSeen(w)[Row(w)] IN
    /\ booking.session = ClassMarked(w)
    /\ booking.status # "CANCELLED"
    /\ SessionsSeen(w)[booking.session] # "CANCELLED"
    /\ booking.session \in txns[w].begun

Accepted(w) ==
  \/ \E op \in {"LOCK", "CLOCK", "COMPLETE"} : Running(w, op)
  \/ Running(w, "CHECK_DAY") /\ MayTakeClass(w)
  \/ Running(w, "TAKE_SEAT") /\ MayTakeSeat(w)
  \/ Running(w, "CANCEL") /\ MayCancel(w)
  \/ Running(w, "MARK") /\ MayMark(w)

-----------------------------------------------------------------------------
(* Statements. *)

Begin(w) ==
  /\ ~Busy(w)
  /\ \E request \in Requests : txns' = [txns EXCEPT ![w] = request]
  /\ UNCHANGED <<bookings, sessions, started, locks>>

(* SELECT ... FOR UPDATE. *)
Lock(w) ==
  /\ Running(w, "LOCK")
  /\ locks[Row(w)] \in {None, w}
  /\ locks' = [locks EXCEPT ![Row(w)] = w]
  /\ Done(w, txns[w])
  /\ UNCHANGED <<bookings, sessions, started>>

ReadClock(w) ==
  /\ Running(w, "CLOCK")
  /\ Done(w, [txns[w] EXCEPT !.begun = started])
  /\ UNCHANGED <<bookings, sessions, started, locks>>

CheckDay(w) ==
  /\ Running(w, "CHECK_DAY") /\ Accepted(w)
  /\ Done(w, txns[w])
  /\ UNCHANGED <<bookings, sessions, started, locks>>

InsertBooking(w) ==
  /\ Running(w, "TAKE_SEAT") /\ Accepted(w)
  /\ Done(w, WriteBooking(txns[w], CHOOSE b \in BookingIds : b \notin KeysInUse,
        [student |-> txns[w].student, session |-> Row(w), status |-> "BOOKED"]))
  /\ UNCHANGED <<bookings, sessions, started, locks>>

(* A class nobody is booked into any more is cancelled with the last booking. *)
CancelBooking(w) ==
  LET b == Row(w)
      s == bookings[b].session
      txn == WriteBooking(txns[w], b, [BookingsSeen(w)[b] EXCEPT !.status = "CANCELLED"])
      empty == BookedBookingsOf(BookingsSeen(w), s) \subseteq {b}
  IN /\ Running(w, "CANCEL") /\ Accepted(w)
     /\ Done(w, IF empty /\ SessionsSeen(w)[s] = "SCHEDULED"
                THEN WriteSession(txn, s, "CANCELLED") ELSE txn)
     /\ UNCHANGED <<bookings, sessions, started, locks>>

MarkBooking(w) ==
  /\ Running(w, "MARK") /\ Accepted(w)
  /\ Done(w, WriteBooking(txns[w], Row(w),
        [BookingsSeen(w)[Row(w)] EXCEPT !.status = "ATTENDED"]))
  /\ UNCHANGED <<bookings, sessions, started, locks>>

CompleteClass(w) ==
  LET s == Row(w)
      taken == /\ SessionsSeen(w)[s] # "CANCELLED"
               /\ ActiveBookingsOf(BookingsSeen(w), s) # {}
               /\ BookedBookingsOf(BookingsSeen(w), s) = {}
  IN /\ Running(w, "COMPLETE")
     /\ Done(w, IF taken THEN WriteSession(txns[w], s, "COMPLETED") ELSE txns[w])
     /\ UNCHANGED <<bookings, sessions, started, locks>>

Commit(w) ==
  /\ Busy(w) /\ txns[w].todo = << >>
  /\ bookings' = BookingsSeen(w)
  /\ sessions' = SessionsSeen(w)
  /\ End(w)
  /\ UNCHANGED started

(* A check raises: the error handler answers and the session is closed. *)
Refuse(w) == txns[w].todo # << >> /\ ~Accepted(w) /\ Rollback(w)

(* The connection is lost before the commit. *)
LoseConnection(w) == Busy(w) /\ Rollback(w)

(* Every transaction of the set waits for a row another one of it holds: the
   database aborts one of them. *)
Deadlocked(set) ==
  \A w \in set :
    Running(w, "LOCK") /\ locks[Row(w)] \in set \ {w}

AbortDeadlocked(w) ==
  /\ \E set \in SUBSET Workers : w \in set /\ Deadlocked(set)
  /\ Rollback(w)

(* A class starts, not before those of earlier days. *)
Start(s) ==
  /\ s \notin started /\ {c \in SessionIds : DayOf[c] < DayOf[s]} \subseteq started
  /\ started' = started \cup {s}
  /\ UNCHANGED <<bookings, sessions, locks, txns>>

-----------------------------------------------------------------------------

Init ==
  /\ bookings = EmptyTable
  /\ sessions = [s \in SessionIds |-> "SCHEDULED"]
  /\ started = {}
  /\ locks = [r \in Rows |-> None]
  /\ txns = [w \in Workers |-> Idle]

Execute(w) ==
  \/ Lock(w) \/ ReadClock(w) \/ CheckDay(w) \/ InsertBooking(w) \/ CancelBooking(w)
  \/ MarkBooking(w) \/ CompleteClass(w) \/ Commit(w) \/ Refuse(w)

Next ==
  \/ \E w \in Workers :
       Begin(w) \/ Execute(w) \/ LoseConnection(w) \/ AbortDeadlocked(w)
  \/ \E s \in SessionIds : Start(s)

(* Clients may stop making requests, but the server executes what it has begun;
   a row's lock is granted in the order it was asked for, so a transaction that
   waits for one gets it when others keep releasing it; the database looks for
   deadlocks until it has broken them. *)
Fairness ==
  \A w \in Workers :
    SF_vars(Execute(w)) /\ WF_vars(AbortDeadlocked(w))

Spec == Init /\ [][Next]_vars
FairSpec == Spec /\ Fairness

-----------------------------------------------------------------------------
(* Properties. *)

(* Concurrent requests never overbook a class: the seats are counted under the
   lock of the class, and a committed count cannot be stale. *)
CapacityRespected ==
  \A s \in SessionIds : Cardinality(ActiveBookingsOf(bookings, s)) <= Capacity[s]

(* No interleaving of bookings with the cancellation of the last booking leaves
   somebody booked into a cancelled class. *)
CancelledClassHasNobodyBooked ==
  \A s \in SessionIds :
    sessions[s] = "CANCELLED" => BookedBookingsOf(bookings, s) = {}

(* Two requests that each mark the last seat but one still complete the class,
   and a class is not completed while one of them adds a seat. *)
CompletedWhenAttendanceTaken ==
  \A s \in SessionIds :
    LET active == ActiveBookingsOf(bookings, s)
        unmarked == BookedBookingsOf(bookings, s)
    IN /\ sessions[s] = "COMPLETED" => active # {} /\ unmarked = {}
       /\ sessions[s] = "SCHEDULED" => active = {} \/ unmarked # {}

(* No commit loses what another transaction has committed: a cancelled seat
   stays cancelled, a marked one stays marked, a class that is over stays so. *)
NoLostUpdate ==
  [][/\ \A b \in DOMAIN bookings :
          bookings[b].status # "BOOKED" => bookings'[b] = bookings[b]
     /\ \A s \in SessionIds :
          sessions[s] # "SCHEDULED" => sessions'[s] = sessions[s]]_vars

(* Each transaction, however it is interleaved, has the effect of one step of
   the roster at its commit, or none. *)
Roster ==
  INSTANCE ClassRoster WITH
    Students <- StudentIds, Classes <- SessionIds,
    roster <- [s \in SessionIds |->
                 [seats |-> {bookings[b].student : b \in ActiveBookingsOf(bookings, s)},
                  capacity |-> Capacity[s],
                  phase |-> sessions[s]]]

ImplementsRoster == Roster!RosterSpec

(* Every request ends, answered or aborted: handlers that take the locks of a
   class and its bookings in different orders cannot block each other for good. *)
RequestsFinish == \A w \in Workers : Busy(w) ~> ~Busy(w)

(* What the message "Student already has an active class on this day" says. *)
OneActiveClassPerDay ==
  \A st \in StudentIds :
    \A b1, b2 \in ActiveClassesOf(bookings, sessions, st) :
      DayOf[bookings[b1].session] = DayOf[bookings[b2].session] => b1 = b2

=============================================================================
