------------------------------- MODULE Schema -------------------------------
(***************************************************************************)
(* The tables the services of the CP Hub backend share, and the queries    *)
(* several of them make.  A table is a function from the primary keys of   *)
(* its rows to the rows; rows of these tables are inserted and updated,     *)
(* never deleted ("delete" and "void" change a status).                     *)
(*                                                                         *)
(* A request runs in one database session and one transaction, so what a   *)
(* handler does before its commit is a function of the tables: handlers     *)
(* are written as updates of a record of tables, and Commit stores the      *)
(* result.  A failed check raises, the transaction is rolled back, and no   *)
(* step is taken.                                                          *)
(*                                                                         *)
(* Time is counted in hours, the unit of every limit in the code.          *)
(***************************************************************************)
EXTENDS Integers, FiniteSets, Sequences

CONSTANTS
  StudentIds, GroupIds, SlotIds, SessionIds, BookingIds,  \* primary keys
  Instants,                                               \* the clock's values
  None                                                    \* SQL null

ASSUME InstantsAssumption == Instants \subseteq Nat
ASSUME KeysAssumption ==
  /\ IsFiniteSet(BookingIds)
  /\ None \notin GroupIds \cup SlotIds \cup BookingIds

VARIABLES
  now,          \* utc_now()
  students,     \* program, status and access window
  memberships,  \* the batch group of a student's active membership row, or None
  slots,        \* teacher availability slots
  sessions,     \* class sessions
  bookings,     \* the bookings
  events        \* the audit trail of each booking, oldest event first

-----------------------------------------------------------------------------
(* Rows. *)

ProgramTypes == {"ONE_ON_ONE", "BATCH"}
SlotStatuses == {"AVAILABLE", "BOOKED", "CANCELLED", "BLOCKED"}
SessionStatuses == {"SCHEDULED", "COMPLETED", "CANCELLED"}
AttendanceStatuses == {"ATTENDED", "MISSED"}
BookingStatuses == {"BOOKED", "CANCELLED"} \cup AttendanceStatuses
CancellationEvents == {"CANCELLED_BY_STUDENT", "CANCELLED_BY_ADMIN", "RESCHEDULED_FROM"}
CreationEvents == {"BOOKED", "RESCHEDULED_TO", "MANUALLY_ADDED_BY_ADMIN"}
EventTypes ==
  CancellationEvents \cup CreationEvents
    \cup {"CLASS_CANCELLED_EMPTY", "ATTENDANCE_MARKED"}

(* active: status = ACTIVE.  An access window that is null is an empty one:
   the code refuses both with the same error. *)
Student ==
  [program: ProgramTypes, active: BOOLEAN, accessStartsAt: Nat, accessEndsAt: Nat]

Slot == [startsAt: Nat, status: SlotStatuses]

(* The check constraint ck_class_sessions_program_shape. *)
OneOnOneSession ==
  [program: {"ONE_ON_ONE"}, slot: SlotIds, group: {None}, startsAt: Nat,
   status: SessionStatuses, capacity: {1}]
BatchSession ==
  [program: {"BATCH"}, slot: {None}, group: GroupIds, startsAt: Nat,
   status: SessionStatuses, capacity: Nat \ {0}]
Session == OneOnOneSession \cup BatchSession

Booking == [student: StudentIds, session: SessionIds, status: BookingStatuses]

(* old and new: the statuses an attendance event records; from: the booking
   that a rescheduled one replaces. *)
BookingEvent ==
  [type: EventTypes,
   old: BookingStatuses \cup {None}, new: BookingStatuses \cup {None},
   from: BookingIds \cup {None}]

TypeOK ==
  /\ now \in Instants
  /\ students \in [StudentIds -> Student]
  /\ memberships \in [StudentIds -> GroupIds \cup {None}]
  /\ slots \in [SlotIds -> Slot]
  /\ DOMAIN sessions \subseteq SessionIds
  /\ sessions \in [DOMAIN sessions -> Session]
  /\ DOMAIN bookings \subseteq BookingIds
  /\ bookings \in [DOMAIN bookings -> Booking]
  /\ events \in [DOMAIN bookings -> Seq(BookingEvent)]

-----------------------------------------------------------------------------
(* Reading and writing tables. *)

DAY == 24
Day(t) == t \div DAY

(* A uuid4 key is new and carries no order: which free key is taken is
   irrelevant. *)
NewKey(keys, table) == CHOOSE k \in keys : k \notin DOMAIN table
HasNewKey(keys, table) == \E k \in keys : k \notin DOMAIN table

EmptyTable == [k \in {} |-> None]

Insert(table, key, row) ==
  [k \in DOMAIN table \cup {key} |-> IF k = key THEN row ELSE table[k]]

(* The tables a booking request writes, as its transaction sees them. *)
Tables ==
  [bookings |-> bookings, sessions |-> sessions, slots |-> slots, events |-> events]

Commit(db) ==
  /\ bookings' = db.bookings
  /\ sessions' = db.sessions
  /\ slots' = db.slots
  /\ events' = db.events

Event(type) == [type |-> type, old |-> None, new |-> None, from |-> None]

-----------------------------------------------------------------------------
(* Queries. *)

ActiveBookingsOf(bks, s) ==
  {b \in DOMAIN bks : bks[b].session = s /\ bks[b].status # "CANCELLED"}

BookedBookingsOf(bks, s) ==
  {b \in DOMAIN bks : bks[b].session = s /\ bks[b].status = "BOOKED"}

(* The bookings that put student st in a class that has not been cancelled. *)
ActiveClassesOf(bks, ses, st) ==
  {b \in DOMAIN bks :
     /\ bks[b].student = st
     /\ bks[b].status # "CANCELLED"
     /\ ses[bks[b].session].status # "CANCELLED"}

LiveSessionsOf(ses, slot) ==
  {s \in DOMAIN ses : ses[s].slot = slot /\ ses[s].status # "CANCELLED"}

=============================================================================
