----------------------------- MODULE SlotSeats -----------------------------
(***************************************************************************)
(* The requests about a teacher's slot, interleaved: students book, cancel     *)
(* and reschedule one-on-one classes, attendance is taken, an administrator    *)
(* edits or deletes the slot, and a student is switched to another program.   *)
(*                                                                         *)
(* As in ClassSeats every request is one READ COMMITTED transaction.  Its      *)
(* rows are written to the session first and flushed later: an UPDATE waits     *)
(* for the row's lock, and overwrites the columns the session has changed      *)
(* whatever the row holds by then.  The order in which a flush takes the rows   *)
(* is SQLAlchemy's, and is left open.  Who may book at all, apart from the      *)
(* program, does not change here; of the clock only which slots have started   *)
(* is kept, and the 24 hours a student must keep reach to the start.            *)
(***************************************************************************)
EXTENDS Integers, FiniteSets

CONSTANTS
  Workers,                        \* the requests being served
  StudentIds, SlotIds, BookingIds,
  DayOf,                          \* the UTC day of each slot
  Kinds,                          \* the kinds of request made
  None

ASSUME SlotSeatsAssumption ==
  /\ IsFiniteSet(Workers) /\ IsFiniteSet(BookingIds)
  /\ DayOf \in [SlotIds -> Nat]
  /\ None \notin Workers \cup StudentIds \cup SlotIds \cup BookingIds

VARIABLES
  db,        \* the committed rows
  started,   \* the slots that have started
  locks,     \* the transaction that holds each row's lock
  txns       \* the transaction of each worker

vars == <<db, started, locks, txns>>

(* A class is inserted with its only booking, and has its key. *)
StudentRow(st) == <<"student", st>>
SlotRow(t) == <<"slot", t>>
BookingRow(b) == <<"booking", b>>
ClassRow(b) == <<"class", b>>
Rows ==
  {StudentRow(st) : st \in StudentIds} \cup {SlotRow(t) : t \in SlotIds}
    \cup {BookingRow(b) : b \in BookingIds} \cup {ClassRow(b) : b \in BookingIds}

Programs == {"ONE_ON_ONE", "BATCH"}

(* The code has one status for a booked slot.  Here the row also tells whether it
   was an administrator's edit that wrote it last. *)
TakenStatuses == {"BOOKED", "BOOKED_BY_HAND"}
SlotStatuses == {"AVAILABLE", "CANCELLED"} \cup TakenStatuses

Booking == [student: StudentIds, status: {"BOOKED", "CANCELLED", "ATTENDED"}]
Class == [slot: SlotIds, status: {"SCHEDULED", "COMPLETED", "CANCELLED"}]

EmptyTable == [k \in {} |-> None]
OneRow(r, row) == [k \in {r} |-> row]
BookingAndClass(b, booking, class) ==
  [k \in {BookingRow(b), ClassRow(b)} |-> IF k = BookingRow(b) THEN booking ELSE class]

(* The rows of a table, under the ones written since. *)
Overlay(written, rows) ==
  [r \in DOMAIN rows \cup DOMAIN written |->
     IF r \in DOMAIN written THEN written[r] ELSE rows[r]]

-----------------------------------------------------------------------------
(* Transactions. *)

(* stage: what the handler does next; begun: the slots that have started, by its
   one reading of the clock; todo: the bookings a switch has still to cancel;
   writes: the rows the session has changed or inserted. *)
Idle ==
  [kind |-> "NONE", stage |-> "IDLE", student |-> None, slot |-> None, booking |-> None,
   begun |-> {}, todo |-> {}, writes |-> EmptyTable]

Request(kind, stage) == [Idle EXCEPT !.kind = kind, !.stage = stage]

Begin(w, request) ==
  /\ txns[w].stage = "IDLE"
  /\ request.kind \in Kinds
  /\ txns' = [txns EXCEPT ![w] = request]
  /\ UNCHANGED <<db, started, locks>>

(* The rows as the session of worker w has them. *)
Seen(w) == Overlay(txns[w].writes, db)

(* The changed rows whose UPDATE has not been sent. *)
Unflushed(w) == {r \in DOMAIN txns[w].writes \cap DOMAIN db : locks[r] # w}
Flushed(w) == Unflushed(w) = {}

(* The next statement, a query or the commit, sends the UPDATEs first. *)
FlushStages == {"STUDENT", "FIND", "GIVE_BACK", "COMMIT"}

KeysInUse ==
  {b \in BookingIds :
     BookingRow(b) \in DOMAIN db \cup UNION {DOMAIN txns[w].writes : w \in Workers}}

Goes(w, stage, writes) ==
  txns' = [txns EXCEPT ![w].stage = stage, ![w].writes = Overlay(writes, @)]

(* The handler commits, and has no use for what it has read any more. *)
GoesToCommit(w, writes) ==
  txns' = [txns EXCEPT ![w] =
             [Request(txns[w].kind, "COMMIT") EXCEPT !.writes = Overlay(writes, txns[w].writes)]]

Takes(w, r) ==
  /\ locks[r] \in {None, w}
  /\ locks' = [locks EXCEPT ![r] = w]

End(w) ==
  /\ txns' = [txns EXCEPT ![w] = Idle]
  /\ locks' = [r \in Rows |-> IF locks[r] = w THEN None ELSE locks[r]]

Rollback(w) == End(w) /\ UNCHANGED <<db, started>>

-----------------------------------------------------------------------------
(* Queries, over the rows a session sees. *)

BookingsOf(rows) == {b \in BookingIds : BookingRow(b) \in DOMAIN rows}

LiveClassesOf(rows, t) ==
  {b \in BookingsOf(rows) : rows[ClassRow(b)].slot = t /\ rows[ClassRow(b)].status # "CANCELLED"}

NoActiveClassOnDay(rows, st, day) ==
  \A b \in BookingsOf(rows) :
    /\ rows[BookingRow(b)].student = st
    /\ rows[BookingRow(b)].status # "CANCELLED"
    /\ rows[ClassRow(b)].status # "CANCELLED"
    => DayOf[rows[ClassRow(b)].slot] # day

(* Mutant: the slot's status is taken to tell. *)
NoClassAsked(rows, t) == TRUE

NoActiveSessionForSlot(rows, t) == LiveClassesOf(rows, t) = {}

-----------------------------------------------------------------------------
(* Booking, cancelling, rescheduling and attendance. *)

BeginBooking(w) ==
  \E st \in StudentIds, t \in SlotIds :
    Begin(w, [Request("BOOK", "STUDENT") EXCEPT !.student = st, !.slot = t, !.begun = started])

BeginChange(w) ==
  \E b \in BookingsOf(db), kind \in {"CANCEL", "ADMIN_CANCEL", "MARK"} :
    Begin(w, [Request(kind, "BOOKING") EXCEPT !.booking = b])

BeginRescheduling(w) ==
  \E b \in BookingsOf(db), t \in SlotIds, kind \in {"RESCHEDULE", "ADMIN_RESCHEDULE"} :
    Begin(w, [Request(kind, "BOOKING") EXCEPT
                !.booking = b, !.student = db[BookingRow(b)].student, !.slot = t])

(* Reading the student flushes what a rescheduling has cancelled. *)
CheckStudent(w) ==
  /\ txns[w].stage = "STUDENT" /\ Flushed(w)
  /\ db[StudentRow(txns[w].student)] = "ONE_ON_ONE"
  /\ Goes(w, "SLOT", EmptyTable)
  /\ UNCHANGED <<db, started, locks>>

(* Mutant: the slot is read without a lock. *)
LockSlotUnlocked(w) ==
  /\ txns[w].stage = "SLOT"
  /\ Goes(w, "INSERT", EmptyTable)
  /\ UNCHANGED <<db, started, locks>>

LockSlot(w) ==
  /\ txns[w].stage = "SLOT"
  /\ Takes(w, SlotRow(txns[w].slot))
  /\ Goes(w, "INSERT", EmptyTable)
  /\ UNCHANGED <<db, started>>

MayBook(w) ==
  LET t == txns[w].slot IN
    /\ Seen(w)[SlotRow(t)] = "AVAILABLE"
    /\ t \notin txns[w].begun
    /\ NoActiveClassOnDay(Seen(w), txns[w].student, DayOf[t])
    /\ NoActiveSessionForSlot(Seen(w), t)

InsertBooking(w) ==
  LET b == CHOOSE x \in BookingIds : x \notin KeysInUse IN
    /\ txns[w].stage = "INSERT" /\ MayBook(w)
    /\ BookingIds \ KeysInUse # {}
    /\ GoesToCommit(w, Overlay(
         BookingAndClass(b, [student |-> txns[w].student, status |-> "BOOKED"],
                            [slot |-> txns[w].slot, status |-> "SCHEDULED"]),
         OneRow(SlotRow(txns[w].slot), "BOOKED")))
    /\ UNCHANGED <<db, started, locks>>

(* Mutant: attendance reads the booking without a lock. *)
LockBookingUnlessMarking(w) ==
  /\ txns[w].stage = "BOOKING"
  /\ IF txns[w].kind = "MARK" THEN UNCHANGED locks ELSE Takes(w, BookingRow(txns[w].booking))
  /\ Goes(w, "CLASS", EmptyTable)
  /\ UNCHANGED <<db, started>>

LockBooking(w) ==
  /\ txns[w].stage = "BOOKING"
  /\ Takes(w, BookingRow(txns[w].booking))
  /\ Goes(w, "CLASS", EmptyTable)
  /\ UNCHANGED <<db, started>>

(* With both locks the handler reads the clock. *)
LockClass(w) ==
  /\ txns[w].stage = "CLASS"
  /\ Takes(w, ClassRow(txns[w].booking))
  /\ txns' = [txns EXCEPT ![w].stage = "CHANGE", ![w].begun = started]
  /\ UNCHANGED <<db, started>>

BookingSeen(w) == db[BookingRow(txns[w].booking)]
ClassSeen(w) == db[ClassRow(txns[w].booking)]

MayCancel(w) ==
  /\ BookingSeen(w).status = "BOOKED"
  /\ txns[w].kind \in {"CANCEL", "RESCHEDULE"} => ClassSeen(w).slot \notin txns[w].begun

CancelledClass(w) ==
  IF ClassSeen(w).status = "SCHEDULED"
  THEN [ClassSeen(w) EXCEPT !.status = "CANCELLED"] ELSE ClassSeen(w)

CancelBooking(w) ==
  /\ txns[w].stage = "CHANGE" /\ txns[w].kind # "MARK" /\ MayCancel(w)
  /\ Goes(w, "RELEASE",
       BookingAndClass(txns[w].booking, [BookingSeen(w) EXCEPT !.status = "CANCELLED"],
                                        CancelledClass(w)))
  /\ UNCHANGED <<db, started, locks>>

(* The slot a cancelled class gives back, if it still is booked; it is read
   without a lock. *)
GivenBack(t) ==
  IF db[SlotRow(t)] \in TakenStatuses THEN OneRow(SlotRow(t), "AVAILABLE") ELSE EmptyTable

Rescheduling(w) == txns[w].kind \in {"RESCHEDULE", "ADMIN_RESCHEDULE"}

(* Mutant: the comparison of the start with the clock is turned round. *)
SlotReleasedIfStarted(w) ==
  IF ClassSeen(w).slot \in txns[w].begun THEN GivenBack(ClassSeen(w).slot) ELSE EmptyTable

SlotReleased(w) ==
  IF ClassSeen(w).slot \in txns[w].begun THEN EmptyTable ELSE GivenBack(ClassSeen(w).slot)

ReleaseSlot(w) ==
  /\ txns[w].stage = "RELEASE"
  /\ IF Rescheduling(w) THEN Goes(w, "STUDENT", SlotReleased(w))
     ELSE GoesToCommit(w, SlotReleased(w))
  /\ UNCHANGED <<db, started, locks>>

MayMark(w) ==
  /\ BookingSeen(w).status # "CANCELLED" /\ ClassSeen(w).status # "CANCELLED"
  /\ ClassSeen(w).slot \in txns[w].begun

MarkAttendance(w) ==
  /\ txns[w].stage = "CHANGE" /\ txns[w].kind = "MARK" /\ MayMark(w)
  /\ GoesToCommit(w,
       BookingAndClass(txns[w].booking, [BookingSeen(w) EXCEPT !.status = "ATTENDED"],
                                        [ClassSeen(w) EXCEPT !.status = "COMPLETED"]))
  /\ UNCHANGED <<db, started, locks>>

-----------------------------------------------------------------------------
(* Switching a student's program, and administrating a slot. *)

BeginSwitch(w) ==
  \E st \in StudentIds, program \in Programs :
    /\ program # db[StudentRow(st)]
    /\ Begin(w, [Request("SWITCH", "FIND") EXCEPT
                   !.student = st, !.begun = started, !.writes = OneRow(StudentRow(st), program)])

(* The student's coming bookings are read, after a flush, without locks. *)
FindFutureBookings(w) ==
  /\ txns[w].stage = "FIND" /\ Flushed(w)
  /\ txns' = [txns EXCEPT ![w].stage = "WITHDRAW", ![w].todo =
       {b \in BookingsOf(db) :
          /\ db[BookingRow(b)] = [student |-> txns[w].student, status |-> "BOOKED"]
          /\ db[ClassRow(b)].slot \notin txns[w].begun}]
  /\ UNCHANGED <<db, started, locks>>

(* Mutant: the class is left to itself. *)
WithdrawBookingOnly(w) ==
  \E b \in txns[w].todo :
    /\ txns[w].stage = "WITHDRAW"
    /\ txns' = [txns EXCEPT ![w].stage = "GIVE_BACK", ![w].booking = b, ![w].writes =
         Overlay(OneRow(BookingRow(b), [db[BookingRow(b)] EXCEPT !.status = "CANCELLED"]), @)]
    /\ UNCHANGED <<db, started, locks>>

WithdrawBooking(w) ==
  \E b \in txns[w].todo :
    /\ txns[w].stage = "WITHDRAW"
    /\ txns' = [txns EXCEPT ![w].stage = "GIVE_BACK", ![w].booking = b, ![w].writes =
         Overlay(BookingAndClass(b, [db[BookingRow(b)] EXCEPT !.status = "CANCELLED"],
                                    [db[ClassRow(b)] EXCEPT !.status = "CANCELLED"]), @)]
    /\ UNCHANGED <<db, started, locks>>

(* Reading the slot flushes the booking and the class. *)
GiveSlotBack(w) ==
  LET b == txns[w].booking IN
    /\ txns[w].stage = "GIVE_BACK" /\ Flushed(w)
    /\ txns' = [txns EXCEPT ![w].stage = "WITHDRAW", ![w].todo = @ \ {b},
                   ![w].writes = Overlay(GivenBack(db[ClassRow(b)].slot), @)]
    /\ UNCHANGED <<db, started, locks>>

AllWithdrawn(w) ==
  /\ txns[w].stage = "WITHDRAW" /\ txns[w].todo = {}
  /\ GoesToCommit(w, EmptyTable)
  /\ UNCHANGED <<db, started, locks>>

(* An edit may set any status, BOOKED among them: one that blocks a slot is for
   bookings as one that cancels it.  The slot is read without a lock, and one that
   is booked is refused. *)
ChangeSlot(w) ==
  \E t \in SlotIds, kind \in {"UPDATE_SLOT", "DELETE_SLOT"}, status \in SlotStatuses \ {"BOOKED"} :
    /\ kind = "DELETE_SLOT" => status = "CANCELLED"
    /\ db[SlotRow(t)] \notin TakenStatuses \cup {status}
    /\ Begin(w, [Request(kind, "COMMIT") EXCEPT !.writes = OneRow(SlotRow(t), status)])

-----------------------------------------------------------------------------
(* The ends of a transaction. *)

FlushRow(w) ==
  /\ txns[w].stage \in FlushStages
  /\ \E r \in Unflushed(w) : Takes(w, r)
  /\ UNCHANGED <<db, started, txns>>

Commit(w) ==
  /\ txns[w].stage = "COMMIT" /\ Flushed(w)
  /\ db' = Seen(w)
  /\ End(w)
  /\ UNCHANGED started

(* A check raises. *)
Refuse(w) ==
  /\ \/ /\ txns[w].stage = "STUDENT"
        /\ db[StudentRow(txns[w].student)] # "ONE_ON_ONE"
     \/ txns[w].stage = "INSERT" /\ (~MayBook(w) \/ BookingIds \ KeysInUse = {})
     \/ /\ txns[w].stage = "CHANGE"
        /\ IF txns[w].kind = "MARK" THEN ~MayMark(w) ELSE ~MayCancel(w)
  /\ Rollback(w)

LoseConnection(w) == txns[w].stage # "IDLE" /\ Rollback(w)

(* The rows whose lock a transaction needs for its next statement. *)
Wanted(w) ==
  IF txns[w].stage = "SLOT" THEN {SlotRow(txns[w].slot)}
  ELSE IF txns[w].stage = "BOOKING" THEN {BookingRow(txns[w].booking)}
  ELSE IF txns[w].stage = "CLASS" THEN {ClassRow(txns[w].booking)}
  ELSE IF txns[w].stage \in FlushStages THEN Unflushed(w)
  ELSE {}

Deadlocked(set) ==
  \A w \in set : Wanted(w) # {} /\ \A r \in Wanted(w) : locks[r] \in set \ {w}

AbortDeadlocked(w) ==
  /\ \E set \in SUBSET Workers : w \in set /\ Deadlocked(set)
  /\ Rollback(w)

StartSlot ==
  /\ \E t \in SlotIds \ started : started' = started \cup {t}
  /\ UNCHANGED <<db, locks, txns>>

-----------------------------------------------------------------------------

Init ==
  /\ db = Overlay([r \in {StudentRow(st) : st \in StudentIds} |-> "ONE_ON_ONE"],
                  [r \in {SlotRow(t) : t \in SlotIds} |-> "AVAILABLE"])
  /\ started = {}
  /\ locks = [r \in Rows |-> None]
  /\ txns = [w \in Workers |-> Idle]

Execute(w) ==
  \/ CheckStudent(w) \/ LockSlot(w) \/ InsertBooking(w)
  \/ LockBooking(w) \/ LockClass(w) \/ CancelBooking(w) \/ ReleaseSlot(w) \/ MarkAttendance(w)
  \/ FindFutureBookings(w) \/ WithdrawBooking(w) \/ GiveSlotBack(w) \/ AllWithdrawn(w)
  \/ FlushRow(w) \/ Commit(w) \/ Refuse(w)

Next ==
  \/ \E w \in Workers :
       \/ BeginBooking(w) \/ BeginChange(w) \/ BeginRescheduling(w) \/ BeginSwitch(w) \/ ChangeSlot(w)
       \/ Execute(w) \/ LoseConnection(w) \/ AbortDeadlocked(w)
  \/ StartSlot

Spec == Init /\ [][Next]_vars

-----------------------------------------------------------------------------
(* Properties. *)

(* Of the requests that find a slot available one gets it: no insert, committed
   or not yet, meets another live class in the unique index of a class's slot,
   not even when a stale switch has put a slot on offer that a class holds. *)
OneLiveClassPerSlot ==
  \A t \in SlotIds, w \in Workers :
    Cardinality(LiveClassesOf(Seen(w), t)) <= 1

(* Whoever cancels, and whatever overtakes it: the class and its only booking are
   cancelled together. *)
CancelledWithItsBooking ==
  \A b \in BookingsOf(db) :
    db[ClassRow(b)].status = "CANCELLED" <=> db[BookingRow(b)].status = "CANCELLED"

(* "Booked slots cannot be edited", nor deleted, nor booked: however cancellations,
   switches and stale edits overtake each other, the services leave no coming slot
   booked when its class is gone, since nothing could free it again.  A slot that
   an edit has put on booked stays so. *)
NoSlotStranded ==
  \A t \in SlotIds \ started : db[SlotRow(t)] = "BOOKED" => LiveClassesOf(db, t) # {}

(* Each transaction, however it is interleaved, has the effect of one step of
   the diary at its commit, or none. *)
Diary ==
  INSTANCE SlotDiary WITH
    Students <- StudentIds, Slots <- SlotIds,
    diary <- [t \in SlotIds |-> {db[BookingRow(b)].student : b \in LiveClassesOf(db, t)}]

ImplementsDiary == Diary!DiarySpec

(* Bookings, cancellations, attendance and edits of slots never block each other:
   they take the locks of a booking, its class and its slot in this order.  In a
   deadlock, which the database answers with an error (500), there is a switch,
   whose flushes take them in any order, or there are two reschedulings, each with
   the slot of its old class locked, that want each other's. *)
DeadlocksHaveACause ==
  \A set \in (SUBSET Workers) \ {{}} :
    Deadlocked(set) =>
      \/ \E w \in set : txns[w].kind = "SWITCH"
      \/ \E v, w \in set :
           v # w /\ \A u \in {v, w} : Rescheduling(u) /\ txns[u].stage = "SLOT"

=============================================================================
