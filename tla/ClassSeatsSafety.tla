-------------------------- MODULE ClassSeatsSafety --------------------------
(***************************************************************************)
(* However many requests about batch classes are served at once, and          *)
(* however their statements interleave, no class is overbooked, the statuses  *)
(* of classes agree with those of their bookings, and no commit loses what     *)
(* another has written.  The argument is the one the code's locks suggest:     *)
(* whatever concerns a class is written, and counted, under its lock.          *)
(*                                                                         *)
(* From that invariant and a second one, on what a transaction has done to the *)
(* roster of the classes so far, ClassSeats implements ClassRoster; from a     *)
(* third one, on the order of the locks, follows who can be in a deadlock.     *)
(***************************************************************************)
EXTENDS ClassSeats, FiniteSetTheorems, SequenceTheorems, TLAPS

Ops == {"LOCK", "CLOCK", "CHECK_DAY", "TAKE_SEAT", "CANCEL", "MARK", "COMPLETE"}

RequestKinds ==
  {"IDLE", "BOOK", "ADMIN_ADD", "CANCEL", "ADMIN_CANCEL", "RESCHEDULE", "ADMIN_RESCHEDULE",
   "MARK", "MARK_CLASS"}

BookingTable == UNION {[bs -> Booking] : bs \in SUBSET BookingIds}
SessionTable == UNION {[ss -> SessionStatuses] : ss \in SUBSET SessionIds}

Txn ==
  [kind: RequestKinds, student: StudentIds \cup {None}, todo: Seq([op: Ops, row: Rows]),
   begun: SUBSET SessionIds, bookings: BookingTable, sessions: SessionTable]

TypeInv ==
  /\ bookings \in BookingTable
  /\ sessions \in [SessionIds -> SessionStatuses]
  /\ started \in SUBSET SessionIds
  /\ locks \in [Rows -> Workers \cup {None}]
  /\ txns \in [Workers -> Txn]

(* The statuses of class s and its bookings; when the attendance has been taken
   the class may still have to be completed. *)
Agrees(bks, status, s) ==
  /\ status = "COMPLETED" => ActiveBookingsOf(bks, s) # {} /\ BookedBookingsOf(bks, s) = {}
  /\ status = "CANCELLED" => BookedBookingsOf(bks, s) = {}

Told(bks, status, s) ==
  status = "SCHEDULED" => ActiveBookingsOf(bks, s) = {} \/ BookedBookingsOf(bks, s) # {}

Fits(bks, s) == Cardinality(ActiveBookingsOf(bks, s)) <= Capacity[s]

Committed ==
  \A s \in SessionIds :
    Fits(bookings, s) /\ Agrees(bookings, sessions[s], s) /\ Told(bookings, sessions[s], s)

(* Worker w holds the lock of a row, or takes it before its i-th statement. *)
Holds(w, todo, i, row) ==
  locks[row] = w \/ \E j \in 1 .. i - 1 : todo[j] = Statement("LOCK", row)

(* What locks the statements still to do are done under. *)
PlannedAt(w, txn, i) ==
  LET todo == txn.todo
      row == txn.todo[i].row
  IN /\ todo[i].op = "CHECK_DAY" => row \in SessionIds /\ Holds(w, todo, i, row)
     /\ todo[i].op = "TAKE_SEAT" =>
          /\ row \in SessionIds /\ Holds(w, todo, i, row) /\ txn.student \in StudentIds
          /\ IF i = 1 THEN Overlay(txn.sessions, sessions)[row] = "SCHEDULED"
             ELSE todo[i - 1] = Statement("CHECK_DAY", row)
     /\ todo[i].op = "CANCEL" =>
          /\ row \in DOMAIN bookings
          /\ Holds(w, todo, i, row) /\ Holds(w, todo, i, bookings[row].session)
     /\ todo[i].op = "MARK" =>
          /\ row \in DOMAIN bookings /\ Holds(w, todo, i, row)
          /\ todo[Len(todo)].op = "COMPLETE" /\ Holds(w, todo, i, todo[Len(todo)].row)
     /\ todo[i].op = "COMPLETE" => row \in SessionIds /\ Holds(w, todo, i, row)

Planned(w, txn) == \A i \in 1 .. Len(txn.todo) : PlannedAt(w, txn, i)

(* What a transaction writes it has locked, or inserted, and only coming seats
   and classes change. *)
Wrote(w, txn) ==
  /\ \A b \in DOMAIN txn.bookings :
       /\ locks[txn.bookings[b].session] = w
       /\ b \in DOMAIN bookings =>
            /\ locks[b] = w
            /\ txn.bookings[b].session = bookings[b].session
            /\ bookings[b].status = "BOOKED" \/ txn.bookings[b] = bookings[b]
  /\ \A s \in DOMAIN txn.sessions :
       /\ locks[s] = w
       /\ sessions[s] = "SCHEDULED" \/ txn.sessions[s] = sessions[s]

(* A locked class, as its transaction sees it. *)
Views(w, txn) ==
  \A s \in SessionIds :
    LET bks == Overlay(txn.bookings, bookings)
        status == Overlay(txn.sessions, sessions)[s]
    IN locks[s] = w =>
         /\ Fits(bks, s) /\ Agrees(bks, status, s)
         /\ \/ Told(bks, status, s)
            \/ \E i \in 1 .. Len(txn.todo) : txn.todo[i] = Statement("COMPLETE", s)

Keeps(w, txn) == Planned(w, txn) /\ Wrote(w, txn) /\ Views(w, txn)

Apart ==
  \A v, w \in Workers : v # w => DOMAIN txns[v].bookings \cap DOMAIN txns[w].bookings = {}

IInv == TypeInv /\ Committed /\ Apart /\ \A w \in Workers : Keeps(w, txns[w])

-----------------------------------------------------------------------------
(* Tables. *)

LEMMA BookingTables ==
  ASSUME NEW t
  PROVE  t \in BookingTable <=>
           DOMAIN t \subseteq BookingIds /\ t \in [DOMAIN t -> Booking]
BY DEF BookingTable

LEMMA SessionTables ==
  ASSUME NEW t
  PROVE  t \in SessionTable <=>
           DOMAIN t \subseteq SessionIds /\ t \in [DOMAIN t -> SessionStatuses]
BY DEF SessionTable

(* An overlay has the written rows, and of the table the others. *)
LEMMA Overlays ==
  ASSUME NEW written, NEW table
  PROVE  /\ DOMAIN Overlay(written, table) = DOMAIN table \cup DOMAIN written
         /\ \A k \in DOMAIN written : Overlay(written, table)[k] = written[k]
         /\ \A k \in DOMAIN table \ DOMAIN written : Overlay(written, table)[k] = table[k]
BY DEF Overlay

LEMMA OverlayOfBookings ==
  ASSUME NEW written \in BookingTable, NEW table \in BookingTable
  PROVE  Overlay(written, table) \in BookingTable
<1>1. /\ DOMAIN written \subseteq BookingIds /\ DOMAIN table \subseteq BookingIds
      /\ \A k \in DOMAIN written : written[k] \in Booking
      /\ \A k \in DOMAIN table : table[k] \in Booking
  BY BookingTables
<1> QED
  BY <1>1, BookingTables DEF Overlay

LEMMA OverlayOfSessions ==
  ASSUME NEW written \in SessionTable, NEW table \in SessionTable
  PROVE  Overlay(written, table) \in SessionTable
<1>1. /\ DOMAIN written \subseteq SessionIds /\ DOMAIN table \subseteq SessionIds
      /\ \A k \in DOMAIN written : written[k] \in SessionStatuses
      /\ \A k \in DOMAIN table : table[k] \in SessionStatuses
  BY SessionTables
<1> QED
  BY <1>1, SessionTables DEF Overlay

LEMMA EmptyTables == EmptyTable \in BookingTable /\ EmptyTable \in SessionTable
BY BookingTables, SessionTables DEF EmptyTable

(* Bookings of a class are as many as they are, whatever the rest of a table. *)
LEMMA SameSeats ==
  ASSUME NEW new \in BookingTable, NEW old \in BookingTable, NEW s,
         \A b \in DOMAIN new : new[b].session = s => b \in DOMAIN old /\ old[b] = new[b],
         \A b \in DOMAIN old : old[b].session = s => b \in DOMAIN new /\ old[b] = new[b]
  PROVE  /\ ActiveBookingsOf(new, s) = ActiveBookingsOf(old, s)
         /\ BookedBookingsOf(new, s) = BookedBookingsOf(old, s)
BY DEF ActiveBookingsOf, BookedBookingsOf

LEMMA SeatsFinite ==
  ASSUME NEW t \in BookingTable, NEW s
  PROVE  /\ IsFiniteSet(ActiveBookingsOf(t, s))
         /\ Cardinality(ActiveBookingsOf(t, s)) \in Nat
<1>1. ActiveBookingsOf(t, s) \subseteq BookingIds
  BY BookingTables DEF ActiveBookingsOf
<1> QED
  BY <1>1, SeatsAssumption, FS_Subset, FS_CardinalityType

-----------------------------------------------------------------------------
(* Steps of one transaction. *)

(* A transaction after its next statement. *)
After(txn, begun, bks, ses) ==
  [kind |-> txn.kind, student |-> txn.student, todo |-> Tail(txn.todo),
   begun |-> begun, bookings |-> bks, sessions |-> ses]

LEMMA AfterTyped ==
  ASSUME NEW txn \in Txn, txn.todo # << >>, NEW begun \in SUBSET SessionIds,
         NEW bks \in BookingTable, NEW ses \in SessionTable
  PROVE  After(txn, begun, bks, ses) \in Txn
<1>1. Tail(txn.todo) \in Seq([op: Ops, row: Rows])
  BY DEF Txn
<1> QED
  BY <1>1 DEF After, Txn

(* What a transaction keeps depends on the committed rows and the locks only. *)
LEMMA AsBefore ==
  ASSUME UNCHANGED <<bookings, sessions, locks>>, NEW v, NEW txn
  PROVE  /\ Planned(v, txn) => Planned(v, txn)'
         /\ Wrote(v, txn) => Wrote(v, txn)'
         /\ Views(v, txn) => Views(v, txn)'
<1>1. Planned(v, txn) => Planned(v, txn)'
  BY DEF Planned, PlannedAt, Holds
<1>2. Wrote(v, txn) => Wrote(v, txn)'
  BY DEF Wrote
<1>3. Views(v, txn) => Views(v, txn)'
  BY DEF Views
<1> QED
  BY <1>1, <1>2, <1>3

(* A step of one transaction that takes no lock and commits nothing. *)
LEMMA OwnStep ==
  ASSUME IInv, NEW w \in Workers, NEW txn \in Txn,
         Planned(w, txn)', Wrote(w, txn), Views(w, txn),
         UNCHANGED <<bookings, sessions, locks, started>>,
         txns' = [txns EXCEPT ![w] = txn],
         \A v \in Workers \ {w} : DOMAIN txns[v].bookings \cap DOMAIN txn.bookings = {}
  PROVE  IInv'
<1>1. TypeInv'
  BY DEF IInv, TypeInv
<1>2. Committed'
  BY DEF IInv, Committed
<1>3. txns'[w] = txn /\ \A v \in Workers \ {w} : txns'[v] = txns[v]
  BY DEF IInv, TypeInv
<1>4. Apart'
  BY <1>3 DEF IInv, Apart
<1>5. \A v \in Workers : Keeps(v, txns[v])'
  <2>1. TAKE v \in Workers
  <2>2. CASE v = w
    BY <2>2, <1>3, AsBefore DEF Keeps
  <2>3. CASE v # w
    BY <2>3, <1>3, AsBefore DEF IInv, Keeps
  <2> QED
    BY <2>2, <2>3
<1> QED
  BY <1>1, <1>2, <1>4, <1>5 DEF IInv

(* A row that is held stays held. *)
LEMMA StillHolds ==
  ASSUME NEW w, NEW todo, NEW i, NEW row, Holds(w, todo, i, row),
         locks[row] = w => locks'[row] = w
  PROVE  Holds(w, todo, i, row)'
BY DEF Holds

(* The statements after the first are done under the same locks. *)
LEMMA PlannedRest ==
  ASSUME IInv, NEW w \in Workers, NEW txn \in Txn, Planned(w, txn), txn.todo # << >>,
         NEW next \in Txn, next.todo = Tail(txn.todo), next.student = txn.student,
         UNCHANGED <<bookings, sessions>>,
         \A row \in Rows : locks[row] = w => locks'[row] = w,
         Head(txn.todo).op = "LOCK" => locks'[Head(txn.todo).row] = w,
         Head(txn.todo).op = "CHECK_DAY" =>
           Overlay(next.sessions, sessions)[Head(txn.todo).row] = "SCHEDULED"
  PROVE  Planned(w, next)'
<1> DEFINE todo == txn.todo
           rest == next.todo
<1>1. /\ todo \in Seq([op: Ops, row: Rows])
      /\ Len(todo) \in Nat \ {0} /\ Len(rest) = Len(todo) - 1
      /\ \A i \in 1 .. Len(rest) : i + 1 \in 1 .. Len(todo) /\ rest[i] = todo[i + 1]
      /\ Head(todo) = todo[1]
  BY DEF Txn
<1>5. ASSUME NEW i \in 1 .. Len(todo)
      PROVE  todo[i].row \in Rows
  <2>1. todo[i] \in [op: Ops, row: Rows]
    BY <1>1, ElementOfSeq
  <2> QED
    BY <2>1
<1>2. ASSUME NEW i \in 1 .. Len(rest), NEW row \in Rows, Holds(w, todo, i + 1, row)
      PROVE  Holds(w, rest, i, row)'
  <2>1. CASE locks[row] = w
    BY <2>1 DEF Holds
  <2>2. CASE \E j \in 1 .. i : todo[j] = Statement("LOCK", row)
    <3>1. PICK j \in 1 .. i : todo[j] = Statement("LOCK", row)
      BY <2>2
    <3>2. CASE j = 1
      BY <3>1, <3>2, <1>1 DEF Holds, Statement
    <3>3. CASE j # 1
      <4>1. j - 1 \in 1 .. i - 1 /\ rest[j - 1] = Statement("LOCK", row)
        BY <3>1, <3>3, <1>1
      <4> QED
        BY <4>1 DEF Holds
    <3> QED
      BY <3>2, <3>3
  <2> QED
    BY <1>2, <2>1, <2>2 DEF Holds
<1>3. \A b \in DOMAIN bookings : b \in Rows /\ bookings[b].session \in Rows
  BY BookingTables DEF IInv, TypeInv, Booking, Rows
<1>4. ASSUME NEW i \in 1 .. Len(rest)
      PROVE  PlannedAt(w, next, i)'
  <2>1. PlannedAt(w, txn, i + 1) /\ rest[i] = todo[i + 1]
    BY <1>1 DEF Planned
  <2>2. rest[Len(rest)] = todo[Len(todo)]
    BY <1>1
  <2>4. rest[i].row \in Rows /\ todo[Len(todo)].row \in Rows
    BY <2>1, <1>1, <1>5
  <2>3. ASSUME rest[i].op = "TAKE_SEAT"
        PROVE  IF i = 1 THEN Overlay(next.sessions, sessions)[rest[i].row] = "SCHEDULED"
               ELSE rest[i - 1] = Statement("CHECK_DAY", rest[i].row)
    <3>1. todo[i] = Statement("CHECK_DAY", rest[i].row)
      BY <2>1, <2>3, <1>1 DEF PlannedAt
    <3>2. CASE i = 1
      BY <3>1, <3>2, <1>1 DEF Statement
    <3>3. CASE i # 1
      BY <3>1, <3>3, <1>1
    <3> QED
      BY <3>2, <3>3
  <2> QED
    BY <2>1, <2>2, <2>3, <2>4, <1>2, <1>3 DEF PlannedAt
<1> QED
  BY <1>4 DEF Planned

(* A class that is still to be completed is so after any other statement. *)
LEMMA StillToComplete ==
  ASSUME NEW txn \in Txn, NEW s, NEW i \in 1 .. Len(txn.todo),
         txn.todo[i] = Statement("COMPLETE", s), Head(txn.todo) # Statement("COMPLETE", s)
  PROVE  \E j \in 1 .. Len(Tail(txn.todo)) : Tail(txn.todo)[j] = Statement("COMPLETE", s)
<1>1. /\ Len(txn.todo) \in Nat /\ Len(Tail(txn.todo)) = Len(txn.todo) - 1
      /\ Head(txn.todo) = txn.todo[1]
      /\ i # 1 => i - 1 \in 1 .. Len(Tail(txn.todo)) /\ Tail(txn.todo)[i - 1] = txn.todo[i]
  BY DEF Txn
<1> QED
  BY <1>1

(* A statement that writes nothing. *)
LEMMA ReadStep ==
  ASSUME IInv, NEW w \in Workers, txns[w].todo # << >>, NEW next \in Txn,
         Head(txns[w].todo).op \in {"CLOCK", "CHECK_DAY", "LOCK"},
         next.bookings = txns[w].bookings, next.sessions = txns[w].sessions,
         next.todo = Tail(txns[w].todo)
  PROVE  Wrote(w, next) /\ Views(w, next)
<1>1. Wrote(w, txns[w]) /\ Views(w, txns[w]) /\ txns[w] \in Txn
  BY DEF IInv, Keeps, TypeInv
<1>2. Wrote(w, next)
  BY <1>1 DEF Wrote
<1>3. \A s : Head(txns[w].todo) # Statement("COMPLETE", s)
  BY DEF Statement
<1>4. Views(w, next)
  BY <1>1, <1>3, StillToComplete DEF Views
<1> QED
  BY <1>2, <1>4

(* A new transaction has written nothing. *)
LEMMA KeepsFresh ==
  ASSUME IInv, NEW w \in Workers, NEW txn \in Txn,
         txn.bookings = EmptyTable, txn.sessions = EmptyTable, Planned(w, txn)
  PROVE  Keeps(w, txn)
<1>1. DOMAIN EmptyTable = {}
  BY DEF EmptyTable
<1>2. Wrote(w, txn)
  BY <1>1 DEF Wrote
<1>3. ASSUME NEW s \in SessionIds
      PROVE  /\ ActiveBookingsOf(Overlay(txn.bookings, bookings), s) = ActiveBookingsOf(bookings, s)
             /\ BookedBookingsOf(Overlay(txn.bookings, bookings), s) = BookedBookingsOf(bookings, s)
             /\ Overlay(txn.sessions, sessions)[s] = sessions[s]
  BY <1>1 DEF Overlay, ActiveBookingsOf, BookedBookingsOf, IInv, TypeInv
<1>4. Views(w, txn)
  BY <1>3 DEF Views, IInv, Committed, Fits, Agrees, Told
<1> QED
  BY <1>2, <1>4 DEF Keeps

(* The statements of the requests. *)

LEMMA TakeSeatPlanned ==
  ASSUME IInv, NEW w \in Workers, NEW txn, NEW s \in SessionIds,
         txn.todo = TakeSeat(s), txn.student \in StudentIds
  PROVE  /\ txn.todo \in Seq([op: Ops, row: Rows])
         /\ Planned(w, txn)
<1> DEFINE todo == txn.todo
<1>1. /\ Len(todo) = 3
      /\ todo[1] = [op |-> "LOCK", row |-> s]
      /\ todo[2] = [op |-> "CHECK_DAY", row |-> s]
      /\ todo[3] = [op |-> "TAKE_SEAT", row |-> s]
      /\ todo \in Seq([op: Ops, row: Rows])
  BY DEF TakeSeat, Statement, Ops, Rows
<1>2. \A i \in 2 .. 3 : Holds(w, todo, i, s)
  BY <1>1 DEF Holds, Statement
<1>3. PlannedAt(w, txn, 1) /\ PlannedAt(w, txn, 2) /\ PlannedAt(w, txn, 3)
  BY <1>1, <1>2 DEF PlannedAt, Statement
<1>4. \A i \in 1 .. Len(todo) : i = 1 \/ i = 2 \/ i = 3
  BY <1>1
<1> QED
  BY <1>1, <1>3, <1>4 DEF Planned

LEMMA GiveUpSeatPlanned ==
  ASSUME IInv, NEW w \in Workers, NEW txn, NEW b \in DOMAIN bookings,
         txn.todo = GiveUpSeat(b)
  PROVE  /\ txn.todo \in Seq([op: Ops, row: Rows])
         /\ Planned(w, txn)
<1> DEFINE todo == txn.todo
           s == bookings[b].session
<1>1. s \in SessionIds /\ b \in BookingIds
  BY BookingTables DEF IInv, TypeInv, Booking
<1>2. /\ Len(todo) = 4
      /\ todo[1] = [op |-> "LOCK", row |-> b]
      /\ todo[2] = [op |-> "LOCK", row |-> s]
      /\ todo[3] = [op |-> "CLOCK", row |-> s]
      /\ todo[4] = [op |-> "CANCEL", row |-> b]
      /\ todo \in Seq([op: Ops, row: Rows])
  BY <1>1 DEF GiveUpSeat, Statement, Ops, Rows
<1>3. Holds(w, todo, 4, b) /\ Holds(w, todo, 4, s)
  BY <1>2 DEF Holds, Statement
<1>4. \A i \in 1 .. 4 : PlannedAt(w, txn, i)
  <2>1. TAKE i \in 1 .. 4
  <2>2. i = 1 \/ i = 2 \/ i = 3 \/ i = 4
    OBVIOUS
  <2> QED
    BY <2>2, <1>2, <1>3 DEF PlannedAt, Statement
<1> QED
  BY <1>2, <1>4 DEF Planned

LEMMA ReschedulePlanned ==
  ASSUME IInv, NEW w \in Workers, NEW txn, NEW b \in DOMAIN bookings, NEW d \in SessionIds,
         txn.todo = GiveUpSeat(b) \o TakeSeat(d), txn.student \in StudentIds
  PROVE  /\ txn.todo \in Seq([op: Ops, row: Rows])
         /\ Planned(w, txn)
<1> DEFINE todo == txn.todo
           s == bookings[b].session
<1>1. s \in SessionIds /\ b \in BookingIds
  BY BookingTables DEF IInv, TypeInv, Booking
<1>2. /\ Len(todo) = 7
      /\ todo[1] = [op |-> "LOCK", row |-> b]
      /\ todo[2] = [op |-> "LOCK", row |-> s]
      /\ todo[3] = [op |-> "CLOCK", row |-> s]
      /\ todo[4] = [op |-> "CANCEL", row |-> b]
      /\ todo[5] = [op |-> "LOCK", row |-> d]
      /\ todo[6] = [op |-> "CHECK_DAY", row |-> d]
      /\ todo[7] = [op |-> "TAKE_SEAT", row |-> d]
      /\ todo \in Seq([op: Ops, row: Rows])
  BY <1>1 DEF GiveUpSeat, TakeSeat, Statement, Ops, Rows
<1>3. /\ Holds(w, todo, 4, b) /\ Holds(w, todo, 4, s)
      /\ Holds(w, todo, 6, d) /\ Holds(w, todo, 7, d)
  BY <1>2 DEF Holds, Statement
<1>4. \A i \in 1 .. 7 : PlannedAt(w, txn, i)
  <2>1. TAKE i \in 1 .. 7
  <2>2. i \in {1, 2, 3, 5} \/ i = 4 \/ i = 6 \/ i = 7
    OBVIOUS
  <2>3. CASE i \in {1, 2, 3, 5}
    <3>1. todo[i].op \in {"LOCK", "CLOCK"}
      BY <2>3, <1>2
    <3> QED
      BY <3>1 DEF PlannedAt
  <2>4. CASE i = 4
    BY <2>4, <1>2, <1>3 DEF PlannedAt
  <2>5. CASE i = 6
    BY <2>5, <1>2, <1>3 DEF PlannedAt
  <2>6. CASE i = 7
    BY <2>6, <1>2, <1>3 DEF PlannedAt, Statement
  <2> QED
    BY <2>2, <2>3, <2>4, <2>5, <2>6
<1> QED
  BY <1>2, <1>4 DEF Planned

LEMMA MarkOnePlanned ==
  ASSUME IInv, NEW w \in Workers, NEW txn, NEW b \in DOMAIN bookings,
         txn.todo = MarkOne(b).todo
  PROVE  /\ txn.todo \in Seq([op: Ops, row: Rows])
         /\ Planned(w, txn)
<1> DEFINE todo == txn.todo
           s == bookings[b].session
<1>1. s \in SessionIds /\ b \in BookingIds
  BY BookingTables DEF IInv, TypeInv, Booking
<1>2. /\ Len(todo) = 5
      /\ todo[1] = [op |-> "LOCK", row |-> b]
      /\ todo[2] = [op |-> "LOCK", row |-> s]
      /\ todo[3] = [op |-> "CLOCK", row |-> s]
      /\ todo[4] = [op |-> "MARK", row |-> b]
      /\ todo[5] = [op |-> "COMPLETE", row |-> s]
      /\ todo \in Seq([op: Ops, row: Rows])
  BY <1>1 DEF MarkOne, Request, Statement, Ops, Rows
<1>3. Holds(w, todo, 4, b) /\ Holds(w, todo, 4, s) /\ Holds(w, todo, 5, s)
  BY <1>2 DEF Holds, Statement
<1>4. \A i \in 1 .. 5 : PlannedAt(w, txn, i)
  <2>1. TAKE i \in 1 .. 5
  <2>2. i \in {1, 2, 3} \/ i = 4 \/ i = 5
    OBVIOUS
  <2>3. CASE i \in {1, 2, 3}
    <3>1. todo[i].op \in {"LOCK", "CLOCK"}
      BY <2>3, <1>2
    <3> QED
      BY <3>1 DEF PlannedAt
  <2>4. CASE i = 4
    BY <2>4, <1>2, <1>3 DEF PlannedAt
  <2>5. CASE i = 5
    BY <2>5, <1>1, <1>2, <1>3 DEF PlannedAt
  <2> QED
    BY <2>2, <2>3, <2>4, <2>5
<1> QED
  BY <1>2, <1>4 DEF Planned

(* Sequences, and halves. *)
LEMMA FunctionSeq ==
  ASSUME NEW S, NEW m \in Nat, NEW f \in [1 .. m -> S]
  PROVE  f \in Seq(S) /\ Len(f) = m
OBVIOUS

LEMMA ConcatenatedFirst ==
  ASSUME NEW S, NEW a \in Seq(S), NEW f \in Seq(S), NEW i \in 1 .. Len(a)
  PROVE  (a \o f)[i] = a[i]
<1>1. i \in 1 .. Len(a) + Len(f) /\ i <= Len(a)
  BY LenProperties
<1> QED
  BY <1>1, ConcatProperties

LEMMA ConcatenatedSecond ==
  ASSUME NEW S, NEW a \in Seq(S), NEW f \in Seq(S), NEW i \in 1 .. Len(f)
  PROVE  (a \o f)[i + Len(a)] = f[i]
<1>1. /\ i + Len(a) \in 1 .. Len(a) + Len(f)
      /\ ~(i + Len(a) <= Len(a)) /\ i + Len(a) - Len(a) = i
  BY LenProperties
<1>2. (a \o f)[i + Len(a)] =
        IF i + Len(a) <= Len(a) THEN a[i + Len(a)] ELSE f[i + Len(a) - Len(a)]
  BY <1>1
<1> QED
  BY <1>1, <1>2

(* A sequence between two statements and a last one. *)
Between(a, f, c) == (a \o f) \o c

LEMMA InTheMiddle ==
  ASSUME NEW S, NEW a \in Seq(S), NEW f \in Seq(S), NEW c \in Seq(S),
         Len(a) = 2, Len(c) = 1
  PROVE  /\ Between(a, f, c) \in Seq(S)
         /\ Len(Between(a, f, c)) = Len(f) + 3
         /\ Between(a, f, c)[1] = a[1] /\ Between(a, f, c)[2] = a[2]
         /\ \A i \in 1 .. Len(f) : Between(a, f, c)[i + 2] = f[i]
         /\ Between(a, f, c)[Len(f) + 3] = c[1]
<1> DEFINE af == a \o f
           all == Between(a, f, c)
<1>1. af \in Seq(S) /\ Len(af) = Len(a) + Len(f)
  BY ConcatProperties
<1>2. \A i \in 1 .. Len(a) : af[i] = a[i]
  BY ConcatenatedFirst
<1>3. ASSUME NEW i \in 1 .. Len(f)
      PROVE  af[i + Len(a)] = f[i]
  BY ConcatenatedSecond
<1> HIDE DEF af
<1>4. all = af \o c
  BY DEF af, Between
<1> HIDE DEF all
<1>5. all \in Seq(S) /\ Len(all) = Len(af) + Len(c)
  BY <1>1, <1>4, ConcatProperties
<1>6. \A i \in 1 .. Len(af) : all[i] = af[i]
  BY <1>1, <1>4, ConcatenatedFirst
<1>7. all[1 + Len(af)] = c[1]
  <2>1. 1 \in 1 .. Len(c)
    OBVIOUS
  <2>2. ASSUME NEW j \in 1 .. Len(c)
        PROVE  (af \o c)[j + Len(af)] = c[j]
    <3>1. af \in Seq(S)
      BY <1>1
    <3> QED
      BY <3>1, ConcatenatedSecond
  <2>3. (af \o c)[1 + Len(af)] = c[1]
    BY <2>1, <2>2, Zenon
  <2> QED
    BY <2>3, <1>4
<1>8. Len(f) \in Nat
  BY LenProperties
<1>9. Len(af) = Len(f) + 2 /\ Len(all) = Len(f) + 3 /\ 1 + Len(af) = Len(f) + 3
  BY <1>1, <1>5, <1>8
<1>10. all[1] = a[1] /\ all[2] = a[2]
  BY <1>2, <1>6, <1>8, <1>9
<1>11. ASSUME NEW i \in 1 .. Len(f)
       PROVE  all[i + 2] = f[i]
  <2>1. i + 2 \in 1 .. Len(af) /\ af[i + 2] = f[i]
    BY <1>3, <1>8, <1>9
  <2> QED
    BY <2>1, <1>6
<1> QED
  BY <1>5, <1>7, <1>9, <1>10, <1>11 DEF all

LEMMA Halves ==
  ASSUME NEW n \in Nat, NEW i \in 1 .. 2 * n
  PROVE  /\ i % 2 = 1 => (i + 1) \div 2 \in 1 .. n
         /\ i % 2 # 1 => /\ i \div 2 \in 1 .. n /\ i - 1 \in 1 .. 2 * n
                         /\ (i - 1) % 2 = 1 /\ (i - 1 + 1) \div 2 = i \div 2
OBVIOUS

(* The statements of a request that takes the attendance of class s. *)
MarkedOneByOne(bs, s, todo, marks, n) ==
  /\ n \in Nat \ {0} /\ \A k \in 1 .. n : bs[k] \in DOMAIN bookings
  /\ s \in SessionIds
  /\ \A i \in 1 .. 2 * n :
       /\ i % 2 = 1 => /\ marks[i] = [op |-> "LOCK", row |-> bs[(i + 1) \div 2]]
                       /\ (i + 1) \div 2 \in 1 .. n
       /\ i % 2 # 1 => /\ marks[i] = [op |-> "MARK", row |-> bs[i \div 2]]
                       /\ i \div 2 \in 1 .. n
  /\ todo \in Seq([op: Ops, row: Rows])
  /\ Len(todo) = 2 * n + 3
  /\ todo[1] = [op |-> "LOCK", row |-> s]
  /\ todo[2] = [op |-> "CLOCK", row |-> s]
  /\ \A i \in 1 .. 2 * n : todo[i + 2] = marks[i]
  /\ todo[2 * n + 3] = [op |-> "COMPLETE", row |-> s]

LEMMA MarkManyStatements ==
  ASSUME IInv, NEW bs \in Seq(DOMAIN bookings), bs # << >>, NEW todo, todo = MarkMany(bs).todo,
         NEW s, s = bookings[bs[1]].session, NEW marks, marks = MarkSeats(bs),
         NEW n, n = Len(bs)
  PROVE  MarkedOneByOne(bs, s, todo, marks, n)
<1>1. n \in Nat \ {0} /\ \A k \in 1 .. n : bs[k] \in DOMAIN bookings
  OBVIOUS
<1>2. s \in SessionIds /\ DOMAIN bookings \subseteq BookingIds
  BY <1>1, BookingTables DEF IInv, TypeInv, Booking
<1>3. \A i \in 1 .. 2 * n :
        /\ i % 2 = 1 => /\ marks[i] = [op |-> "LOCK", row |-> bs[(i + 1) \div 2]]
                        /\ (i + 1) \div 2 \in 1 .. n
        /\ i % 2 # 1 => /\ marks[i] = [op |-> "MARK", row |-> bs[i \div 2]]
                        /\ i \div 2 \in 1 .. n
  BY <1>1, Halves DEF MarkSeats, Statement
<1>4. marks \in Seq([op: Ops, row: Rows]) /\ Len(marks) = 2 * n
  <2>1. ASSUME NEW i \in 1 .. 2 * n
        PROVE  marks[i] \in [op: Ops, row: Rows]
    <3>1. \A k \in 1 .. n : bs[k] \in Rows
      BY <1>1, <1>2 DEF Rows
    <3>2. CASE i % 2 = 1
      <4>1. bs[(i + 1) \div 2] \in Rows /\ marks[i] = [op |-> "LOCK", row |-> bs[(i + 1) \div 2]]
        BY <1>3, <3>1, <3>2
      <4> QED
        BY <4>1 DEF Ops
    <3>3. CASE i % 2 # 1
      <4>1. bs[i \div 2] \in Rows /\ marks[i] = [op |-> "MARK", row |-> bs[i \div 2]]
        BY <1>3, <3>1, <3>3
      <4> QED
        BY <4>1 DEF Ops
    <3> QED
      BY <3>2, <3>3
  <2>2. marks \in [1 .. 2 * n -> [op: Ops, row: Rows]]
    BY <2>1 DEF MarkSeats
  <2>3. 2 * n \in Nat
    BY <1>1
  <2> QED
    BY <2>2, <2>3, FunctionSeq
<1>5. /\ todo \in Seq([op: Ops, row: Rows])
      /\ Len(todo) = 2 * n + 3
      /\ todo[1] = [op |-> "LOCK", row |-> s]
      /\ todo[2] = [op |-> "CLOCK", row |-> s]
      /\ \A i \in 1 .. 2 * n : todo[i + 2] = marks[i]
      /\ todo[2 * n + 3] = [op |-> "COMPLETE", row |-> s]
  <2> DEFINE first == <<Statement("LOCK", s), Statement("CLOCK", s)>>
             last == <<Statement("COMPLETE", s)>>
  <2>1. /\ first \in Seq([op: Ops, row: Rows]) /\ Len(first) = 2
        /\ first[1] = [op |-> "LOCK", row |-> s] /\ first[2] = [op |-> "CLOCK", row |-> s]
        /\ last \in Seq([op: Ops, row: Rows]) /\ Len(last) = 1
        /\ last[1] = [op |-> "COMPLETE", row |-> s]
    BY <1>2 DEF Statement, Ops, Rows
  <2>2. todo = Between(first, marks, last)
    BY DEF MarkMany, Request, Between
  <2> DEFINE X == [op: Ops, row: Rows]
  <2>3. first \in Seq(X) /\ marks \in Seq(X) /\ last \in Seq(X)
    BY <2>1, <1>4
  <2> HIDE DEF first, last, X
  <2>4. /\ todo \in Seq(X) /\ Len(todo) = Len(marks) + 3
        /\ todo[1] = first[1] /\ todo[2] = first[2]
        /\ \A i \in 1 .. Len(marks) : todo[i + 2] = marks[i]
        /\ todo[Len(marks) + 3] = last[1]
    BY <2>1, <2>2, <2>3, InTheMiddle
  <2>5. todo \in Seq([op: Ops, row: Rows])
    BY <2>4 DEF X
  <2> QED
    BY <2>1, <2>4, <2>5, <1>4
<1> QED
  BY <1>1, <1>2, <1>3, <1>5 DEF MarkedOneByOne

LEMMA MarkManyPlanned ==
  ASSUME IInv, NEW w \in Workers, NEW txn,
         NEW bs \in Seq(DOMAIN bookings), bs # << >>,
         txn.todo = MarkMany(bs).todo
  PROVE  /\ txn.todo \in Seq([op: Ops, row: Rows])
         /\ Planned(w, txn)
<1> DEFINE todo == txn.todo
           s == bookings[bs[1]].session
           marks == MarkSeats(bs)
           n == Len(bs)
<1>1. /\ todo = MarkMany(bs).todo /\ s = bookings[bs[1]].session
      /\ marks = MarkSeats(bs) /\ n = Len(bs)
  OBVIOUS
<1> HIDE DEF todo, s, marks, n
<1>2. MarkedOneByOne(bs, s, todo, marks, n)
  BY <1>1, MarkManyStatements
<1>3. /\ n \in Nat \ {0} /\ \A k \in 1 .. n : bs[k] \in DOMAIN bookings
      /\ s \in SessionIds
      /\ \A i \in 1 .. 2 * n :
           /\ i % 2 = 1 => marks[i] = [op |-> "LOCK", row |-> bs[(i + 1) \div 2]]
           /\ i % 2 # 1 => /\ marks[i] = [op |-> "MARK", row |-> bs[i \div 2]]
                           /\ i \div 2 \in 1 .. n
      /\ todo \in Seq([op: Ops, row: Rows])
      /\ Len(todo) = 2 * n + 3
      /\ todo[1] = [op |-> "LOCK", row |-> s]
      /\ todo[2] = [op |-> "CLOCK", row |-> s]
      /\ \A i \in 1 .. 2 * n : todo[i + 2] = marks[i]
      /\ todo[2 * n + 3] = [op |-> "COMPLETE", row |-> s]
  BY <1>2 DEF MarkedOneByOne
<1> USE DEF todo
<1>4. \A i \in 3 .. 2 * n + 2 : Holds(w, todo, i, s)
  BY <1>3 DEF Holds, Statement
<1>5. Holds(w, todo, 2 * n + 3, s)
  BY <1>3 DEF Holds, Statement
<1>6. ASSUME NEW i \in 1 .. 2 * n
      PROVE  PlannedAt(w, txn, i + 2)
  <2>1. CASE i % 2 = 1
    <3>1. todo[i + 2] = marks[i]
      BY <1>3, Zenon
    <3>2. marks[i] = [op |-> "LOCK", row |-> bs[(i + 1) \div 2]]
      BY <2>1, <1>3, Zenon
    <3> QED
      BY <3>1, <3>2 DEF PlannedAt
  <2>2. CASE i % 2 # 1
    <3> DEFINE b == bs[i \div 2]
    <3>1. todo[i + 2] = [op |-> "MARK", row |-> b] /\ b \in DOMAIN bookings
      BY <2>2, <1>3
    <3>2. i - 1 \in 1 .. 2 * n /\ marks[i - 1] = [op |-> "LOCK", row |-> b]
      BY <2>2, <1>3, Halves
    <3>3. todo[i + 1] = [op |-> "LOCK", row |-> b]
      <4>1. todo[i - 1 + 2] = marks[i - 1] /\ i - 1 + 2 = i + 1
        BY <3>2, <1>3
      <4> QED
        BY <4>1, <3>2
    <3>4. Holds(w, todo, i + 2, b)
      BY <3>3 DEF Holds, Statement
    <3>5. i + 2 \in 3 .. 2 * n + 2 /\ todo[Len(todo)] = [op |-> "COMPLETE", row |-> s]
      BY <1>3
    <3> QED
      BY <3>1, <3>4, <3>5, <1>4 DEF PlannedAt
  <2> QED
    BY <2>1, <2>2
<1>7. PlannedAt(w, txn, 1) /\ PlannedAt(w, txn, 2)
  BY <1>3 DEF PlannedAt
<1>8. PlannedAt(w, txn, 2 * n + 3)
  BY <1>3, <1>5 DEF PlannedAt
<1>9. ASSUME NEW i \in 1 .. Len(todo)
       PROVE  PlannedAt(w, txn, i)
  <2>1. i = 1 \/ i = 2 \/ i = 2 * n + 3 \/ (i - 2 \in 1 .. 2 * n /\ i - 2 + 2 = i)
    BY <1>3
  <2> QED
    BY <2>1, <1>6, <1>7, <1>8
<1> QED
  BY <1>3, <1>9 DEF Planned

(* A request begins. *)
LEMMA RequestKeeps ==
  ASSUME IInv, NEW w \in Workers, NEW request, Planned(w, request),
         request = Request(request.kind, request.student, request.todo),
         request.kind \in RequestKinds, request.student \in StudentIds \cup {None},
         request.todo \in Seq([op: Ops, row: Rows]),
         txns' = [txns EXCEPT ![w] = request],
         UNCHANGED <<bookings, sessions, started, locks>>
  PROVE  IInv'
<1>1. request \in Txn
  <2>1. started \in SUBSET SessionIds
    BY DEF IInv, TypeInv
  <2> QED
    BY <2>1, EmptyTables DEF Request, Txn
<1>2. Planned(w, request)' /\ Wrote(w, request) /\ Views(w, request)
  BY <1>1, KeepsFresh, AsBefore DEF Request, Keeps
<1>3. DOMAIN request.bookings = {}
  BY DEF EmptyTable, Request
<1> QED
  BY <1>1, <1>2, <1>3, OwnStep

LEMMA BeginKeeps ==
  ASSUME IInv, NEW w \in Workers, Begin(w)
  PROVE  IInv'
<1>1. PICK request \in Requests : txns' = [txns EXCEPT ![w] = request]
  BY DEF Begin
<1>2. UNCHANGED <<bookings, sessions, started, locks>>
  BY DEF Begin
<1>3. \A b \in DOMAIN bookings : bookings[b].student \in StudentIds
  BY BookingTables DEF IInv, TypeInv, Booking
<1>4. ASSUME NEW kind \in {"BOOK", "ADMIN_ADD"}, NEW st \in StudentIds, NEW s \in SessionIds,
             request = Take(kind, st, s)
      PROVE  IInv'
  <2>1. /\ request = Request(request.kind, request.student, request.todo)
        /\ request.kind = kind /\ request.student = st
        /\ request.todo = TakeSeat(s)
    BY <1>4 DEF Take, Request
  <2>2. TakeSeat(s) \in Seq([op: Ops, row: Rows]) /\ Planned(w, request)
    BY <2>1, TakeSeatPlanned
  <2>3. request.kind \in RequestKinds /\ request.student \in StudentIds \cup {None}
    BY <2>1 DEF RequestKinds
  <2>4. request.todo \in Seq([op: Ops, row: Rows])
    BY <2>1, <2>2
  <2> QED
    BY <2>1, <2>2, <2>3, <2>4, <1>1, <1>2, RequestKeeps
<1>5. ASSUME NEW kind \in {"CANCEL", "ADMIN_CANCEL"}, NEW b \in DOMAIN bookings,
             request = GiveUp(kind, b)
      PROVE  IInv'
  <2>1. /\ request = Request(request.kind, request.student, request.todo)
        /\ request.kind = kind /\ request.student = bookings[b].student
        /\ request.todo = GiveUpSeat(b)
    BY <1>5 DEF GiveUp, Request
  <2>2. GiveUpSeat(b) \in Seq([op: Ops, row: Rows]) /\ Planned(w, request)
    BY <2>1, GiveUpSeatPlanned
  <2>3. request.kind \in RequestKinds /\ request.student \in StudentIds \cup {None}
    BY <2>1, <1>3 DEF RequestKinds
  <2>4. request.todo \in Seq([op: Ops, row: Rows])
    BY <2>1, <2>2
  <2> QED
    BY <2>1, <2>2, <2>3, <2>4, <1>1, <1>2, RequestKeeps
<1>6. ASSUME NEW kind \in {"RESCHEDULE", "ADMIN_RESCHEDULE"}, NEW b \in DOMAIN bookings,
             NEW s \in SessionIds, request = Reschedule(kind, b, s)
      PROVE  IInv'
  <2> DEFINE todo == GiveUpSeat(b) \o TakeSeat(s)
  <2>1. /\ request = Request(request.kind, request.student, request.todo)
        /\ request.kind = kind /\ request.student = bookings[b].student
        /\ request.todo = todo
    BY <1>6 DEF Reschedule, Request
  <2>2. todo \in Seq([op: Ops, row: Rows]) /\ Planned(w, request)
    BY <2>1, <1>3, ReschedulePlanned
  <2> HIDE DEF todo
  <2>3. request.kind \in RequestKinds /\ request.student \in StudentIds \cup {None}
    BY <2>1, <1>3 DEF RequestKinds
  <2>4. request.todo \in Seq([op: Ops, row: Rows])
    BY <2>1, <2>2
  <2> QED
    BY <2>1, <2>2, <2>3, <2>4, <1>1, <1>2, RequestKeeps
<1>7. ASSUME NEW b \in DOMAIN bookings, request = MarkOne(b)
      PROVE  IInv'
  <2> DEFINE todo == MarkOne(b).todo
  <2>1. /\ request = Request(request.kind, request.student, request.todo)
        /\ request.kind = "MARK" /\ request.student = None
        /\ request.todo = todo
    BY <1>7 DEF MarkOne, Request
  <2>2. todo \in Seq([op: Ops, row: Rows]) /\ Planned(w, request)
    BY <2>1, MarkOnePlanned
  <2> HIDE DEF todo
  <2>3. request.kind \in RequestKinds /\ request.student \in StudentIds \cup {None}
    BY <2>1 DEF RequestKinds
  <2>4. request.todo \in Seq([op: Ops, row: Rows])
    BY <2>1, <2>2
  <2> QED
    BY <2>1, <2>2, <2>3, <2>4, <1>1, <1>2, RequestKeeps
<1>8. ASSUME NEW n \in 1 .. MaxMarks, NEW marked \in kSubset(n, DOMAIN bookings),
             NEW bs \in SetToSeqs(marked), request = MarkMany(bs)
      PROVE  IInv'
  <2>1. Cardinality(marked) = n /\ marked \subseteq DOMAIN bookings
    BY DEF kSubset
  <2>2. bs \in [1 .. n -> DOMAIN bookings] /\ n \in Nat \ {0}
    BY <2>1, SeatsAssumption DEF SetToSeqs
  <2>3. bs \in Seq(DOMAIN bookings) /\ Len(bs) = n
    BY <2>2, FunctionSeq
  <2>4. bs # << >>
    BY <2>2, <2>3
  <2> DEFINE todo == MarkMany(bs).todo
  <2>5. /\ request = Request(request.kind, request.student, request.todo)
        /\ request.kind = "MARK_CLASS" /\ request.student = None
        /\ request.todo = todo
    BY <1>8 DEF MarkMany, Request
  <2>6. todo \in Seq([op: Ops, row: Rows]) /\ Planned(w, request)
    BY <2>3, <2>4, <2>5, MarkManyPlanned
  <2> HIDE DEF todo
  <2>7. request.kind \in RequestKinds /\ request.student \in StudentIds \cup {None}
    BY <2>5 DEF RequestKinds
  <2>8. request.todo \in Seq([op: Ops, row: Rows])
    BY <2>5, <2>6
  <2> QED
    BY <2>5, <2>6, <2>7, <2>8, <1>1, <1>2, RequestKeeps
<1>9. \/ \E kind \in {"BOOK", "ADMIN_ADD"}, st \in StudentIds, s \in SessionIds :
           request = Take(kind, st, s)
      \/ \E kind \in {"CANCEL", "ADMIN_CANCEL"}, b \in DOMAIN bookings : request = GiveUp(kind, b)
      \/ \E kind \in {"RESCHEDULE", "ADMIN_RESCHEDULE"}, b \in DOMAIN bookings, s \in SessionIds :
           request = Reschedule(kind, b, s)
      \/ \E b \in DOMAIN bookings : request = MarkOne(b)
      \/ \E n \in 1 .. MaxMarks : \E marked \in kSubset(n, DOMAIN bookings) :
           \E bs \in SetToSeqs(marked) : request = MarkMany(bs)
  BY DEF Requests
<1> QED
  BY <1>4, <1>5, <1>6, <1>7, <1>8, <1>9

(* A statement that takes no lock. *)
LEMMA TodoReplaced ==
  ASSUME NEW txn \in Txn, NEW rest
  PROVE  [txn EXCEPT !.todo = rest] =
           [kind |-> txn.kind, student |-> txn.student, todo |-> rest,
            begun |-> txn.begun, bookings |-> txn.bookings, sessions |-> txn.sessions]
BY DEF Txn

LEMMA DoneAfter ==
  ASSUME NEW w, NEW txn \in Txn, Done(w, txn)
  PROVE  txns' = [txns EXCEPT ![w] = After(txn, txn.begun, txn.bookings, txn.sessions)]
<1>1. [txn EXCEPT !.todo = Tail(@)] = After(txn, txn.begun, txn.bookings, txn.sessions)
  BY TodoReplaced, Zenon DEF After
<1> QED
  BY <1>1 DEF Done

LEMMA StatementKeeps ==
  ASSUME IInv, NEW w \in Workers, NEW txn, txn = txns[w], txn.todo # << >>,
         NEW begun \in SUBSET SessionIds, NEW bks \in BookingTable, NEW ses \in SessionTable,
         NEW next, next = After(txn, begun, bks, ses),
         Head(txn.todo).op # "LOCK",
         Head(txn.todo).op = "CHECK_DAY" =>
           Overlay(ses, sessions)[Head(txn.todo).row] = "SCHEDULED",
         UNCHANGED <<bookings, sessions, locks, started>>,
         txns' = [txns EXCEPT ![w] = next],
         Wrote(w, next), Views(w, next),
         \A v \in Workers \ {w} : DOMAIN txns[v].bookings \cap DOMAIN bks = {}
  PROVE  IInv'
<1>3. txn \in Txn /\ Planned(w, txn)
  BY DEF IInv, TypeInv, Keeps
<1>4. next \in Txn
  BY <1>3, AfterTyped
<1>5. /\ next.todo = Tail(txn.todo) /\ next.student = txn.student
      /\ next.bookings = bks /\ next.sessions = ses
  BY DEF After
<1>6. Planned(w, next)'
  <2>1. /\ UNCHANGED <<bookings, sessions>> /\ txn.todo # << >>
        /\ \A row \in Rows : locks[row] = w => locks'[row] = w
        /\ Head(txn.todo).op = "LOCK" => locks'[Head(txn.todo).row] = w
        /\ Head(txn.todo).op = "CHECK_DAY" =>
             Overlay(next.sessions, sessions)[Head(txn.todo).row] = "SCHEDULED"
    BY <1>5
  <2> QED
    BY <1>3, <1>4, <1>5, <2>1, PlannedRest
<1>8. \A v \in Workers \ {w} : DOMAIN txns[v].bookings \cap DOMAIN next.bookings = {}
  BY <1>5
<1> QED
  BY <1>4, <1>6, <1>8, OwnStep

(* Statements that only read. *)
LEMMA ReadKeeps ==
  ASSUME IInv, NEW w \in Workers, NEW txn, txn = txns[w], txn.todo # << >>,
         NEW begun \in SUBSET SessionIds,
         Head(txn.todo).op \in {"CLOCK", "CHECK_DAY"},
         Head(txn.todo).op = "CHECK_DAY" =>
           Overlay(txn.sessions, sessions)[Head(txn.todo).row] = "SCHEDULED",
         UNCHANGED <<bookings, sessions, locks, started>>,
         txns' = [txns EXCEPT ![w] = After(txn, begun, txn.bookings, txn.sessions)]
  PROVE  IInv'
<1>1. txn \in Txn
  BY DEF IInv, TypeInv
<1>2. txn.bookings \in BookingTable /\ txn.sessions \in SessionTable
  BY <1>1 DEF Txn
<1>3. PICK next : next = After(txn, begun, txn.bookings, txn.sessions)
  OBVIOUS
<1>4. next \in Txn
  BY <1>1, <1>2, <1>3, AfterTyped
<1>5. /\ next.bookings = txn.bookings /\ next.sessions = txn.sessions
      /\ next.todo = Tail(txn.todo)
  BY <1>3 DEF After
<1>6. Wrote(w, next) /\ Views(w, next)
  BY <1>4, <1>5, ReadStep
<1>7. \A v \in Workers \ {w} : DOMAIN txns[v].bookings \cap DOMAIN txn.bookings = {}
  BY DEF IInv, Apart
<1>8. Head(txn.todo).op # "LOCK"
  OBVIOUS
<1> QED
  BY <1>2, <1>3, <1>6, <1>7, <1>8, StatementKeeps

LEMMA ReadClockKeeps ==
  ASSUME IInv, NEW w \in Workers, ReadClock(w)
  PROVE  IInv'
<1> DEFINE txn == [txns[w] EXCEPT !.begun = started]
<1>1. txns[w] \in Txn /\ started \in SUBSET SessionIds
  BY DEF IInv, TypeInv
<1>2. /\ txn \in Txn /\ txn.begun = started
      /\ txn.bookings = txns[w].bookings /\ txn.sessions = txns[w].sessions
      /\ txn.kind = txns[w].kind /\ txn.student = txns[w].student
      /\ txn.todo = txns[w].todo
  BY <1>1 DEF Txn
<1>3. Done(w, txn)
  BY DEF ReadClock
<1> HIDE DEF txn
<1>4. txns' = [txns EXCEPT ![w] = After(txn, txn.begun, txn.bookings, txn.sessions)]
  BY <1>2, <1>3, DoneAfter
<1>5. After(txn, txn.begun, txn.bookings, txn.sessions) =
        After(txns[w], started, txns[w].bookings, txns[w].sessions)
  BY <1>2 DEF After
<1>6. /\ txns[w].todo # << >> /\ Head(txns[w].todo).op = "CLOCK"
      /\ UNCHANGED <<bookings, sessions, locks, started>>
  BY DEF ReadClock, Running
<1> QED
  BY <1>1, <1>4, <1>5, <1>6, ReadKeeps

LEMMA CheckDayKeeps ==
  ASSUME IInv, NEW w \in Workers, CheckDay(w)
  PROVE  IInv'
<1>1. txns[w] \in Txn /\ txns[w].begun \in SUBSET SessionIds
  BY DEF IInv, TypeInv, Txn
<1>2. txns' = [txns EXCEPT ![w] = After(txns[w], txns[w].begun, txns[w].bookings, txns[w].sessions)]
  BY <1>1, DoneAfter DEF CheckDay
<1>3. /\ txns[w].todo # << >> /\ Head(txns[w].todo).op = "CHECK_DAY"
      /\ UNCHANGED <<bookings, sessions, locks, started>>
      /\ Overlay(txns[w].sessions, sessions)[Head(txns[w].todo).row] = "SCHEDULED"
  BY DEF CheckDay, Accepted, MayTakeClass, Running, SessionsSeen, Row
<1> QED
  BY <1>1, <1>2, <1>3, ReadKeeps

(* One booking written over a table, and over what the table is laid over. *)
Put(t, b, row) == Overlay([k \in {b} |-> row], t)

Differs(new, old, b, row) ==
  /\ DOMAIN new = DOMAIN old \cup {b} /\ new[b] = row
  /\ \A k \in DOMAIN old \ {b} : new[k] = old[k]

LEMMA RowWritten ==
  ASSUME NEW t, NEW b, NEW row
  PROVE  Differs(Put(t, b, row), t, b, row)
<1>1. PICK bks : bks = Put(t, b, row)
  OBVIOUS
<1>2. /\ DOMAIN bks = DOMAIN t \cup {b} /\ bks[b] = row
      /\ \A k \in DOMAIN t \ {b} : bks[k] = t[k]
  BY <1>1 DEF Overlay, Put
<1> QED
  BY <1>1, <1>2 DEF Differs

LEMMA BookingWritten ==
  ASSUME NEW t, NEW table, NEW b, NEW row
  PROVE  /\ Differs(Put(t, b, row), t, b, row)
         /\ Differs(Overlay(Put(t, b, row), table), Overlay(t, table), b, row)
<1>1. PICK bks : bks = Put(t, b, row)
  OBVIOUS
<1>2. /\ DOMAIN bks = DOMAIN t \cup {b} /\ bks[b] = row
      /\ \A k \in DOMAIN t \ {b} : bks[k] = t[k]
  <2>1. Differs(bks, t, b, row)
    BY <1>1, RowWritten
  <2> QED
    BY <2>1 DEF Differs
<1>3. /\ DOMAIN Overlay(bks, table) = DOMAIN Overlay(t, table) \cup {b}
      /\ Overlay(bks, table)[b] = row
      /\ \A k \in DOMAIN Overlay(t, table) \ {b} : Overlay(bks, table)[k] = Overlay(t, table)[k]
  BY <1>2 DEF Overlay
<1>4. Differs(Overlay(bks, table), Overlay(t, table), b, row)
  BY <1>3 DEF Differs
<1> QED
  BY <1>1, <1>4, RowWritten

(* A statement that writes booking b of a locked class s, and perhaps the status
   of the class: what remains to be shown is about the class only. *)
LEMMA BookingWrite ==
  ASSUME IInv, NEW w \in Workers, NEW txn, txn = txns[w], txn.todo # << >>,
         Head(txn.todo).op \in {"TAKE_SEAT", "CANCEL", "MARK"},
         NEW b \in BookingIds, NEW row \in Booking, NEW s \in SessionIds,
         row.session = s, locks[s] = w,
         b \in DOMAIN bookings =>
           /\ locks[b] = w /\ bookings[b].session = s
           /\ bookings[b].status = "BOOKED" \/ row = bookings[b],
         b \in DOMAIN Overlay(txn.bookings, bookings) =>
           Overlay(txn.bookings, bookings)[b].session = s,
         \A v \in Workers \ {w} : b \notin DOMAIN txns[v].bookings,
         NEW bks, bks = Put(txn.bookings, b, row),
         NEW ses \in SessionTable,
         DOMAIN ses \subseteq DOMAIN txn.sessions \cup {s},
         \A k \in DOMAIN txn.sessions : k \in DOMAIN ses,
         \A k \in DOMAIN txn.sessions \ {s} : ses[k] = txn.sessions[k],
         s \in DOMAIN ses => sessions[s] = "SCHEDULED" \/ ses[s] = sessions[s],
         Fits(Overlay(bks, bookings), s),
         Agrees(Overlay(bks, bookings), Overlay(ses, sessions)[s], s),
         \/ Told(Overlay(bks, bookings), Overlay(ses, sessions)[s], s)
         \/ \E i \in 1 .. Len(Tail(txn.todo)) : Tail(txn.todo)[i] = Statement("COMPLETE", s),
         NEW next, next = After(txn, txn.begun, bks, ses)
  PROVE  /\ bks \in BookingTable /\ Wrote(w, next) /\ Views(w, next)
         /\ \A v \in Workers \ {w} : DOMAIN txns[v].bookings \cap DOMAIN bks = {}
<1> DEFINE new == Overlay(bks, bookings)
           old == Overlay(txn.bookings, bookings)
<1>1. /\ DOMAIN bks = DOMAIN txn.bookings \cup {b} /\ bks[b] = row
      /\ \A k \in DOMAIN txn.bookings \ {b} : bks[k] = txn.bookings[k]
      /\ DOMAIN new = DOMAIN old \cup {b} /\ new[b] = row
      /\ \A k \in DOMAIN old \ {b} : new[k] = old[k]
  <2>1. Differs(bks, txn.bookings, b, row) /\ Differs(new, old, b, row)
    BY BookingWritten
  <2> HIDE DEF new, old
  <2> QED
    BY <2>1 DEF Differs
<1>2. /\ txn \in Txn /\ Wrote(w, txn) /\ Views(w, txn) /\ bookings \in BookingTable
      /\ sessions \in [SessionIds -> SessionStatuses]
      /\ \A v \in Workers \ {w} : DOMAIN txns[v].bookings \cap DOMAIN txn.bookings = {}
  BY DEF IInv, TypeInv, Keeps, Apart
<1>3. txn.bookings \in BookingTable /\ txn.sessions \in SessionTable /\ txn.begun \in SUBSET SessionIds
  BY <1>2 DEF Txn
<1>4. bks \in BookingTable
  <2>1. /\ DOMAIN txn.bookings \subseteq BookingIds
        /\ \A k \in DOMAIN txn.bookings : txn.bookings[k] \in Booking
    BY <1>3, BookingTables
  <2>2. DOMAIN bks \subseteq BookingIds /\ \A k \in DOMAIN bks : bks[k] \in Booking
    BY <2>1, <1>1
  <2>3. bks = [k \in DOMAIN bks |-> bks[k]]
    BY DEF Overlay, Put
  <2> QED
    BY <2>2, <2>3, BookingTables
<1>5. old \in BookingTable /\ new \in BookingTable
  BY <1>2, <1>3, <1>4, OverlayOfBookings
<1>7. next.bookings = bks /\ next.sessions = ses /\ next.todo = Tail(txn.todo)
  BY DEF After
<1>8. Wrote(w, next)
  <2>1. ASSUME NEW k \in DOMAIN bks
        PROVE  /\ locks[bks[k].session] = w
               /\ k \in DOMAIN bookings =>
                    /\ locks[k] = w
                    /\ bks[k].session = bookings[k].session
                    /\ bookings[k].status = "BOOKED" \/ bks[k] = bookings[k]
    <3>1. CASE k = b
      BY <3>1, <1>1
    <3>2. CASE k # b
      BY <3>2, <1>1, <1>2 DEF Wrote
    <3> QED
      BY <3>1, <3>2
  <2>2. ASSUME NEW k \in DOMAIN ses
        PROVE  locks[k] = w /\ (sessions[k] = "SCHEDULED" \/ ses[k] = sessions[k])
    <3>1. CASE k = s
      BY <3>1
    <3>2. CASE k # s
      BY <3>2, <1>2 DEF Wrote
    <3> QED
      BY <3>1, <3>2
  <2> QED
    BY <2>1, <2>2, <1>7 DEF Wrote
<1> HIDE DEF new, old
<1>9. Views(w, next)
  <2>1. ASSUME NEW d \in SessionIds, locks[d] = w
        PROVE  /\ Fits(new, d) /\ Agrees(new, Overlay(ses, sessions)[d], d)
               /\ \/ Told(new, Overlay(ses, sessions)[d], d)
                  \/ \E i \in 1 .. Len(Tail(txn.todo)) : Tail(txn.todo)[i] = Statement("COMPLETE", d)
    <3>1. CASE d = s
      BY <3>1 DEF new
    <3>2. CASE d # s
      <4>1. /\ ActiveBookingsOf(new, d) = ActiveBookingsOf(old, d)
            /\ BookedBookingsOf(new, d) = BookedBookingsOf(old, d)
        <5>1. \A k \in DOMAIN new : new[k].session = d => k \in DOMAIN old /\ old[k] = new[k]
          BY <3>2, <1>1
        <5>2. \A k \in DOMAIN old : old[k].session = d => k \in DOMAIN new /\ old[k] = new[k]
          BY <3>2, <1>1 DEF old
        <5> QED
          BY <5>1, <5>2, <1>5, SameSeats
      <4>2. Overlay(ses, sessions)[d] = Overlay(txn.sessions, sessions)[d]
        BY <3>2, <1>2 DEF Overlay
      <4>3. /\ Fits(old, d) /\ Agrees(old, Overlay(ses, sessions)[d], d)
            /\ \/ Told(old, Overlay(ses, sessions)[d], d)
               \/ \E i \in 1 .. Len(txn.todo) : txn.todo[i] = Statement("COMPLETE", d)
        BY <4>2, <2>1, <1>2 DEF Views, old
      <4>4. Head(txn.todo) # Statement("COMPLETE", d)
        BY DEF Statement
      <4>5. (\E i \in 1 .. Len(txn.todo) : txn.todo[i] = Statement("COMPLETE", d)) =>
              \E i \in 1 .. Len(Tail(txn.todo)) : Tail(txn.todo)[i] = Statement("COMPLETE", d)
        BY <4>4, <1>2, StillToComplete
      <4> QED
        BY <4>1, <4>3, <4>5 DEF Fits, Agrees, Told
    <3> QED
      BY <3>1, <3>2
  <2> QED
    BY <2>1, <1>7 DEF Views, new
<1>10. \A v \in Workers \ {w} : DOMAIN txns[v].bookings \cap DOMAIN bks = {}
  BY <1>1, <1>2
<1> QED
  BY <1>4, <1>8, <1>9, <1>10

LEMMA InsertBookingKeeps ==
  ASSUME IInv, NEW w \in Workers, InsertBooking(w)
  PROVE  IInv'
<1>1. PICK txn : txn = txns[w]
  OBVIOUS
<1>2. /\ txn \in Txn /\ PlannedAt(w, txn, 1) /\ Views(w, txn) /\ bookings \in BookingTable
      /\ txn.todo # << >> /\ Head(txn.todo).op = "TAKE_SEAT" /\ Head(txn.todo) = txn.todo[1]
  <2>1. txn \in Txn /\ Planned(w, txn) /\ Views(w, txn) /\ bookings \in BookingTable
    BY <1>1 DEF IInv, TypeInv, Keeps
  <2>2. txn.todo # << >> /\ Head(txn.todo).op = "TAKE_SEAT"
    BY <1>1 DEF InsertBooking, Running
  <2>3. 1 \in 1 .. Len(txn.todo) /\ Head(txn.todo) = txn.todo[1]
    BY <2>1, <2>2 DEF Txn
  <2> QED
    BY <2>1, <2>2, <2>3 DEF Planned
<1>3. PICK s : s = Head(txn.todo).row
  OBVIOUS
<1>4. /\ s \in SessionIds /\ locks[s] = w /\ txn.student \in StudentIds
      /\ Overlay(txn.sessions, sessions)[s] = "SCHEDULED"
  BY <1>2, <1>3 DEF PlannedAt, Holds
<1>5. PICK old : old = Overlay(txn.bookings, bookings)
  OBVIOUS
<1>6. /\ Cardinality(ActiveBookingsOf(old, s)) < Capacity[s]
      /\ BookingIds \ KeysInUse # {}
  BY <1>1, <1>2, <1>3, <1>5
  DEF InsertBooking, Accepted, Running, MayTakeSeat, CapacityAvailable, BookingsSeen, Row
<1>7. PICK b : b = CHOOSE k \in BookingIds : k \notin KeysInUse
  OBVIOUS
<1>8. b \in BookingIds /\ b \notin KeysInUse
  BY <1>6, <1>7
<1>9. b \notin DOMAIN bookings /\ \A v \in Workers : b \notin DOMAIN txns[v].bookings
  BY <1>8 DEF KeysInUse
<1>10. PICK row : row = [student |-> txn.student, session |-> s, status |-> "BOOKED"]
  OBVIOUS
<1>11. row \in Booking /\ row.session = s /\ row.status = "BOOKED"
  BY <1>4, <1>10 DEF Booking, BookingStatuses
<1>12. PICK bks : bks = Put(txn.bookings, b, row)
  OBVIOUS
<1>13. PICK new : new = Overlay(bks, bookings)
  OBVIOUS
<1>14. b \notin DOMAIN old /\ Differs(new, old, b, row)
  <2>1. b \notin DOMAIN old
    BY <1>1, <1>5, <1>9 DEF Overlay
  <2>2. Differs(new, old, b, row)
    BY <1>5, <1>12, <1>13, BookingWritten
  <2> QED
    BY <2>1, <2>2
<1>15. txn.bookings \in BookingTable /\ txn.sessions \in SessionTable /\ txn.begun \in SUBSET SessionIds
  BY <1>2 DEF Txn
<1>16. old \in BookingTable
  BY <1>2, <1>5, <1>15, OverlayOfBookings
<1>17. /\ ActiveBookingsOf(new, s) = ActiveBookingsOf(old, s) \cup {b}
       /\ BookedBookingsOf(new, s) # {} /\ b \notin ActiveBookingsOf(old, s)
  BY <1>11, <1>14 DEF Differs, ActiveBookingsOf, BookedBookingsOf
<1>18. Fits(new, s)
  <2>1. /\ IsFiniteSet(ActiveBookingsOf(old, s))
        /\ Cardinality(ActiveBookingsOf(old, s)) \in Nat /\ Capacity[s] \in Nat
    BY <1>4, <1>16, SeatsFinite, SeatsAssumption
  <2>2. Cardinality(ActiveBookingsOf(new, s)) = Cardinality(ActiveBookingsOf(old, s)) + 1
    BY <1>17, <2>1, FS_AddElement
  <2> QED
    BY <1>6, <2>1, <2>2 DEF Fits
<1>19. PICK ses : ses = txn.sessions
  OBVIOUS
<1>20. Agrees(new, Overlay(ses, sessions)[s], s) /\ Told(new, Overlay(ses, sessions)[s], s)
  BY <1>4, <1>17, <1>19 DEF Agrees, Told
<1>21. s \in DOMAIN ses => sessions[s] = "SCHEDULED" \/ ses[s] = sessions[s]
  BY <1>1, <1>19 DEF IInv, Keeps, Wrote
<1>22. PICK next : next = After(txn, txn.begun, bks, ses)
  OBVIOUS
<1>23. /\ bks \in BookingTable /\ Wrote(w, next) /\ Views(w, next)
       /\ \A v \in Workers \ {w} : DOMAIN txns[v].bookings \cap DOMAIN bks = {}
  BY <1>1, <1>2, <1>4, <1>5, <1>8, <1>9, <1>11, <1>12, <1>13, <1>14, <1>15, <1>18, <1>19,
     <1>20, <1>21, <1>22, BookingWrite
<1>24. txns' = [txns EXCEPT ![w] = next] /\ UNCHANGED <<bookings, sessions, locks, started>>
  <2>1. PICK done : done = WriteBooking(txn, b, row)
    OBVIOUS
  <2>2. /\ done.bookings = bks /\ done.sessions = ses /\ done.kind = txn.kind
        /\ done.student = txn.student /\ done.todo = txn.todo /\ done.begun = txn.begun
    BY <2>1, <1>2, <1>12, <1>19 DEF WriteBooking, Put, Txn
  <2>3. done \in Txn
    BY <2>1, <2>2, <1>2, <1>15, <1>19, <1>23 DEF WriteBooking, Txn
  <2>4. Done(w, done) /\ UNCHANGED <<bookings, sessions, locks, started>>
    BY <2>1, <1>1, <1>3, <1>7, <1>10 DEF InsertBooking, Row
  <2>5. txns' = [txns EXCEPT ![w] = After(done, done.begun, done.bookings, done.sessions)]
    BY <2>3, <2>4, DoneAfter
  <2> QED
    BY <2>2, <2>4, <2>5, <1>22 DEF After
<1>25. Head(txn.todo).op # "LOCK" /\ Head(txn.todo).op # "CHECK_DAY"
  BY <1>2
<1> QED
  BY <1>1, <1>2, <1>15, <1>19, <1>22, <1>23, <1>24, <1>25, StatementKeeps

(* A booking that is written was committed, and nobody else has written it. *)
LEMMA SeenSeat ==
  ASSUME IInv, NEW w \in Workers, NEW txn, txn = txns[w], NEW b \in DOMAIN bookings,
         locks[b] = w, NEW seen, seen = Overlay(txn.bookings, bookings)[b]
  PROVE  /\ b \in BookingIds /\ seen \in Booking /\ seen.session = bookings[b].session
         /\ bookings[b].status = "BOOKED" \/ seen = bookings[b]
         /\ \A v \in Workers \ {w} : b \notin DOMAIN txns[v].bookings
<1>1. /\ txn \in Txn /\ Wrote(w, txn) /\ bookings \in BookingTable
      /\ \A v \in Workers : Wrote(v, txns[v])
  BY DEF IInv, TypeInv, Keeps
<1>2. txn.bookings \in BookingTable
  BY <1>1 DEF Txn
<1>3. /\ b \in BookingIds /\ bookings[b] \in Booking
      /\ b \in DOMAIN txn.bookings => txn.bookings[b] \in Booking
  BY <1>1, <1>2, BookingTables
<1>4. seen = IF b \in DOMAIN txn.bookings THEN txn.bookings[b] ELSE bookings[b]
  BY DEF Overlay
<1>5. \A v \in Workers \ {w} : b \notin DOMAIN txns[v].bookings
  BY <1>1 DEF Wrote
<1> QED
  BY <1>1, <1>3, <1>4, <1>5 DEF Wrote

(* The bookings of a class after one of them has been cancelled, or marked. *)
LEMMA SeatCancelled ==
  ASSUME NEW old \in BookingTable, NEW new, NEW b \in DOMAIN old, NEW row \in Booking,
         Differs(new, old, b, row), NEW s, row.session = s, old[b].session = s,
         row.status = "CANCELLED"
  PROVE  /\ BookedBookingsOf(new, s) = BookedBookingsOf(old, s) \ {b}
         /\ ActiveBookingsOf(new, s) = ActiveBookingsOf(old, s) \ {b}
<1>1. BookedBookingsOf(new, s) = BookedBookingsOf(old, s) \ {b}
  BY DEF Differs, BookedBookingsOf
<1>2. ActiveBookingsOf(new, s) = ActiveBookingsOf(old, s) \ {b}
  BY DEF Differs, ActiveBookingsOf
<1> QED
  BY <1>1, <1>2

LEMMA SeatMarked ==
  ASSUME NEW old \in BookingTable, NEW new, NEW b \in DOMAIN old, NEW row \in Booking,
         Differs(new, old, b, row), NEW s, row.session = s, old[b].session = s,
         row.status = "ATTENDED", old[b].status # "CANCELLED"
  PROVE  /\ BookedBookingsOf(new, s) = BookedBookingsOf(old, s) \ {b}
         /\ ActiveBookingsOf(new, s) = ActiveBookingsOf(old, s)
<1>1. BookedBookingsOf(new, s) = BookedBookingsOf(old, s) \ {b}
  BY DEF Differs, BookedBookingsOf
<1>2. ActiveBookingsOf(new, s) = ActiveBookingsOf(old, s)
  BY DEF Differs, ActiveBookingsOf
<1> QED
  BY <1>1, <1>2

LEMMA MarkBookingKeeps ==
  ASSUME IInv, NEW w \in Workers, MarkBooking(w)
  PROVE  IInv'
<1>1. PICK txn : txn = txns[w]
  OBVIOUS
<1>2. /\ txn \in Txn /\ Views(w, txn) /\ Wrote(w, txn) /\ bookings \in BookingTable
      /\ Planned(w, txn) /\ sessions \in [SessionIds -> SessionStatuses]
      /\ txn.todo # << >> /\ Head(txn.todo).op = "MARK"
  BY <1>1 DEF IInv, TypeInv, Keeps, MarkBooking, Running
<1>3. PICK b : b = Head(txn.todo).row
  OBVIOUS
<1>4. PICK last : last = txn.todo[Len(txn.todo)]
  OBVIOUS
<1>5. PICK s : s = last.row
  OBVIOUS
<1>6. /\ Len(txn.todo) \in Nat /\ 1 \in 1 .. Len(txn.todo)
      /\ Len(txn.todo) \in 1 .. Len(txn.todo) /\ Head(txn.todo) = txn.todo[1]
  BY <1>2 DEF Txn
<1>7. PlannedAt(w, txn, 1) /\ PlannedAt(w, txn, Len(txn.todo))
  BY <1>2, <1>6 DEF Planned
<1>8. /\ b \in DOMAIN bookings /\ locks[b] = w /\ last.op = "COMPLETE" /\ locks[s] = w
  BY <1>2, <1>3, <1>4, <1>5, <1>6, <1>7 DEF PlannedAt, Holds
<1>9. s \in SessionIds
  BY <1>4, <1>5, <1>7, <1>8 DEF PlannedAt
<1>10. last = Statement("COMPLETE", s)
  <2>1. last \in [op: Ops, row: Rows]
    BY <1>2, <1>4, <1>6, ElementOfSeq DEF Txn
  <2> QED
    BY <2>1, <1>5, <1>8 DEF Statement
<1>11. PICK old : old = Overlay(txn.bookings, bookings)
  OBVIOUS
<1>12. PICK seen : seen = old[b]
  OBVIOUS
<1>13. /\ b \in BookingIds /\ seen \in Booking /\ seen.session = bookings[b].session
       /\ bookings[b].status = "BOOKED" \/ seen = bookings[b]
       /\ \A v \in Workers \ {w} : b \notin DOMAIN txns[v].bookings
  BY <1>1, <1>8, <1>11, <1>12, SeenSeat
<1>14. PICK status : status = Overlay(txn.sessions, sessions)[s]
  OBVIOUS
<1>15. seen.session = s /\ seen.status # "CANCELLED" /\ status # "CANCELLED"
  BY <1>1, <1>2, <1>3, <1>4, <1>5, <1>11, <1>12, <1>14
  DEF MarkBooking, Accepted, Running, MayMark, ClassMarked, BookingsSeen, SessionsSeen, Row
<1>16. PICK row : row = [seen EXCEPT !.status = "ATTENDED"]
  OBVIOUS
<1>17. /\ row \in Booking /\ row.session = s /\ row.status = "ATTENDED"
       /\ seen.status # "BOOKED" => row = seen
  BY <1>13, <1>15, <1>16 DEF Booking, BookingStatuses
<1>18. bookings[b].status = "BOOKED" \/ row = bookings[b]
  BY <1>13, <1>17
<1>19. PICK bks : bks = Put(txn.bookings, b, row)
  OBVIOUS
<1>20. PICK new : new = Overlay(bks, bookings)
  OBVIOUS
<1>21. Differs(new, old, b, row)
  BY <1>11, <1>19, <1>20, BookingWritten
<1>22. txn.bookings \in BookingTable /\ txn.sessions \in SessionTable /\ txn.begun \in SUBSET SessionIds
  BY <1>2 DEF Txn
<1>23. old \in BookingTable /\ b \in DOMAIN old
  <2>1. old \in BookingTable
    BY <1>2, <1>11, <1>22, OverlayOfBookings
  <2>2. b \in DOMAIN old
    BY <1>8, <1>11 DEF Overlay
  <2> QED
    BY <2>1, <2>2
<1>24. /\ BookedBookingsOf(new, s) = BookedBookingsOf(old, s) \ {b}
       /\ ActiveBookingsOf(new, s) = ActiveBookingsOf(old, s)
  <2>1. /\ old[b].session = s /\ old[b].status # "CANCELLED"
        /\ row \in Booking /\ row.session = s /\ row.status = "ATTENDED"
    BY <1>12, <1>15, <1>17
  <2> QED
    BY <2>1, <1>21, <1>23, SeatMarked
<1>25. Fits(old, s) /\ Agrees(old, status, s)
  BY <1>2, <1>8, <1>9, <1>11, <1>14 DEF Views
<1>26. PICK ses : ses = txn.sessions
  OBVIOUS
<1>27. Fits(new, s) /\ Agrees(new, Overlay(ses, sessions)[s], s)
  BY <1>14, <1>24, <1>25, <1>26 DEF Fits, Agrees
<1>28. \E i \in 1 .. Len(Tail(txn.todo)) : Tail(txn.todo)[i] = Statement("COMPLETE", s)
  <2>1. Head(txn.todo) # Statement("COMPLETE", s)
    BY <1>2 DEF Statement
  <2> QED
    BY <2>1, <1>2, <1>4, <1>6, <1>10, StillToComplete
<1>29. s \in DOMAIN ses => sessions[s] = "SCHEDULED" \/ ses[s] = sessions[s]
  BY <1>2, <1>26 DEF Wrote
<1>30. PICK next : next = After(txn, txn.begun, bks, ses)
  OBVIOUS
<1>31. /\ bks \in BookingTable /\ Wrote(w, next) /\ Views(w, next)
       /\ \A v \in Workers \ {w} : DOMAIN txns[v].bookings \cap DOMAIN bks = {}
  <2>1. b \in DOMAIN bookings =>
          /\ locks[b] = w /\ bookings[b].session = s
          /\ bookings[b].status = "BOOKED" \/ row = bookings[b]
    BY <1>8, <1>13, <1>15, <1>18
  <2>2. b \in DOMAIN Overlay(txn.bookings, bookings) =>
          Overlay(txn.bookings, bookings)[b].session = s
    BY <1>11, <1>12, <1>15
  <2>3. /\ DOMAIN ses \subseteq DOMAIN txn.sessions \cup {s}
        /\ \A k \in DOMAIN txn.sessions : k \in DOMAIN ses
        /\ \A k \in DOMAIN txn.sessions \ {s} : ses[k] = txn.sessions[k]
    BY <1>26
  <2>4. /\ Fits(Overlay(bks, bookings), s)
        /\ Agrees(Overlay(bks, bookings), Overlay(ses, sessions)[s], s)
    BY <1>20, <1>27
  <2>5. ses \in SessionTable
    BY <1>22, <1>26
  <2> QED
    BY <1>1, <1>2, <1>8, <1>9, <1>13, <1>17, <1>19, <1>28, <1>29, <1>30,
       <2>1, <2>2, <2>3, <2>4, <2>5, BookingWrite
<1>32. txns' = [txns EXCEPT ![w] = next] /\ UNCHANGED <<bookings, sessions, locks, started>>
  <2>1. PICK done : done = WriteBooking(txn, b, row)
    OBVIOUS
  <2>2. /\ done.bookings = bks /\ done.sessions = ses /\ done.kind = txn.kind
        /\ done.student = txn.student /\ done.todo = txn.todo /\ done.begun = txn.begun
    BY <2>1, <1>2, <1>19, <1>26 DEF WriteBooking, Put, Txn
  <2>3. done \in Txn
    BY <2>1, <2>2, <1>2, <1>22, <1>26, <1>31 DEF WriteBooking, Txn
  <2>4. Done(w, done) /\ UNCHANGED <<bookings, sessions, locks, started>>
    BY <2>1, <1>1, <1>3, <1>11, <1>12, <1>16 DEF MarkBooking, Row, BookingsSeen
  <2>5. txns' = [txns EXCEPT ![w] = After(done, done.begun, done.bookings, done.sessions)]
    BY <2>3, <2>4, DoneAfter
  <2> QED
    BY <2>2, <2>4, <2>5, <1>30 DEF After
<1>33. Head(txn.todo).op # "LOCK" /\ Head(txn.todo).op # "CHECK_DAY"
  BY <1>2
<1> QED
  BY <1>1, <1>2, <1>22, <1>26, <1>30, <1>31, <1>32, <1>33, StatementKeeps

LEMMA CancelBookingKeeps ==
  ASSUME IInv, NEW w \in Workers, CancelBooking(w)
  PROVE  IInv'
<1>1. PICK txn : txn = txns[w]
  OBVIOUS
<1>2. /\ txn \in Txn /\ Views(w, txn) /\ Wrote(w, txn) /\ bookings \in BookingTable
      /\ Planned(w, txn) /\ sessions \in [SessionIds -> SessionStatuses]
      /\ txn.todo # << >> /\ Head(txn.todo).op = "CANCEL"
  BY <1>1 DEF IInv, TypeInv, Keeps, CancelBooking, Running
<1>3. PICK b : b = Head(txn.todo).row
  OBVIOUS
<1>4. PICK s : s = bookings[b].session
  OBVIOUS
<1>5. 1 \in 1 .. Len(txn.todo) /\ Head(txn.todo) = txn.todo[1]
  BY <1>2 DEF Txn
<1>6. PlannedAt(w, txn, 1)
  BY <1>2, <1>5 DEF Planned
<1>7. b \in DOMAIN bookings /\ locks[b] = w /\ locks[s] = w
  BY <1>2, <1>3, <1>4, <1>5, <1>6 DEF PlannedAt, Holds
<1>8. s \in SessionIds
  BY <1>2, <1>4, <1>7, BookingTables DEF Booking
<1>9. PICK old : old = Overlay(txn.bookings, bookings)
  OBVIOUS
<1>10. PICK seen : seen = old[b]
  OBVIOUS
<1>11. /\ b \in BookingIds /\ seen \in Booking /\ seen.session = s
       /\ bookings[b].status = "BOOKED" \/ seen = bookings[b]
       /\ \A v \in Workers \ {w} : b \notin DOMAIN txns[v].bookings
  BY <1>1, <1>4, <1>7, <1>9, <1>10, SeenSeat
<1>12. PICK status : status = Overlay(txn.sessions, sessions)[s]
  OBVIOUS
<1>13. seen.status = "BOOKED" /\ bookings[b].status = "BOOKED"
  <2>1. seen.status = "BOOKED"
    BY <1>1, <1>2, <1>3, <1>9, <1>10
    DEF CancelBooking, Accepted, Running, MayCancel, BookingsSeen, Row
  <2> QED
    BY <2>1, <1>11
<1>14. txn.bookings \in BookingTable /\ txn.sessions \in SessionTable /\ txn.begun \in SUBSET SessionIds
  BY <1>2 DEF Txn
<1>15. old \in BookingTable /\ b \in DOMAIN old
  <2>1. old \in BookingTable
    BY <1>2, <1>9, <1>14, OverlayOfBookings
  <2>2. b \in DOMAIN old
    BY <1>7, <1>9 DEF Overlay
  <2> QED
    BY <2>1, <2>2
<1>16. Fits(old, s) /\ Agrees(old, status, s)
  BY <1>2, <1>7, <1>8, <1>9, <1>12 DEF Views
<1>17. b \in BookedBookingsOf(old, s)
  BY <1>10, <1>11, <1>13, <1>15 DEF BookedBookingsOf
<1>18. status = "SCHEDULED" /\ sessions[s] = "SCHEDULED"
  <2>1. status = IF s \in DOMAIN txn.sessions THEN txn.sessions[s] ELSE sessions[s]
    BY <1>2, <1>8, <1>12 DEF Overlay
  <2>2. status \in SessionStatuses
    <3>1. s \in DOMAIN txn.sessions => txn.sessions[s] \in SessionStatuses
      BY <1>14, SessionTables
    <3> QED
      BY <3>1, <2>1, <1>2, <1>8
  <2>3. status = "SCHEDULED"
    BY <2>2, <1>16, <1>17 DEF Agrees, SessionStatuses
  <2> QED
    BY <2>1, <2>3, <1>2 DEF Wrote
<1>19. PICK row : row = [seen EXCEPT !.status = "CANCELLED"]
  OBVIOUS
<1>20. row \in Booking /\ row.session = s /\ row.status = "CANCELLED"
  BY <1>11, <1>19 DEF Booking, BookingStatuses
<1>21. PICK bks : bks = Put(txn.bookings, b, row)
  OBVIOUS
<1>22. PICK new : new = Overlay(bks, bookings)
  OBVIOUS
<1>23. Differs(new, old, b, row)
  BY <1>9, <1>21, <1>22, BookingWritten
<1>24. /\ BookedBookingsOf(new, s) = BookedBookingsOf(old, s) \ {b}
       /\ ActiveBookingsOf(new, s) = ActiveBookingsOf(old, s) \ {b}
  <2>1. old[b].session = s
    BY <1>10, <1>11
  <2> QED
    BY <2>1, <1>15, <1>20, <1>23, SeatCancelled
<1>25. Fits(new, s)
  <2>1. IsFiniteSet(ActiveBookingsOf(old, s)) /\ Capacity[s] \in Nat
    BY <1>8, <1>15, SeatsFinite, SeatsAssumption
  <2>2. ActiveBookingsOf(new, s) \subseteq ActiveBookingsOf(old, s)
    BY <1>24
  <2>3. /\ IsFiniteSet(ActiveBookingsOf(new, s))
        /\ Cardinality(ActiveBookingsOf(new, s)) <= Cardinality(ActiveBookingsOf(old, s))
    BY <2>1, <2>2, FS_Subset
  <2>4. /\ Cardinality(ActiveBookingsOf(new, s)) \in Nat
        /\ Cardinality(ActiveBookingsOf(old, s)) \in Nat
    BY <2>1, <2>3, FS_CardinalityType
  <2> QED
    BY <2>1, <2>3, <2>4, <1>16 DEF Fits
<1>26. PICK empty : empty = (BookedBookingsOf(old, s) \subseteq {b})
  OBVIOUS
<1>27. PICK ses : ses = IF empty THEN Put(txn.sessions, s, "CANCELLED") ELSE txn.sessions
  OBVIOUS
<1>28. /\ DOMAIN ses = IF empty THEN DOMAIN txn.sessions \cup {s} ELSE DOMAIN txn.sessions
       /\ \A k \in DOMAIN txn.sessions \ {s} : ses[k] = txn.sessions[k]
       /\ empty => ses[s] = "CANCELLED"
  <2>1. empty => Differs(ses, txn.sessions, s, "CANCELLED")
    BY <1>27, RowWritten
  <2> QED
    BY <2>1, <1>27 DEF Differs
<1>29. ses \in SessionTable
  <2>1. /\ DOMAIN txn.sessions \subseteq SessionIds
        /\ \A k \in DOMAIN txn.sessions : txn.sessions[k] \in SessionStatuses
    BY <1>14, SessionTables
  <2>2. DOMAIN ses \subseteq SessionIds /\ \A k \in DOMAIN ses : ses[k] \in SessionStatuses
    BY <2>1, <1>8, <1>27, <1>28 DEF SessionStatuses
  <2>3. CASE empty
    <3>1. ses = [k \in DOMAIN ses |-> ses[k]]
      BY <2>3, <1>27 DEF Put, Overlay
    <3> QED
      BY <3>1, <2>2, SessionTables
  <2>4. CASE ~empty
    BY <2>4, <1>14, <1>27
  <2> QED
    BY <2>3, <2>4
<1>30. Overlay(ses, sessions)[s] = IF empty THEN "CANCELLED" ELSE "SCHEDULED"
  BY <1>2, <1>8, <1>12, <1>18, <1>27, <1>28 DEF Overlay
<1>31. Agrees(new, Overlay(ses, sessions)[s], s) /\ Told(new, Overlay(ses, sessions)[s], s)
  BY <1>24, <1>26, <1>30 DEF Agrees, Told
<1>32. PICK next : next = After(txn, txn.begun, bks, ses)
  OBVIOUS
<1>33. /\ bks \in BookingTable /\ Wrote(w, next) /\ Views(w, next)
       /\ \A v \in Workers \ {w} : DOMAIN txns[v].bookings \cap DOMAIN bks = {}
  <2>1. b \in DOMAIN bookings =>
          /\ locks[b] = w /\ bookings[b].session = s
          /\ bookings[b].status = "BOOKED" \/ row = bookings[b]
    BY <1>4, <1>7, <1>13
  <2>2. b \in DOMAIN Overlay(txn.bookings, bookings) =>
          Overlay(txn.bookings, bookings)[b].session = s
    BY <1>9, <1>10, <1>11
  <2>3. /\ DOMAIN ses \subseteq DOMAIN txn.sessions \cup {s}
        /\ \A k \in DOMAIN txn.sessions : k \in DOMAIN ses
        /\ s \in DOMAIN ses => sessions[s] = "SCHEDULED" \/ ses[s] = sessions[s]
    BY <1>18, <1>28
  <2>4. /\ Fits(Overlay(bks, bookings), s)
        /\ Agrees(Overlay(bks, bookings), Overlay(ses, sessions)[s], s)
        /\ Told(Overlay(bks, bookings), Overlay(ses, sessions)[s], s)
    BY <1>22, <1>25, <1>31
  <2> QED
    BY <1>1, <1>2, <1>7, <1>8, <1>11, <1>20, <1>21, <1>28, <1>29, <1>32,
       <2>1, <2>2, <2>3, <2>4, BookingWrite
<1>34. txns' = [txns EXCEPT ![w] = next] /\ UNCHANGED <<bookings, sessions, locks, started>>
  <2>1. PICK done : done = IF empty THEN WriteSession(WriteBooking(txn, b, row), s, "CANCELLED")
                           ELSE WriteBooking(txn, b, row)
    OBVIOUS
  <2>2. /\ done.bookings = bks /\ done.sessions = ses /\ done.kind = txn.kind
        /\ done.student = txn.student /\ done.todo = txn.todo /\ done.begun = txn.begun
        /\ DOMAIN done = {"kind", "student", "todo", "begun", "bookings", "sessions"}
    BY <2>1, <1>2, <1>21, <1>27 DEF WriteSession, WriteBooking, Put, Txn
  <2>3. done \in Txn
    BY <2>1, <2>2, <1>2, <1>14, <1>29, <1>33 DEF WriteSession, WriteBooking, Txn
  <2>4. Done(w, done) /\ UNCHANGED <<bookings, sessions, locks, started>>
    BY <2>1, <1>1, <1>3, <1>4, <1>9, <1>10, <1>12, <1>18, <1>19, <1>26
    DEF CancelBooking, Row, BookingsSeen, SessionsSeen
  <2>5. txns' = [txns EXCEPT ![w] = After(done, done.begun, done.bookings, done.sessions)]
    BY <2>3, <2>4, DoneAfter
  <2> QED
    BY <2>2, <2>4, <2>5, <1>32 DEF After
<1>35. Head(txn.todo).op # "LOCK" /\ Head(txn.todo).op # "CHECK_DAY"
  BY <1>2
<1> QED
  BY <1>1, <1>2, <1>14, <1>29, <1>32, <1>33, <1>34, <1>35, StatementKeeps

LEMMA CompleteClassKeeps ==
  ASSUME IInv, NEW w \in Workers, CompleteClass(w)
  PROVE  IInv'
<1>1. PICK txn : txn = txns[w]
  OBVIOUS
<1>2. /\ txn \in Txn /\ Views(w, txn) /\ Wrote(w, txn) /\ bookings \in BookingTable
      /\ Planned(w, txn) /\ sessions \in [SessionIds -> SessionStatuses]
      /\ txn.todo # << >> /\ Head(txn.todo).op = "COMPLETE"
      /\ \A v \in Workers \ {w} : DOMAIN txns[v].bookings \cap DOMAIN txn.bookings = {}
  BY <1>1 DEF IInv, TypeInv, Keeps, CompleteClass, Running, Apart
<1>3. PICK s : s = Head(txn.todo).row
  OBVIOUS
<1>4. 1 \in 1 .. Len(txn.todo) /\ Head(txn.todo) = txn.todo[1]
  BY <1>2 DEF Txn
<1>5. PlannedAt(w, txn, 1)
  BY <1>2, <1>4 DEF Planned
<1>6. s \in SessionIds /\ locks[s] = w
  BY <1>2, <1>3, <1>4, <1>5 DEF PlannedAt, Holds
<1>7. PICK bks : bks = Overlay(txn.bookings, bookings)
  OBVIOUS
<1>8. PICK status : status = Overlay(txn.sessions, sessions)[s]
  OBVIOUS
<1>9. txn.bookings \in BookingTable /\ txn.sessions \in SessionTable /\ txn.begun \in SUBSET SessionIds
  BY <1>2 DEF Txn
<1>10. /\ status = IF s \in DOMAIN txn.sessions THEN txn.sessions[s] ELSE sessions[s]
       /\ status \in SessionStatuses
  <2>1. status = IF s \in DOMAIN txn.sessions THEN txn.sessions[s] ELSE sessions[s]
    BY <1>2, <1>6, <1>8 DEF Overlay
  <2>2. s \in DOMAIN txn.sessions => txn.sessions[s] \in SessionStatuses
    BY <1>9, SessionTables
  <2> QED
    BY <2>1, <2>2, <1>2, <1>6
<1>11. PICK taken : taken = (/\ status # "CANCELLED" /\ ActiveBookingsOf(bks, s) # {}
                             /\ BookedBookingsOf(bks, s) = {})
  OBVIOUS
<1>12. PICK ses : ses = IF taken THEN Put(txn.sessions, s, "COMPLETED") ELSE txn.sessions
  OBVIOUS
<1>13. /\ DOMAIN ses = IF taken THEN DOMAIN txn.sessions \cup {s} ELSE DOMAIN txn.sessions
       /\ \A k \in DOMAIN txn.sessions \ {s} : ses[k] = txn.sessions[k]
       /\ taken => ses[s] = "COMPLETED"
  <2>1. taken => Differs(ses, txn.sessions, s, "COMPLETED")
    BY <1>12, RowWritten
  <2> QED
    BY <2>1, <1>12 DEF Differs
<1>14. ses \in SessionTable
  <2>1. /\ DOMAIN txn.sessions \subseteq SessionIds
        /\ \A k \in DOMAIN txn.sessions : txn.sessions[k] \in SessionStatuses
    BY <1>9, SessionTables
  <2>2. DOMAIN ses \subseteq SessionIds /\ \A k \in DOMAIN ses : ses[k] \in SessionStatuses
    BY <2>1, <1>6, <1>12, <1>13 DEF SessionStatuses
  <2>3. CASE taken
    <3>1. ses = [k \in DOMAIN ses |-> ses[k]]
      BY <2>3, <1>12 DEF Put, Overlay
    <3> QED
      BY <3>1, <2>2, SessionTables
  <2>4. CASE ~taken
    BY <2>4, <1>9, <1>12
  <2> QED
    BY <2>3, <2>4
<1>15. Overlay(ses, sessions)[s] = IF taken THEN "COMPLETED" ELSE status
  BY <1>2, <1>6, <1>8, <1>12, <1>13 DEF Overlay
<1>16. PICK next : next = After(txn, txn.begun, txn.bookings, ses)
  OBVIOUS
<1>17. next.bookings = txn.bookings /\ next.sessions = ses /\ next.todo = Tail(txn.todo)
  BY <1>16 DEF After
<1>18. Wrote(w, next)
  <2>1. ASSUME NEW k \in DOMAIN ses
        PROVE  locks[k] = w /\ (sessions[k] = "SCHEDULED" \/ ses[k] = sessions[k])
    <3>1. CASE k = s /\ taken
      <4>1. status # "CANCELLED" /\ ses[s] = "COMPLETED"
        BY <3>1, <1>11, <1>13
      <4>2. s \in DOMAIN txn.sessions => sessions[s] = "SCHEDULED" \/ status = sessions[s]
        BY <1>2, <1>10 DEF Wrote
      <4> QED
        BY <3>1, <4>1, <4>2, <1>6, <1>10 DEF SessionStatuses
    <3>2. CASE k # s \/ ~taken
      BY <3>2, <1>2, <1>12, <1>13 DEF Wrote
    <3> QED
      BY <3>1, <3>2
  <2> QED
    BY <2>1, <1>2, <1>17 DEF Wrote
<1>19. Views(w, next)
  <2>1. ASSUME NEW d \in SessionIds, locks[d] = w
        PROVE  /\ Fits(bks, d) /\ Agrees(bks, Overlay(ses, sessions)[d], d)
               /\ \/ Told(bks, Overlay(ses, sessions)[d], d)
                  \/ \E i \in 1 .. Len(Tail(txn.todo)) : Tail(txn.todo)[i] = Statement("COMPLETE", d)
    <3>1. /\ Fits(bks, d) /\ Agrees(bks, Overlay(txn.sessions, sessions)[d], d)
          /\ \/ Told(bks, Overlay(txn.sessions, sessions)[d], d)
             \/ \E i \in 1 .. Len(txn.todo) : txn.todo[i] = Statement("COMPLETE", d)
      BY <2>1, <1>2, <1>7 DEF Views
    <3>2. CASE d = s
      <4>1. Agrees(bks, status, s)
        BY <3>1, <3>2, <1>8
      <4>2. Agrees(bks, Overlay(ses, sessions)[s], s)
        BY <4>1, <1>11, <1>15 DEF Agrees
      <4>3. Told(bks, Overlay(ses, sessions)[s], s)
        BY <1>11, <1>15 DEF Told
      <4> QED
        BY <3>1, <3>2, <4>2, <4>3
    <3>3. CASE d # s
      <4>1. Overlay(ses, sessions)[d] = Overlay(txn.sessions, sessions)[d]
        BY <3>3, <1>2, <1>12, <1>13 DEF Overlay
      <4>2. Head(txn.todo) # Statement("COMPLETE", d)
        BY <3>3, <1>3 DEF Statement
      <4>3. (\E i \in 1 .. Len(txn.todo) : txn.todo[i] = Statement("COMPLETE", d)) =>
              \E i \in 1 .. Len(Tail(txn.todo)) : Tail(txn.todo)[i] = Statement("COMPLETE", d)
        BY <4>2, <1>2, StillToComplete
      <4> QED
        BY <3>1, <4>1, <4>3
    <3> QED
      BY <3>2, <3>3
  <2> QED
    BY <2>1, <1>7, <1>17 DEF Views
<1>20. txns' = [txns EXCEPT ![w] = next] /\ UNCHANGED <<bookings, sessions, locks, started>>
  <2>1. PICK done : done = IF taken THEN WriteSession(txn, s, "COMPLETED") ELSE txn
    OBVIOUS
  <2>2. /\ done.bookings = txn.bookings /\ done.sessions = ses /\ done.kind = txn.kind
        /\ done.student = txn.student /\ done.todo = txn.todo /\ done.begun = txn.begun
    BY <2>1, <1>2, <1>12 DEF WriteSession, Put, Txn
  <2>3. done \in Txn
    BY <2>1, <2>2, <1>2, <1>9, <1>14 DEF WriteSession, Txn
  <2>4. Done(w, done) /\ UNCHANGED <<bookings, sessions, locks, started>>
    BY <2>1, <1>1, <1>3, <1>7, <1>8, <1>11
    DEF CompleteClass, Row, BookingsSeen, SessionsSeen
  <2>5. txns' = [txns EXCEPT ![w] = After(done, done.begun, done.bookings, done.sessions)]
    BY <2>3, <2>4, DoneAfter
  <2> QED
    BY <2>2, <2>4, <2>5, <1>16 DEF After
<1>21. Head(txn.todo).op # "LOCK" /\ Head(txn.todo).op # "CHECK_DAY"
  BY <1>2
<1> QED
  BY <1>1, <1>2, <1>9, <1>14, <1>16, <1>18, <1>19, <1>20, <1>21, StatementKeeps

-----------------------------------------------------------------------------
(* Steps that take or release locks. *)

(* What another transaction keeps, when the classes and bookings it has locked do
   not change, nor the classes of any. *)
LEMMA OthersKeep ==
  ASSUME IInv, NEW v \in Workers, NEW txn \in Txn, Keeps(v, txn),
         \A row \in Rows : locks'[row] = v <=> locks[row] = v,
         bookings' \in BookingTable, sessions' \in [SessionIds -> SessionStatuses],
         \A s \in SessionIds : locks[s] = v => sessions'[s] = sessions[s],
         \A b \in DOMAIN bookings :
           b \in DOMAIN bookings' /\ bookings'[b].session = bookings[b].session,
         \A b \in DOMAIN bookings : locks[b] = v => bookings'[b] = bookings[b],
         \A b \in DOMAIN bookings' :
           locks[bookings'[b].session] = v =>
             b \in DOMAIN bookings /\ bookings'[b] = bookings[b],
         \A b \in DOMAIN txn.bookings : b \in DOMAIN bookings' => b \in DOMAIN bookings
  PROVE  Keeps(v, txn)'
<1>1. /\ bookings \in BookingTable /\ sessions \in [SessionIds -> SessionStatuses]
      /\ txn.bookings \in BookingTable /\ txn.sessions \in SessionTable
      /\ txn.todo \in Seq([op: Ops, row: Rows])
  BY DEF IInv, TypeInv, Txn
<1>2. ASSUME NEW i, NEW row \in Rows, Holds(v, txn.todo, i, row)
      PROVE  Holds(v, txn.todo, i, row)'
  BY <1>2 DEF Holds
<1>3. /\ \A b \in DOMAIN bookings : b \in BookingIds /\ b \in Rows /\ bookings[b].session \in Rows
      /\ \A b \in DOMAIN bookings' : bookings'[b].session \in SessionIds
  BY <1>1, BookingTables DEF Booking, Rows
<1>4. Planned(v, txn)'
  <2>1. ASSUME NEW i \in 1 .. Len(txn.todo)
        PROVE  PlannedAt(v, txn, i)'
    <3>1. PlannedAt(v, txn, i)
      BY DEF Keeps, Planned
    <3>2. txn.todo[i].row \in Rows /\ txn.todo[Len(txn.todo)].row \in Rows
      <4>1. Len(txn.todo) \in 1 .. Len(txn.todo)
        BY <1>1
      <4>2. /\ txn.todo[i] \in [op: Ops, row: Rows]
            /\ txn.todo[Len(txn.todo)] \in [op: Ops, row: Rows]
        BY <4>1, <1>1, ElementOfSeq
      <4> QED
        BY <4>2
    <3>3. ASSUME txn.todo[i].op = "TAKE_SEAT", i = 1
          PROVE  Overlay(txn.sessions, sessions')[txn.todo[i].row] = "SCHEDULED"
      <4>1. /\ txn.todo[i].row \in SessionIds /\ locks[txn.todo[i].row] = v
            /\ Overlay(txn.sessions, sessions)[txn.todo[i].row] = "SCHEDULED"
        BY <3>1, <3>3 DEF PlannedAt, Holds
      <4> QED
        BY <4>1, <1>1 DEF Overlay
    <3> QED
      BY <3>1, <3>2, <3>3, <1>2, <1>3 DEF PlannedAt
  <2> QED
    BY <2>1 DEF Planned
<1>5. Wrote(v, txn)'
  <2>1. ASSUME NEW b \in DOMAIN txn.bookings
        PROVE  /\ locks'[txn.bookings[b].session] = v
               /\ b \in DOMAIN bookings' =>
                    /\ locks'[b] = v
                    /\ txn.bookings[b].session = bookings'[b].session
                    /\ bookings'[b].status = "BOOKED" \/ txn.bookings[b] = bookings'[b]
    <3>1. txn.bookings[b].session \in Rows /\ b \in Rows
      BY <1>1, BookingTables DEF Booking, Rows
    <3> QED
      BY <3>1 DEF Keeps, Wrote
  <2>2. ASSUME NEW s \in DOMAIN txn.sessions
        PROVE  /\ locks'[s] = v
               /\ sessions'[s] = "SCHEDULED" \/ txn.sessions[s] = sessions'[s]
    <3>1. s \in SessionIds /\ s \in Rows
      BY <1>1, SessionTables DEF Rows
    <3> QED
      BY <3>1 DEF Keeps, Wrote
  <2> QED
    BY <2>1, <2>2 DEF Wrote
<1>6. Views(v, txn)'
  <2>1. ASSUME NEW s \in SessionIds, locks'[s] = v
        PROVE  /\ Fits(Overlay(txn.bookings, bookings'), s)
               /\ Agrees(Overlay(txn.bookings, bookings'), Overlay(txn.sessions, sessions')[s], s)
               /\ \/ Told(Overlay(txn.bookings, bookings'),
                          Overlay(txn.sessions, sessions')[s], s)
                  \/ \E i \in 1 .. Len(txn.todo) : txn.todo[i] = Statement("COMPLETE", s)
    <3>1. PICK new : new = Overlay(txn.bookings, bookings')
      OBVIOUS
    <3>2. PICK old : old = Overlay(txn.bookings, bookings)
      OBVIOUS
    <3>3. new \in BookingTable /\ old \in BookingTable
      BY <3>1, <3>2, <1>1, OverlayOfBookings
    <3>4. locks[s] = v
      BY <2>1 DEF Rows
    <3>5. ASSUME NEW b \in DOMAIN new, new[b].session = s
          PROVE  b \in DOMAIN old /\ old[b] = new[b]
      BY <3>1, <3>2, <3>4, <3>5 DEF Overlay
    <3>6. ASSUME NEW b \in DOMAIN old, old[b].session = s
          PROVE  b \in DOMAIN new /\ old[b] = new[b]
      BY <3>1, <3>2, <3>4, <3>6 DEF Overlay
    <3>7. /\ ActiveBookingsOf(new, s) = ActiveBookingsOf(old, s)
          /\ BookedBookingsOf(new, s) = BookedBookingsOf(old, s)
      BY <3>3, <3>5, <3>6, SameSeats
    <3>8. Overlay(txn.sessions, sessions')[s] = Overlay(txn.sessions, sessions)[s]
      BY <3>4, <1>1 DEF Overlay
    <3>9. /\ Fits(old, s) /\ Agrees(old, Overlay(txn.sessions, sessions)[s], s)
          /\ \/ Told(old, Overlay(txn.sessions, sessions)[s], s)
             \/ \E i \in 1 .. Len(txn.todo) : txn.todo[i] = Statement("COMPLETE", s)
      BY <3>2, <3>4 DEF Keeps, Views
    <3> QED
      BY <3>1, <3>7, <3>8, <3>9 DEF Fits, Agrees, Told
  <2> QED
    BY <2>1 DEF Views, Fits, Agrees, Told
<1> QED
  BY <1>4, <1>5, <1>6 DEF Keeps

(* A class that is locked anew has no booking its transaction has written. *)
LEMMA NewlyLocked ==
  ASSUME IInv, NEW w \in Workers, NEW txn, txn = txns[w], NEW s \in SessionIds, locks[s] # w
  PROVE  /\ Fits(Overlay(txn.bookings, bookings), s)
         /\ Agrees(Overlay(txn.bookings, bookings), Overlay(txn.sessions, sessions)[s], s)
         /\ Told(Overlay(txn.bookings, bookings), Overlay(txn.sessions, sessions)[s], s)
<1>1. /\ txn \in Txn /\ Wrote(w, txn) /\ bookings \in BookingTable
      /\ sessions \in [SessionIds -> SessionStatuses]
      /\ Fits(bookings, s) /\ Agrees(bookings, sessions[s], s) /\ Told(bookings, sessions[s], s)
  BY DEF IInv, TypeInv, Keeps, Committed
<1>2. txn.bookings \in BookingTable
  BY <1>1 DEF Txn
<1>3. PICK seen : seen = Overlay(txn.bookings, bookings)
  OBVIOUS
<1>4. seen \in BookingTable
  BY <1>1, <1>2, <1>3, OverlayOfBookings
<1>5. ASSUME NEW b \in DOMAIN seen, seen[b].session = s
      PROVE  b \in DOMAIN bookings /\ bookings[b] = seen[b]
  BY <1>1, <1>3, <1>5 DEF Overlay, Wrote
<1>6. ASSUME NEW b \in DOMAIN bookings, bookings[b].session = s
      PROVE  b \in DOMAIN seen /\ bookings[b] = seen[b]
  BY <1>1, <1>3, <1>6 DEF Overlay, Wrote
<1>7. /\ ActiveBookingsOf(seen, s) = ActiveBookingsOf(bookings, s)
      /\ BookedBookingsOf(seen, s) = BookedBookingsOf(bookings, s)
  BY <1>1, <1>4, <1>5, <1>6, SameSeats
<1>8. Overlay(txn.sessions, sessions)[s] = sessions[s]
  BY <1>1 DEF Overlay, Wrote
<1> QED
  BY <1>1, <1>3, <1>7, <1>8 DEF Fits, Agrees, Told

LEMMA LockKeeps ==
  ASSUME IInv, NEW w \in Workers, Lock(w)
  PROVE  IInv'
<1>1. PICK txn : txn = txns[w]
  OBVIOUS
<1>2. PICK row : row = Head(txn.todo).row
  OBVIOUS
<1>3. PICK next : next = After(txn, txn.begun, txn.bookings, txn.sessions)
  OBVIOUS
<1>4. /\ txn \in Txn /\ Keeps(w, txn) /\ txn.todo # << >> /\ Head(txn.todo).op = "LOCK"
      /\ locks \in [Rows -> Workers \cup {None}] /\ locks[row] \in {None, w}
      /\ locks' = [locks EXCEPT ![row] = w] /\ UNCHANGED <<bookings, sessions, started>>
      /\ bookings \in BookingTable /\ sessions \in [SessionIds -> SessionStatuses]
      /\ txns \in [Workers -> Txn]
  BY <1>1, <1>2 DEF IInv, TypeInv, Lock, Running, Row
<1>5. txn.bookings \in BookingTable /\ txn.sessions \in SessionTable /\ txn.begun \in SUBSET SessionIds
  BY <1>4 DEF Txn
<1>6. /\ next \in Txn /\ next.bookings = txn.bookings /\ next.sessions = txn.sessions
      /\ next.todo = Tail(txn.todo) /\ next.student = txn.student
  BY <1>3, <1>4, <1>5, AfterTyped DEF After
<1>7. txns' = [txns EXCEPT ![w] = next]
  BY <1>1, <1>3, <1>4, DoneAfter DEF Lock
<1>8. row \in Rows
  <2>1. 1 \in 1 .. Len(txn.todo) /\ Head(txn.todo) = txn.todo[1]
    BY <1>4 DEF Txn
  <2>2. txn.todo[1] \in [op: Ops, row: Rows]
    BY <2>1, <1>4, ElementOfSeq DEF Txn
  <2> QED
    BY <2>1, <2>2, <1>2
<1>9. /\ locks'[row] = w /\ \A r \in Rows : locks[r] = w => locks'[r] = w
      /\ \A r \in Rows \ {row} : locks'[r] = locks[r]
      /\ \A v \in Workers \ {w} : \A r \in Rows : locks'[r] = v <=> locks[r] = v
  BY <1>4, <1>8, SeatsAssumption
<1>10. TypeInv'
  BY <1>4, <1>6, <1>7, <1>8 DEF IInv, TypeInv
<1>11. Committed'
  BY <1>4 DEF IInv, Committed
<1>12. txns'[w] = next /\ \A v \in Workers \ {w} : txns'[v] = txns[v]
  BY <1>4, <1>7
<1>13. Apart'
  BY <1>1, <1>6, <1>12 DEF IInv, Apart
<1>14. Planned(w, next)'
  <2>1. /\ UNCHANGED <<bookings, sessions>> /\ Planned(w, txn)
        /\ Head(txn.todo).op = "LOCK" => locks'[Head(txn.todo).row] = w
        /\ Head(txn.todo).op = "CHECK_DAY" =>
             Overlay(next.sessions, sessions)[Head(txn.todo).row] = "SCHEDULED"
    BY <1>2, <1>4, <1>9 DEF Keeps
  <2> QED
    BY <2>1, <1>4, <1>6, <1>9, PlannedRest
<1>15. Wrote(w, next)'
  <2>1. ASSUME NEW b \in DOMAIN txn.bookings
        PROVE  b \in Rows /\ txn.bookings[b].session \in Rows
    BY <1>5, BookingTables DEF Booking, Rows
  <2>2. \A s \in DOMAIN txn.sessions : s \in Rows
    BY <1>5, SessionTables DEF Rows
  <2> QED
    BY <2>1, <2>2, <1>4, <1>6, <1>9 DEF Keeps, Wrote
<1>16. Views(w, next)'
  <2>1. Views(w, next)
    BY <1>1, <1>4, <1>6, ReadStep
  <2>2. ASSUME NEW s \in SessionIds, locks'[s] = w
        PROVE  /\ Fits(Overlay(next.bookings, bookings), s)
               /\ Agrees(Overlay(next.bookings, bookings), Overlay(next.sessions, sessions)[s], s)
               /\ \/ Told(Overlay(next.bookings, bookings), Overlay(next.sessions, sessions)[s], s)
                  \/ \E i \in 1 .. Len(next.todo) : next.todo[i] = Statement("COMPLETE", s)
    <3>1. CASE locks[s] = w
      BY <3>1, <2>1 DEF Views
    <3>2. CASE locks[s] # w
      BY <3>2, <1>1, <1>6, NewlyLocked
    <3> QED
      BY <3>1, <3>2
  <2> QED
    BY <2>2, <1>4 DEF Views, Fits, Agrees, Told
<1>17. ASSUME NEW v \in Workers \ {w}
       PROVE  Keeps(v, txns[v])'
  <2>1. PICK other : other = txns[v]
    OBVIOUS
  <2>2. other \in Txn /\ Keeps(v, other)
    BY <2>1, <1>4 DEF IInv
  <2>3. /\ bookings' = bookings /\ sessions' = sessions
        /\ \A r \in Rows : locks'[r] = v <=> locks[r] = v
    BY <1>4, <1>9
  <2>4. Keeps(v, other)'
    BY <2>2, <2>3, <1>4, OthersKeep
  <2> QED
    BY <2>1, <2>4, <1>12
<1>18. \A v \in Workers : Keeps(v, txns[v])'
  BY <1>12, <1>14, <1>15, <1>16, <1>17 DEF Keeps
<1> QED
  BY <1>10, <1>11, <1>13, <1>18 DEF IInv

(* A worker without a transaction has nothing to keep. *)
LEMMA IdleTyped ==
  /\ Idle \in Txn /\ Idle.todo = << >>
  /\ DOMAIN Idle.bookings = {} /\ DOMAIN Idle.sessions = {}
<1>1. << >> \in Seq([op: Ops, row: Rows])
  OBVIOUS
<1>2. Idle \in Txn
  BY <1>1, EmptyTables DEF Idle, Txn, RequestKinds
<1> QED
  BY <1>2 DEF Idle, EmptyTable

LEMMA IdleKeeps ==
  ASSUME NEW w, \A row \in Rows : locks[row] # w
  PROVE  Keeps(w, Idle)
<1>1. Planned(w, Idle)
  BY IdleTyped DEF Planned
<1>2. Wrote(w, Idle) /\ Views(w, Idle)
  BY IdleTyped DEF Wrote, Views, Rows
<1> QED
  BY <1>1, <1>2 DEF Keeps

(* A transaction ends, whatever it commits: the others keep what they do. *)
LEMMA EndKeeps ==
  ASSUME IInv, NEW w \in Workers, End(w), UNCHANGED started, Committed',
         bookings' \in BookingTable, sessions' \in [SessionIds -> SessionStatuses],
         \A v \in Workers \ {w} : Keeps(v, txns[v]) => Keeps(v, txns[v])'
  PROVE  IInv'
<1>1. /\ txns' = [txns EXCEPT ![w] = Idle]
      /\ locks' = [row \in Rows |-> IF locks[row] = w THEN None ELSE locks[row]]
      /\ locks \in [Rows -> Workers \cup {None}] /\ txns \in [Workers -> Txn]
      /\ started \in SUBSET SessionIds
  BY DEF End, IInv, TypeInv
<1>2. \A row \in Rows : locks'[row] # w
  BY <1>1, SeatsAssumption
<1>3. Idle \in Txn /\ Keeps(w, Idle)' /\ DOMAIN Idle.bookings = {}
  <2>1. PICK idle : idle = Idle
    OBVIOUS
  <2>2. Planned(w, idle)'
    BY <2>1, IdleTyped DEF Planned
  <2>3. Wrote(w, idle)' /\ Views(w, idle)'
    BY <2>1, <1>2, IdleTyped DEF Wrote, Views, Rows
  <2> QED
    BY <2>1, <2>2, <2>3, IdleTyped DEF Keeps
<1>4. txns'[w] = Idle /\ \A v \in Workers \ {w} : txns'[v] = txns[v]
  BY <1>1
<1>5. TypeInv'
  BY <1>1, <1>3 DEF TypeInv
<1>6. Apart'
  BY <1>3, <1>4 DEF IInv, Apart
<1>7. \A v \in Workers : Keeps(v, txns[v])'
  BY <1>3, <1>4 DEF IInv
<1> QED
  BY <1>5, <1>6, <1>7 DEF IInv

LEMMA RollbackKeeps ==
  ASSUME IInv, NEW w \in Workers, Rollback(w)
  PROVE  IInv'
<1>1. /\ End(w) /\ UNCHANGED <<bookings, sessions, started>>
      /\ bookings \in BookingTable /\ sessions \in [SessionIds -> SessionStatuses]
      /\ locks' = [row \in Rows |-> IF locks[row] = w THEN None ELSE locks[row]]
      /\ txns' = [txns EXCEPT ![w] = Idle] /\ txns \in [Workers -> Txn]
  BY DEF Rollback, End, IInv, TypeInv
<1>2. Committed'
  BY <1>1 DEF IInv, Committed
<1>3. ASSUME NEW v \in Workers \ {w}, Keeps(v, txns[v])
      PROVE  Keeps(v, txns[v])'
  <2>1. PICK other : other = txns[v]
    OBVIOUS
  <2>2. /\ other \in Txn /\ Keeps(v, other) /\ txns'[v] = other
        /\ bookings' = bookings /\ sessions' = sessions
    BY <2>1, <1>1, <1>3
  <2>3. \A row \in Rows : locks'[row] = v <=> locks[row] = v
    BY <1>1, SeatsAssumption
  <2>4. Keeps(v, other)'
    BY <2>2, <2>3, <1>1, OthersKeep
  <2> QED
    BY <2>2, <2>4
<1> QED
  BY <1>1, <1>2, <1>3, EndKeeps

(* What a commit changes is what its transaction has locked. *)
LEMMA CommitChanges ==
  ASSUME IInv, NEW w \in Workers, Commit(w)
  PROVE  /\ bookings' \in BookingTable /\ sessions' \in [SessionIds -> SessionStatuses]
         /\ \A s \in SessionIds : locks[s] # w => sessions'[s] = sessions[s]
         /\ \A b \in DOMAIN bookings :
              b \in DOMAIN bookings' /\ bookings'[b].session = bookings[b].session
         /\ \A b \in DOMAIN bookings : locks[b] # w => bookings'[b] = bookings[b]
         /\ \A b \in DOMAIN bookings' :
              locks[bookings'[b].session] # w =>
                b \in DOMAIN bookings /\ bookings'[b] = bookings[b]
         /\ \A b \in DOMAIN bookings' : b \in DOMAIN bookings \/ b \in DOMAIN txns[w].bookings
<1>1. PICK txn : txn = txns[w]
  OBVIOUS
<1>2. /\ txn \in Txn /\ Wrote(w, txn) /\ bookings \in BookingTable
      /\ sessions \in [SessionIds -> SessionStatuses]
      /\ bookings' = Overlay(txn.bookings, bookings)
      /\ sessions' = Overlay(txn.sessions, sessions)
  BY <1>1 DEF IInv, TypeInv, Keeps, Commit, BookingsSeen, SessionsSeen
<1>3. txn.bookings \in BookingTable /\ txn.sessions \in SessionTable
  BY <1>2 DEF Txn
<1>4. bookings' \in BookingTable
  BY <1>2, <1>3, OverlayOfBookings
<1>5. sessions' \in [SessionIds -> SessionStatuses]
  <2>1. /\ DOMAIN txn.sessions \subseteq SessionIds
        /\ \A s \in DOMAIN txn.sessions : txn.sessions[s] \in SessionStatuses
    BY <1>3, SessionTables
  <2> QED
    BY <2>1, <1>2 DEF Overlay
<1>6. \A s \in SessionIds : locks[s] # w => sessions'[s] = sessions[s]
  BY <1>2 DEF Overlay, Wrote
<1>7. ASSUME NEW b \in DOMAIN bookings
      PROVE  /\ b \in DOMAIN bookings' /\ bookings'[b].session = bookings[b].session
             /\ locks[b] # w => bookings'[b] = bookings[b]
  BY <1>2 DEF Overlay, Wrote
<1>8. ASSUME NEW b \in DOMAIN bookings'
      PROVE  /\ b \in DOMAIN bookings \/ b \in DOMAIN txn.bookings
             /\ locks[bookings'[b].session] # w =>
                  b \in DOMAIN bookings /\ bookings'[b] = bookings[b]
  BY <1>2 DEF Overlay, Wrote
<1> QED
  BY <1>1, <1>4, <1>5, <1>6, <1>7, <1>8

LEMMA CommitKeeps ==
  ASSUME IInv, NEW w \in Workers, Commit(w)
  PROVE  IInv'
<1>1. PICK txn : txn = txns[w]
  OBVIOUS
<1>2. /\ txn \in Txn /\ Views(w, txn) /\ bookings \in BookingTable /\ txn.todo = << >>
      /\ bookings' = Overlay(txn.bookings, bookings)
      /\ sessions' = Overlay(txn.sessions, sessions)
      /\ locks' = [row \in Rows |-> IF locks[row] = w THEN None ELSE locks[row]]
      /\ txns' = [txns EXCEPT ![w] = Idle] /\ txns \in [Workers -> Txn]
      /\ End(w) /\ UNCHANGED started
  BY <1>1 DEF IInv, TypeInv, Keeps, Commit, BookingsSeen, SessionsSeen, End
<1>3. /\ bookings' \in BookingTable /\ sessions' \in [SessionIds -> SessionStatuses]
      /\ \A s \in SessionIds : locks[s] # w => sessions'[s] = sessions[s]
      /\ \A b \in DOMAIN bookings :
           b \in DOMAIN bookings' /\ bookings'[b].session = bookings[b].session
      /\ \A b \in DOMAIN bookings : locks[b] # w => bookings'[b] = bookings[b]
      /\ \A b \in DOMAIN bookings' :
           locks[bookings'[b].session] # w =>
             b \in DOMAIN bookings /\ bookings'[b] = bookings[b]
      /\ \A b \in DOMAIN bookings' : b \in DOMAIN bookings \/ b \in DOMAIN txn.bookings
  BY <1>1, CommitChanges
<1>4. ASSUME NEW s \in SessionIds
      PROVE  /\ Fits(bookings', s) /\ Agrees(bookings', sessions'[s], s)
             /\ Told(bookings', sessions'[s], s)
  <2>1. CASE locks[s] = w
    BY <2>1, <1>2 DEF Views
  <2>2. CASE locks[s] # w
    <3>1. \A b \in DOMAIN bookings' :
            bookings'[b].session = s => b \in DOMAIN bookings /\ bookings[b] = bookings'[b]
      BY <2>2, <1>3
    <3>2. \A b \in DOMAIN bookings :
            bookings[b].session = s => b \in DOMAIN bookings' /\ bookings[b] = bookings'[b]
      BY <2>2, <1>3
    <3>3. /\ ActiveBookingsOf(bookings', s) = ActiveBookingsOf(bookings, s)
          /\ BookedBookingsOf(bookings', s) = BookedBookingsOf(bookings, s)
      BY <3>1, <3>2, <1>2, <1>3, SameSeats
    <3> QED
      BY <2>2, <3>3, <1>3 DEF IInv, Committed, Fits, Agrees, Told
  <2> QED
    BY <2>1, <2>2
<1>5. Committed'
  BY <1>4 DEF Committed, Fits, Agrees, Told
<1>6. ASSUME NEW v \in Workers \ {w}, Keeps(v, txns[v])
      PROVE  Keeps(v, txns[v])'
  <2>1. PICK other : other = txns[v]
    OBVIOUS
  <2>2. other \in Txn /\ Keeps(v, other) /\ txns'[v] = other
    BY <2>1, <1>2, <1>6
  <2>3. \A row \in Rows : locks'[row] = v <=> locks[row] = v
    BY <1>2, SeatsAssumption
  <2>4. DOMAIN other.bookings \cap DOMAIN txn.bookings = {}
    BY <1>1, <2>1 DEF IInv, Apart
  <2>5. /\ \A s \in SessionIds : locks[s] = v => sessions'[s] = sessions[s]
        /\ \A b \in DOMAIN bookings : locks[b] = v => bookings'[b] = bookings[b]
        /\ \A b \in DOMAIN bookings' :
             locks[bookings'[b].session] = v =>
               b \in DOMAIN bookings /\ bookings'[b] = bookings[b]
        /\ \A b \in DOMAIN other.bookings : b \in DOMAIN bookings' => b \in DOMAIN bookings
    BY <1>3, <2>4
  <2>6. Keeps(v, other)'
    BY <2>2, <2>3, <2>5, <1>3, OthersKeep
  <2> QED
    BY <2>2, <2>6
<1> QED
  BY <1>2, <1>3, <1>5, <1>6, EndKeeps

-----------------------------------------------------------------------------

LEMMA Initially == Init => IInv
<1> SUFFICES ASSUME Init
             PROVE  IInv
  OBVIOUS
<1>1. DOMAIN bookings = {} /\ bookings \in BookingTable
  BY EmptyTables DEF Init, EmptyTable
<1>2. TypeInv
  BY <1>1, IdleTyped DEF Init, TypeInv, SessionStatuses
<1>3. Committed
  <2>1. ASSUME NEW s \in SessionIds
        PROVE  Fits(bookings, s) /\ Agrees(bookings, sessions[s], s) /\ Told(bookings, sessions[s], s)
    <3>1. ActiveBookingsOf(bookings, s) = {} /\ BookedBookingsOf(bookings, s) = {}
      BY <1>1 DEF ActiveBookingsOf, BookedBookingsOf
    <3>2. Capacity[s] \in Nat
      BY SeatsAssumption
    <3> QED
      BY <3>1, <3>2, FS_EmptySet DEF Init, Fits, Agrees, Told
  <2> QED
    BY <2>1 DEF Committed
<1>4. \A w \in Workers : txns[w] = Idle /\ \A row \in Rows : locks[row] # w
  BY SeatsAssumption DEF Init
<1>5. Apart
  BY <1>4, IdleTyped DEF Apart
<1>6. \A w \in Workers : Keeps(w, txns[w])
  BY <1>4, IdleKeeps
<1> QED
  BY <1>2, <1>3, <1>5, <1>6 DEF IInv

LEMMA StartKeeps ==
  ASSUME IInv, NEW s \in SessionIds, Start(s)
  PROVE  IInv'
<1>1. /\ TypeInv' /\ Committed' /\ Apart'
  BY DEF IInv, TypeInv, Committed, Apart, Start
<1>2. ASSUME NEW w \in Workers
      PROVE  Keeps(w, txns[w])'
  <2>1. PICK txn : txn = txns[w]
    OBVIOUS
  <2>2. Keeps(w, txn) /\ txns'[w] = txn /\ UNCHANGED <<bookings, sessions, locks>>
    BY <2>1 DEF IInv, Start
  <2>3. Keeps(w, txn)'
    BY <2>2, AsBefore DEF Keeps
  <2> QED
    BY <2>2, <2>3
<1> QED
  BY <1>1, <1>2 DEF IInv

LEMMA Inductive ==
  ASSUME IInv, [Next]_vars
  PROVE  IInv'
<1>1. ASSUME NEW w \in Workers, Begin(w) \/ Execute(w) \/ LoseConnection(w) \/ AbortDeadlocked(w)
      PROVE  IInv'
  <2>1. CASE Begin(w)
    BY <2>1, BeginKeeps
  <2>2. CASE Lock(w)
    BY <2>2, LockKeeps
  <2>3. CASE ReadClock(w)
    BY <2>3, ReadClockKeeps
  <2>4. CASE CheckDay(w)
    BY <2>4, CheckDayKeeps
  <2>5. CASE InsertBooking(w)
    BY <2>5, InsertBookingKeeps
  <2>6. CASE CancelBooking(w)
    BY <2>6, CancelBookingKeeps
  <2>7. CASE MarkBooking(w)
    BY <2>7, MarkBookingKeeps
  <2>8. CASE CompleteClass(w)
    BY <2>8, CompleteClassKeeps
  <2>9. CASE Commit(w)
    BY <2>9, CommitKeeps
  <2>10. CASE Rollback(w)
    BY <2>10, RollbackKeeps
  <2> QED
    BY <1>1, <2>1, <2>2, <2>3, <2>4, <2>5, <2>6, <2>7, <2>8, <2>9, <2>10
    DEF Execute, Refuse, LoseConnection, AbortDeadlocked
<1>2. ASSUME NEW s \in SessionIds, Start(s)
      PROVE  IInv'
  BY <1>2, StartKeeps
<1>3. CASE UNCHANGED vars
  <2>1. TypeInv' /\ Committed' /\ Apart'
    BY <1>3 DEF IInv, TypeInv, Committed, Apart, vars
  <2>2. ASSUME NEW w \in Workers
        PROVE  Keeps(w, txns[w])'
    <3>1. PICK txn : txn = txns[w]
      OBVIOUS
    <3>2. Keeps(w, txn) /\ txns'[w] = txn /\ UNCHANGED <<bookings, sessions, locks>>
      BY <3>1, <1>3 DEF IInv, vars
    <3>3. Keeps(w, txn)'
      BY <3>2, AsBefore DEF Keeps
    <3> QED
      BY <3>2, <3>3
  <2> QED
    BY <2>1, <2>2 DEF IInv
<1> QED
  BY <1>1, <1>2, <1>3 DEF Next

(* Whatever is served at once, the transactions keep what their locks are for. *)
THEOREM Invariance == Spec => []IInv
<1>1. Init => IInv
  BY Initially
<1>2. IInv /\ [Next]_vars => IInv'
  BY Inductive
<1> QED
  BY <1>1, <1>2, PTL DEF Spec

(* No class is overbooked: the seats are counted under the lock of the class. *)
THEOREM NeverOverbooked == Spec => []CapacityRespected
<1>1. IInv => CapacityRespected
  BY DEF IInv, Committed, Fits, CapacityRespected
<1> QED
  BY <1>1, Invariance, PTL

(* Nobody is booked into a cancelled class, whenever the last booking of a class
   is cancelled while others are made. *)
THEOREM CancelledClassEmpty == Spec => []CancelledClassHasNobodyBooked
<1>1. IInv => CancelledClassHasNobodyBooked
  BY DEF IInv, Committed, Agrees, CancelledClassHasNobodyBooked
<1> QED
  BY <1>1, Invariance, PTL

(* A class is completed exactly when all of its seats have been marked. *)
THEOREM CompletedWithAttendance == Spec => []CompletedWhenAttendanceTaken
<1>1. IInv => CompletedWhenAttendanceTaken
  BY DEF IInv, Committed, Agrees, Told, CompletedWhenAttendanceTaken
<1> QED
  BY <1>1, Invariance, PTL

(* No commit undoes what another transaction has committed. *)
THEOREM NothingLost == Spec => NoLostUpdate
<1> DEFINE Lost == /\ \A b \in DOMAIN bookings :
                        bookings[b].status # "BOOKED" => bookings'[b] = bookings[b]
                   /\ \A s \in SessionIds :
                        sessions[s] # "SCHEDULED" => sessions'[s] = sessions[s]
<1>1. ASSUME IInv, [Next]_vars
      PROVE  [Lost]_vars
  <2>1. ASSUME NEW w \in Workers, Commit(w)
        PROVE  Lost
    <3>1. PICK txn : txn = txns[w]
      OBVIOUS
    <3>2. /\ Wrote(w, txn) /\ sessions \in [SessionIds -> SessionStatuses]
          /\ bookings' = Overlay(txn.bookings, bookings)
          /\ sessions' = Overlay(txn.sessions, sessions)
      BY <1>1, <2>1, <3>1 DEF IInv, TypeInv, Keeps, Commit, BookingsSeen, SessionsSeen
    <3>3. ASSUME NEW b \in DOMAIN bookings, bookings[b].status # "BOOKED"
          PROVE  bookings'[b] = bookings[b]
      BY <3>2, <3>3 DEF Overlay, Wrote
    <3>4. ASSUME NEW s \in SessionIds, sessions[s] # "SCHEDULED"
          PROVE  sessions'[s] = sessions[s]
      BY <3>2, <3>4 DEF Overlay, Wrote
    <3> QED
      BY <3>3, <3>4
  <2>2. ASSUME UNCHANGED <<bookings, sessions>>
        PROVE  Lost
    BY <2>2
  <2>3. \/ \E w \in Workers : Commit(w)
        \/ UNCHANGED <<bookings, sessions>>
    BY <1>1
    DEF Next, Execute, Begin, Lock, ReadClock, CheckDay, InsertBooking, CancelBooking,
        MarkBooking, CompleteClass, Refuse, Rollback, LoseConnection, AbortDeadlocked, Start, vars
  <2> QED
    BY <2>1, <2>2, <2>3
<1> QED
  BY <1>1, Invariance, PTL DEF Spec, NoLostUpdate

-----------------------------------------------------------------------------
(* What a transaction does to the roster of the classes.  A roster holds
   students and the tables hold bookings: a student has one active booking of a
   class at most.  What a transaction has done so far is nothing, or that its
   student has left a class, and only when it has no statement left may it be
   more; whatever it is, it is done to classes it has locked. *)

SeatsOf(bks, s) == {bks[b].student : b \in ActiveBookingsOf(bks, s)}

OneSeatEach(bks, s) ==
  \A a, b \in ActiveBookingsOf(bks, s) : bks[a].student = bks[b].student => a = b

(* The tables as transaction txn sees them. *)
BksOf(txn) == Overlay(txn.bookings, bookings)
SesOf(txn) == Overlay(txn.sessions, sessions)

OthersSame(txn, changed) ==
  \A s \in SessionIds \ changed :
    SeatsOf(BksOf(txn), s) = SeatsOf(bookings, s) /\ SesOf(txn)[s] = sessions[s]

(* Class c has let the student go, taken the student in, taken place. *)
LetGo(txn, c) ==
  /\ sessions[c] = "SCHEDULED" /\ txn.student \in SeatsOf(bookings, c)
  /\ SeatsOf(BksOf(txn), c) = SeatsOf(bookings, c) \ {txn.student}
  /\ SesOf(txn)[c] \in {"SCHEDULED", "CANCELLED"}

TookIn(txn, d) ==
  /\ sessions[d] = "SCHEDULED" /\ txn.student \notin SeatsOf(bookings, d)
  /\ Cardinality(SeatsOf(bookings, d)) < Capacity[d]
  /\ SeatsOf(BksOf(txn), d) = SeatsOf(bookings, d) \cup {txn.student}
  /\ SesOf(txn)[d] = "SCHEDULED"

TookPlace(txn, c) ==
  /\ sessions[c] = "SCHEDULED" /\ SeatsOf(bookings, c) # {}
  /\ SeatsOf(BksOf(txn), c) = SeatsOf(bookings, c)
  /\ SesOf(txn)[c] = "COMPLETED"

Mine(w) == {s \in SessionIds : locks[s] = w}

Left(w, txn) == \E c \in Mine(w) : LetGo(txn, c) /\ OthersSame(txn, {c})

Joined(w, txn) == \E d \in Mine(w) : TookIn(txn, d) /\ OthersSame(txn, {d})

Moved(w, txn) ==
  \E c, d \in Mine(w) : c # d /\ LetGo(txn, c) /\ TookIn(txn, d) /\ OthersSame(txn, {c, d})

Completed(w, txn) == \E c \in Mine(w) : TookPlace(txn, c) /\ OthersSame(txn, {c})

Effect(w, txn) ==
  \/ OthersSame(txn, {})
  \/ Left(w, txn) /\ \A i \in 1 .. Len(txn.todo) : txn.todo[i].op \in {"LOCK", "CHECK_DAY", "TAKE_SEAT"}
  \/ (Joined(w, txn) \/ Moved(w, txn) \/ Completed(w, txn)) /\ txn.todo = << >>

(* A seat is taken, and a class completed, at the end; a seat is given up before
   one is taken, and nothing else is done. *)
Order(todo) ==
  \A i, j \in 1 .. Len(todo) :
    i < j => /\ todo[i].op \notin {"TAKE_SEAT", "COMPLETE"}
             /\ todo[i].op = "CANCEL" => todo[j].op \in {"LOCK", "CHECK_DAY", "TAKE_SEAT"}

(* Students give up seats of their own; a booking keeps its student. *)
Own(txn) ==
  \A i \in 1 .. Len(txn.todo) :
    txn.todo[i].op = "CANCEL" => bookings[txn.todo[i].row].student = txn.student

Names(txn) ==
  \A b \in DOMAIN txn.bookings :
    b \in DOMAIN bookings => txn.bookings[b].student = bookings[b].student

(* A student about to take a seat has none in the class. *)
NewHere(txn) ==
  txn.todo # << >> /\ Head(txn.todo).op = "TAKE_SEAT" =>
    txn.student \notin SeatsOf(BksOf(txn), Head(txn.todo).row)

Plays(w, txn) ==
  /\ \A s \in SessionIds : OneSeatEach(BksOf(txn), s)
  /\ Order(txn.todo) /\ Own(txn) /\ Names(txn) /\ NewHere(txn) /\ Effect(w, txn)

RInv ==
  /\ \A s \in SessionIds : OneSeatEach(bookings, s)
  /\ \A w \in Workers : Plays(w, txns[w])

-----------------------------------------------------------------------------
(* Tables with the same rows of a class have the same seats in it. *)

SameRows(new, old, s) ==
  /\ \A b \in DOMAIN new : new[b].session = s => b \in DOMAIN old /\ old[b] = new[b]
  /\ \A b \in DOMAIN old : old[b].session = s => b \in DOMAIN new /\ old[b] = new[b]

LEMMA RowsAgree ==
  ASSUME NEW new, NEW old, NEW s, SameRows(new, old, s)
  PROVE  /\ ActiveBookingsOf(new, s) = ActiveBookingsOf(old, s)
         /\ SeatsOf(new, s) = SeatsOf(old, s)
         /\ OneSeatEach(old, s) => OneSeatEach(new, s)
<1>1. ActiveBookingsOf(new, s) = ActiveBookingsOf(old, s)
  BY DEF SameRows, ActiveBookingsOf
<1>2. \A b \in ActiveBookingsOf(old, s) : new[b] = old[b]
  BY DEF SameRows, ActiveBookingsOf
<1>3. SeatsOf(new, s) = SeatsOf(old, s)
  BY <1>1, <1>2 DEF SeatsOf
<1>4. OneSeatEach(old, s) => OneSeatEach(new, s)
  BY <1>1, <1>2 DEF OneSeatEach
<1> QED
  BY <1>1, <1>3, <1>4

LEMMA UntouchedRows ==
  ASSUME NEW written, NEW table, NEW s,
         \A b \in DOMAIN written : written[b].session # s,
         \A b \in DOMAIN written : b \in DOMAIN table => table[b].session # s
  PROVE  SameRows(Overlay(written, table), table, s)
BY DEF SameRows, Overlay

(* A class that is not locked looks as it has been committed. *)
LEMMA UnlockedClass ==
  ASSUME NEW w, NEW txn, Wrote(w, txn), NEW s \in SessionIds, locks[s] # w,
         sessions \in [SessionIds -> SessionStatuses]
  PROVE  SameRows(BksOf(txn), bookings, s) /\ SesOf(txn)[s] = sessions[s]
<1>1. \A b \in DOMAIN txn.bookings : txn.bookings[b].session # s
  BY DEF Wrote
<1>2. \A b \in DOMAIN txn.bookings : b \in DOMAIN bookings => bookings[b].session # s
  BY DEF Wrote
<1>3. SameRows(BksOf(txn), bookings, s)
  BY <1>1, <1>2, UntouchedRows DEF BksOf
<1>4. SesOf(txn)[s] = sessions[s]
  BY DEF SesOf, Overlay, Wrote
<1> QED
  BY <1>3, <1>4

(* A set of bookings has at least as many members as it has students. *)
LEMMA FewerStudentsThanBookings ==
  ASSUME NEW bks \in BookingTable, NEW s
  PROVE  /\ IsFiniteSet(SeatsOf(bks, s)) /\ Cardinality(SeatsOf(bks, s)) \in Nat
         /\ Cardinality(SeatsOf(bks, s)) <= Cardinality(ActiveBookingsOf(bks, s))
<1> DEFINE active == ActiveBookingsOf(bks, s)
           studentOf == [b \in active |-> bks[b].student]
<1>1. IsFiniteSet(active)
  BY SeatsFinite
<1>2. /\ studentOf \in [active -> SeatsOf(bks, s)]
      /\ \A st \in SeatsOf(bks, s) : \E b \in active : studentOf[b] = st
  BY DEF SeatsOf
<1> HIDE DEF active, studentOf
<1>3. studentOf \in Surjection(active, SeatsOf(bks, s))
  BY <1>2 DEF Surjection
<1>4. /\ IsFiniteSet(SeatsOf(bks, s))
      /\ Cardinality(SeatsOf(bks, s)) <= Cardinality(active)
  BY <1>1, <1>3, FS_Surjection
<1> QED
  BY <1>4, FS_CardinalityType DEF active

-----------------------------------------------------------------------------
(* Steps that commit nothing. *)

(* What a transaction does depends on the committed rows and on the locks it
   holds. *)
LEMMA PlaysOn ==
  ASSUME NEW v, NEW txn, Plays(v, txn), UNCHANGED <<bookings, sessions>>,
         \A s \in SessionIds : locks[s] = v => locks'[s] = v
  PROVE  Plays(v, txn)'
<1>1. Mine(v) \subseteq Mine(v)'
  BY DEF Mine
<1>2. \A changed : OthersSame(txn, changed) => OthersSame(txn, changed)'
  BY DEF OthersSame, BksOf, SesOf
<1>3. \A c : /\ LetGo(txn, c) => LetGo(txn, c)'
             /\ TookIn(txn, c) => TookIn(txn, c)'
             /\ TookPlace(txn, c) => TookPlace(txn, c)'
  BY DEF LetGo, TookIn, TookPlace, BksOf, SesOf
<1>4. /\ Left(v, txn) => Left(v, txn)'
      /\ Joined(v, txn) => Joined(v, txn)'
      /\ Moved(v, txn) => Moved(v, txn)'
      /\ Completed(v, txn) => Completed(v, txn)'
  BY <1>1, <1>2, <1>3 DEF Left, Joined, Moved, Completed
<1>5. Effect(v, txn)'
  BY <1>2, <1>4 DEF Plays, Effect
<1>6. /\ \A s \in SessionIds : OneSeatEach(BksOf(txn), s)'
      /\ Own(txn)' /\ Names(txn)' /\ NewHere(txn)'
  BY DEF Plays, Own, Names, NewHere, BksOf
<1> QED
  BY <1>5, <1>6 DEF Plays

LEMMA OwnPart ==
  ASSUME IInv, RInv, NEW w \in Workers, NEW next, txns' = [txns EXCEPT ![w] = next],
         UNCHANGED <<bookings, sessions>>, Plays(w, next)',
         \A v \in Workers \ {w} : \A s \in SessionIds : locks[s] = v => locks'[s] = v
  PROVE  RInv'
<1>1. txns'[w] = next /\ \A v \in Workers \ {w} : txns'[v] = txns[v]
  BY DEF IInv, TypeInv
<1>2. ASSUME NEW v \in Workers
      PROVE  Plays(v, txns[v])'
  <2>1. CASE v = w
    BY <2>1, <1>1
  <2>2. CASE v # w
    <3>1. PICK other : other = txns[v]
      OBVIOUS
    <3>2. Plays(v, other) /\ txns'[v] = other
      BY <3>1, <2>2, <1>1 DEF RInv
    <3>3. Plays(v, other)'
      BY <3>2, <2>2, PlaysOn
    <3> QED
      BY <3>2, <3>3
  <2> QED
    BY <2>1, <2>2
<1>3. \A s \in SessionIds : OneSeatEach(bookings, s)'
  BY DEF RInv
<1> QED
  BY <1>2, <1>3 DEF RInv

(* A request that begins: what its statements are, and in which order. *)

Opens(todo, cancelled) ==
  /\ Order(todo) /\ todo # << >> /\ Head(todo).op = "LOCK"
  /\ \A i \in 1 .. Len(todo) : todo[i].op = "CANCEL" => todo[i].row \in cancelled

LEMMA TakeSeatOrder ==
  ASSUME NEW s, NEW todo, todo = TakeSeat(s)
  PROVE  Opens(todo, {})
<1>1. /\ Len(todo) = 3 /\ todo[1].op = "LOCK" /\ todo[2].op = "CHECK_DAY"
      /\ todo[3].op = "TAKE_SEAT" /\ Head(todo).op = "LOCK"
  BY DEF TakeSeat, Statement
<1> QED
  BY <1>1 DEF Opens, Order

LEMMA GiveUpSeatOrder ==
  ASSUME NEW b, NEW todo, todo = GiveUpSeat(b)
  PROVE  Opens(todo, {b})
<1>1. /\ Len(todo) = 4 /\ todo[1].op = "LOCK" /\ todo[2].op = "LOCK"
      /\ todo[3].op = "CLOCK" /\ todo[4].op = "CANCEL" /\ todo[4].row = b
      /\ Head(todo).op = "LOCK"
  BY DEF GiveUpSeat, Statement
<1> QED
  BY <1>1 DEF Opens, Order

LEMMA RescheduleOrder ==
  ASSUME NEW b, NEW d, NEW todo, todo = GiveUpSeat(b) \o TakeSeat(d)
  PROVE  Opens(todo, {b})
<1>1. /\ Len(todo) = 7 /\ todo[1].op = "LOCK" /\ todo[2].op = "LOCK"
      /\ todo[3].op = "CLOCK" /\ todo[4].op = "CANCEL" /\ todo[4].row = b
      /\ todo[5].op = "LOCK" /\ todo[6].op = "CHECK_DAY" /\ todo[7].op = "TAKE_SEAT"
      /\ Head(todo).op = "LOCK"
  BY DEF GiveUpSeat, TakeSeat, Statement
<1>2. ASSUME NEW i \in 1 .. Len(todo), NEW j \in 1 .. Len(todo), i < j
      PROVE  /\ todo[i].op \notin {"TAKE_SEAT", "COMPLETE"}
             /\ todo[i].op = "CANCEL" => todo[j].op \in {"LOCK", "CHECK_DAY", "TAKE_SEAT"}
  <2>1. i \in 1 .. 6 /\ (i = 4 => j \in 5 .. 7)
    BY <1>1, <1>2
  <2>2. todo[i].op \notin {"TAKE_SEAT", "COMPLETE"} /\ (todo[i].op = "CANCEL" => i = 4)
    <3>1. i = 1 \/ i = 2 \/ i = 3 \/ i = 4 \/ i = 5 \/ i = 6
      BY <2>1
    <3> QED
      BY <3>1, <1>1
  <2>3. j \in 5 .. 7 => todo[j].op \in {"LOCK", "CHECK_DAY", "TAKE_SEAT"}
    BY <1>1
  <2> QED
    BY <2>1, <2>2, <2>3
<1>3. \A i \in 1 .. Len(todo) : todo[i].op = "CANCEL" => todo[i].row = b
  BY <1>1
<1> QED
  BY <1>1, <1>2, <1>3 DEF Opens, Order

LEMMA MarkOneOrder ==
  ASSUME NEW b, NEW todo, todo = MarkOne(b).todo
  PROVE  Opens(todo, {})
<1>1. /\ Len(todo) = 5 /\ todo[1].op = "LOCK" /\ todo[2].op = "LOCK"
      /\ todo[3].op = "CLOCK" /\ todo[4].op = "MARK" /\ todo[5].op = "COMPLETE"
      /\ Head(todo).op = "LOCK"
  BY DEF MarkOne, Request, Statement
<1> QED
  BY <1>1 DEF Opens, Order

LEMMA MarkManyOrder ==
  ASSUME IInv, NEW bs \in Seq(DOMAIN bookings), bs # << >>,
         NEW todo, todo = MarkMany(bs).todo
  PROVE  Opens(todo, {})
<1>1. PICK s : s = bookings[bs[1]].session
  OBVIOUS
<1>2. PICK marks : marks = MarkSeats(bs)
  OBVIOUS
<1>3. PICK n : n = Len(bs)
  OBVIOUS
<1>4. MarkedOneByOne(bs, s, todo, marks, n)
  BY <1>1, <1>2, <1>3, MarkManyStatements
<1>5. /\ n \in Nat \ {0} /\ todo \in Seq([op: Ops, row: Rows]) /\ Len(todo) = 2 * n + 3
      /\ todo[1].op = "LOCK" /\ todo[2].op = "CLOCK" /\ todo[2 * n + 3].op = "COMPLETE"
      /\ \A i \in 1 .. 2 * n : todo[i + 2] = marks[i]
  BY <1>4 DEF MarkedOneByOne
<1>6. \A i \in 1 .. 2 * n : marks[i].op \in {"LOCK", "MARK"}
  <2>1. TAKE i \in 1 .. 2 * n
  <2>2. CASE i % 2 = 1
    <3>1. marks[i] = [op |-> "LOCK", row |-> bs[(i + 1) \div 2]]
      BY <2>2, <1>4 DEF MarkedOneByOne
    <3> QED
      BY <3>1
  <2>3. CASE i % 2 # 1
    <3>1. marks[i] = [op |-> "MARK", row |-> bs[i \div 2]]
      BY <2>3, <1>4 DEF MarkedOneByOne
    <3> QED
      BY <3>1
  <2> QED
    BY <2>2, <2>3
<1>7. ASSUME NEW i \in 1 .. Len(todo)
      PROVE  \/ todo[i].op \in {"LOCK", "CLOCK", "MARK"}
             \/ i = Len(todo) /\ todo[i].op = "COMPLETE"
  <2>1. i = 1 \/ i = 2 \/ i = 2 * n + 3 \/ (i - 2 \in 1 .. 2 * n /\ i - 2 + 2 = i)
    BY <1>5
  <2>2. CASE i - 2 \in 1 .. 2 * n /\ i - 2 + 2 = i
    <3>1. todo[i] = marks[i - 2] /\ marks[i - 2].op \in {"LOCK", "MARK"}
      BY <2>2, <1>5, <1>6, Zenon
    <3> QED
      BY <3>1
  <2> QED
    BY <2>1, <2>2, <1>5
<1>8. Order(todo)
  <2>1. ASSUME NEW i \in 1 .. Len(todo), NEW j \in 1 .. Len(todo), i < j
        PROVE  todo[i].op \notin {"TAKE_SEAT", "COMPLETE", "CANCEL"}
    <3>1. i # Len(todo)
      BY <1>5, <2>1
    <3> QED
      BY <3>1, <1>7
  <2> QED
    BY <2>1 DEF Order
<1>9. todo # << >> /\ Head(todo) = todo[1]
  BY <1>5
<1> QED
  BY <1>5, <1>7, <1>8, <1>9 DEF Opens

Proper(txn) ==
  /\ txn.bookings = EmptyTable /\ txn.sessions = EmptyTable
  /\ Order(txn.todo) /\ Own(txn) /\ txn.todo # << >> /\ Head(txn.todo).op = "LOCK"

LEMMA RequestProper ==
  ASSUME IInv, NEW request \in Requests
  PROVE  Proper(request)
<1>1. ASSUME NEW kind \in {"BOOK", "ADMIN_ADD"}, NEW st \in StudentIds, NEW s \in SessionIds,
             request = Take(kind, st, s)
      PROVE  Proper(request)
  <2>1. /\ request.todo = TakeSeat(s)
        /\ request.bookings = EmptyTable /\ request.sessions = EmptyTable
    BY <1>1 DEF Take, Request
  <2> QED
    BY <2>1, TakeSeatOrder DEF Proper, Opens, Own
<1>2. ASSUME NEW kind \in {"CANCEL", "ADMIN_CANCEL"}, NEW b \in DOMAIN bookings,
             request = GiveUp(kind, b)
      PROVE  Proper(request)
  <2>1. /\ request.todo = GiveUpSeat(b) /\ request.student = bookings[b].student
        /\ request.bookings = EmptyTable /\ request.sessions = EmptyTable
    BY <1>2 DEF GiveUp, Request
  <2> QED
    BY <2>1, GiveUpSeatOrder DEF Proper, Opens, Own
<1>3. ASSUME NEW kind \in {"RESCHEDULE", "ADMIN_RESCHEDULE"}, NEW b \in DOMAIN bookings,
             NEW s \in SessionIds, request = Reschedule(kind, b, s)
      PROVE  Proper(request)
  <2>1. /\ request.todo = GiveUpSeat(b) \o TakeSeat(s) /\ request.student = bookings[b].student
        /\ request.bookings = EmptyTable /\ request.sessions = EmptyTable
    BY <1>3 DEF Reschedule, Request
  <2>2. Opens(GiveUpSeat(b) \o TakeSeat(s), {b})
    BY RescheduleOrder
  <2> QED
    BY <2>1, <2>2 DEF Proper, Opens, Own
<1>4. ASSUME NEW b \in DOMAIN bookings, request = MarkOne(b)
      PROVE  Proper(request)
  <2>1. request.bookings = EmptyTable /\ request.sessions = EmptyTable
    BY <1>4 DEF MarkOne, Request
  <2> QED
    BY <1>4, <2>1, MarkOneOrder DEF Proper, Opens, Own
<1>5. ASSUME NEW n \in 1 .. MaxMarks, NEW marked \in kSubset(n, DOMAIN bookings),
             NEW bs \in SetToSeqs(marked), request = MarkMany(bs)
      PROVE  Proper(request)
  <2>1. Cardinality(marked) = n /\ marked \subseteq DOMAIN bookings
    BY DEF kSubset
  <2>2. bs \in [1 .. n -> DOMAIN bookings] /\ n \in Nat \ {0}
    BY <2>1, SeatsAssumption DEF SetToSeqs
  <2>3. bs \in Seq(DOMAIN bookings) /\ Len(bs) = n
    BY <2>2, FunctionSeq
  <2>4. bs # << >>
    BY <2>2, <2>3
  <2>5. request.bookings = EmptyTable /\ request.sessions = EmptyTable
    BY <1>5 DEF MarkMany, Request
  <2> QED
    BY <1>5, <2>3, <2>4, <2>5, MarkManyOrder DEF Proper, Opens, Own
<1>6. \/ \E kind \in {"BOOK", "ADMIN_ADD"}, st \in StudentIds, s \in SessionIds :
           request = Take(kind, st, s)
      \/ \E kind \in {"CANCEL", "ADMIN_CANCEL"}, b \in DOMAIN bookings : request = GiveUp(kind, b)
      \/ \E kind \in {"RESCHEDULE", "ADMIN_RESCHEDULE"}, b \in DOMAIN bookings, s \in SessionIds :
           request = Reschedule(kind, b, s)
      \/ \E b \in DOMAIN bookings : request = MarkOne(b)
      \/ \E n \in 1 .. MaxMarks : \E marked \in kSubset(n, DOMAIN bookings) :
           \E bs \in SetToSeqs(marked) : request = MarkMany(bs)
  BY DEF Requests
<1> QED
  BY <1>1, <1>2, <1>3, <1>4, <1>5, <1>6

LEMMA FreshPlays ==
  ASSUME RInv, sessions \in [SessionIds -> SessionStatuses], NEW w \in Workers, NEW txn,
         txn.bookings = EmptyTable, txn.sessions = EmptyTable, Order(txn.todo), Own(txn),
         txn.todo # << >> => Head(txn.todo).op # "TAKE_SEAT"
  PROVE  Plays(w, txn)
<1>1. DOMAIN EmptyTable = {}
  BY DEF EmptyTable
<1>2. ASSUME NEW s \in SessionIds
      PROVE  /\ SeatsOf(BksOf(txn), s) = SeatsOf(bookings, s)
             /\ OneSeatEach(BksOf(txn), s) /\ SesOf(txn)[s] = sessions[s]
  <2>1. SameRows(BksOf(txn), bookings, s)
    BY <1>1, UntouchedRows DEF BksOf
  <2>2. SesOf(txn)[s] = sessions[s]
    BY <1>1 DEF SesOf, Overlay
  <2> QED
    BY <2>1, <2>2, RowsAgree DEF RInv
<1>3. Effect(w, txn)
  BY <1>2 DEF Effect, OthersSame
<1> QED
  BY <1>1, <1>2, <1>3 DEF Plays, Names, NewHere

LEMMA BeginPlays ==
  ASSUME IInv, RInv, NEW w \in Workers, Begin(w)
  PROVE  RInv'
<1>1. PICK request \in Requests : txns' = [txns EXCEPT ![w] = request]
  BY DEF Begin
<1>2. /\ UNCHANGED <<bookings, sessions, locks>>
      /\ sessions \in [SessionIds -> SessionStatuses]
  BY DEF Begin, IInv, TypeInv
<1>3. Plays(w, request)
  BY <1>2, RequestProper, FreshPlays DEF Proper
<1>4. Plays(w, request)'
  BY <1>2, <1>3, PlaysOn
<1> QED
  BY <1>1, <1>2, <1>4, OwnPart

-----------------------------------------------------------------------------
(* Statements that only read. *)

LEMMA RestInOrder ==
  ASSUME NEW txn \in Txn, txn.todo # << >>, NEW next, next.todo = Tail(txn.todo),
         next.student = txn.student, Order(txn.todo), Own(txn)
  PROVE  /\ Order(next.todo) /\ Own(next)
         /\ Head(txn.todo).op \in {"TAKE_SEAT", "COMPLETE"} => next.todo = << >>
         /\ Head(txn.todo).op = "CANCEL" =>
              \A i \in 1 .. Len(next.todo) : next.todo[i].op \in {"LOCK", "CHECK_DAY", "TAKE_SEAT"}
<1> DEFINE todo == txn.todo
           rest == next.todo
<1>1. /\ todo \in Seq([op: Ops, row: Rows]) /\ rest \in Seq([op: Ops, row: Rows])
      /\ Len(todo) \in Nat \ {0} /\ Len(rest) = Len(todo) - 1
      /\ \A i \in 1 .. Len(rest) : i + 1 \in 1 .. Len(todo) /\ rest[i] = todo[i + 1]
      /\ Head(todo) = todo[1]
  BY DEF Txn
<1> HIDE DEF todo, rest
<1>2. Order(rest)
  <2>1. ASSUME NEW i \in 1 .. Len(rest), NEW j \in 1 .. Len(rest), i < j
        PROVE  /\ rest[i].op \notin {"TAKE_SEAT", "COMPLETE"}
               /\ rest[i].op = "CANCEL" => rest[j].op \in {"LOCK", "CHECK_DAY", "TAKE_SEAT"}
    <3>1. /\ i + 1 \in 1 .. Len(todo) /\ j + 1 \in 1 .. Len(todo) /\ i + 1 < j + 1
          /\ rest[i] = todo[i + 1] /\ rest[j] = todo[j + 1]
      BY <1>1, <2>1
    <3> QED
      BY <3>1 DEF Order, todo
  <2> QED
    BY <2>1 DEF Order
<1>3. Own(next)
  BY <1>1 DEF Own, todo, rest
<1>4. ASSUME NEW i \in 1 .. Len(rest)
      PROVE  /\ Head(todo).op \notin {"TAKE_SEAT", "COMPLETE"}
             /\ Head(todo).op = "CANCEL" => rest[i].op \in {"LOCK", "CHECK_DAY", "TAKE_SEAT"}
  <2>1. /\ 1 \in 1 .. Len(todo) /\ i + 1 \in 1 .. Len(todo) /\ 1 < i + 1
        /\ rest[i] = todo[i + 1] /\ Head(todo) = todo[1]
    BY <1>1
  <2> QED
    BY <2>1 DEF Order, todo
<1>5. Head(todo).op \in {"TAKE_SEAT", "COMPLETE"} => rest = << >>
  BY <1>1, <1>4
<1> QED
  BY <1>2, <1>3, <1>4, <1>5 DEF todo, rest

LEMMA ReadPlays ==
  ASSUME NEW w, NEW txn \in Txn, Plays(w, txn), txn.todo # << >>,
         Head(txn.todo).op \in {"LOCK", "CLOCK", "CHECK_DAY"}, NEW next,
         next.todo = Tail(txn.todo), next.student = txn.student,
         next.bookings = txn.bookings, next.sessions = txn.sessions, NewHere(next)
  PROVE  Plays(w, next)
<1>1. BksOf(next) = BksOf(txn) /\ SesOf(next) = SesOf(txn)
  BY DEF BksOf, SesOf
<1>2. Order(next.todo) /\ Own(next)
  BY RestInOrder DEF Plays
<1>3. \A changed : OthersSame(txn, changed) => OthersSame(next, changed)
  BY <1>1 DEF OthersSame
<1>4. Left(w, txn) => Left(w, next)
  BY <1>1, <1>3 DEF Left, LetGo
<1>5. \A i \in 1 .. Len(next.todo) : i + 1 \in 1 .. Len(txn.todo) /\ next.todo[i] = txn.todo[i + 1]
  BY DEF Txn
<1>6. Effect(w, next)
  BY <1>3, <1>4, <1>5 DEF Plays, Effect
<1>7. Names(next) /\ \A s \in SessionIds : OneSeatEach(BksOf(next), s)
  BY <1>1 DEF Plays, Names
<1> QED
  BY <1>2, <1>6, <1>7 DEF Plays

(* The seat a transaction is about to take it has checked the day of. *)
LEMMA SeatAfterCheck ==
  ASSUME NEW w, NEW txn \in Txn, Planned(w, txn), txn.todo # << >>, Tail(txn.todo) # << >>,
         Head(Tail(txn.todo)).op = "TAKE_SEAT"
  PROVE  Head(txn.todo) = Statement("CHECK_DAY", Head(Tail(txn.todo)).row)
<1>1. /\ 2 \in 1 .. Len(txn.todo) /\ Head(txn.todo) = txn.todo[1]
      /\ Head(Tail(txn.todo)) = txn.todo[2]
  BY DEF Txn
<1>2. PlannedAt(w, txn, 2)
  BY <1>1 DEF Planned
<1> QED
  BY <1>1, <1>2 DEF PlannedAt

LEMMA ReadClockPlays ==
  ASSUME IInv, RInv, NEW w \in Workers, ReadClock(w)
  PROVE  RInv'
<1>1. PICK txn : txn = txns[w]
  OBVIOUS
<1>2. /\ txn \in Txn /\ started \in SUBSET SessionIds /\ Planned(w, txn) /\ Plays(w, txn)
      /\ txn.todo # << >> /\ Head(txn.todo).op = "CLOCK"
      /\ UNCHANGED <<bookings, sessions, locks>>
  BY <1>1 DEF IInv, TypeInv, Keeps, RInv, ReadClock, Running
<1>3. PICK read : read = [txn EXCEPT !.begun = started]
  OBVIOUS
<1>4. /\ read \in Txn /\ read.bookings = txn.bookings /\ read.sessions = txn.sessions
      /\ read.student = txn.student /\ read.todo = txn.todo
  BY <1>2, <1>3 DEF Txn
<1>5. PICK next : next = After(read, read.begun, read.bookings, read.sessions)
  OBVIOUS
<1>6. txns' = [txns EXCEPT ![w] = next]
  <2>1. Done(w, read)
    BY <1>1, <1>3 DEF ReadClock
  <2> QED
    BY <2>1, <1>4, <1>5, DoneAfter
<1>7. /\ next.todo = Tail(txn.todo) /\ next.student = txn.student
      /\ next.bookings = txn.bookings /\ next.sessions = txn.sessions
  BY <1>4, <1>5 DEF After
<1>8. NewHere(next)
  <2>1. SUFFICES ASSUME next.todo # << >>, Head(next.todo).op = "TAKE_SEAT"
                 PROVE  FALSE
    BY DEF NewHere
  <2>2. Head(txn.todo) = Statement("CHECK_DAY", Head(next.todo).row)
    BY <2>1, <1>2, <1>7, SeatAfterCheck
  <2> QED
    BY <2>2, <1>2 DEF Statement
<1>9. Plays(w, next)'
  <2>1. Plays(w, next)
    BY <1>2, <1>7, <1>8, ReadPlays
  <2> QED
    BY <2>1, <1>2, PlaysOn
<1> QED
  BY <1>2, <1>6, <1>9, OwnPart

LEMMA LockPlays ==
  ASSUME IInv, RInv, NEW w \in Workers, Lock(w)
  PROVE  RInv'
<1>1. PICK txn : txn = txns[w]
  OBVIOUS
<1>2. PICK row : row = Head(txn.todo).row
  OBVIOUS
<1>3. /\ txn \in Txn /\ Planned(w, txn) /\ Plays(w, txn)
      /\ txn.todo # << >> /\ Head(txn.todo).op = "LOCK"
      /\ locks \in [Rows -> Workers \cup {None}] /\ locks[row] \in {None, w}
      /\ locks' = [locks EXCEPT ![row] = w] /\ UNCHANGED <<bookings, sessions>>
  BY <1>1, <1>2 DEF IInv, TypeInv, Keeps, RInv, Lock, Running, Row
<1>4. PICK next : next = After(txn, txn.begun, txn.bookings, txn.sessions)
  OBVIOUS
<1>5. txns' = [txns EXCEPT ![w] = next]
  BY <1>1, <1>3, <1>4, DoneAfter DEF Lock
<1>6. /\ next.todo = Tail(txn.todo) /\ next.student = txn.student
      /\ next.bookings = txn.bookings /\ next.sessions = txn.sessions
  BY <1>4 DEF After
<1>7. NewHere(next)
  <2>1. SUFFICES ASSUME next.todo # << >>, Head(next.todo).op = "TAKE_SEAT"
                 PROVE  FALSE
    BY DEF NewHere
  <2>2. Head(txn.todo) = Statement("CHECK_DAY", Head(next.todo).row)
    BY <2>1, <1>3, <1>6, SeatAfterCheck
  <2> QED
    BY <2>2, <1>3 DEF Statement
<1>8. \A v \in Workers : \A s \in SessionIds : locks[s] = v => locks'[s] = v
  BY <1>3, SeatsAssumption DEF Rows
<1>9. Plays(w, next)'
  <2>1. Plays(w, next)
    BY <1>3, <1>6, <1>7, ReadPlays
  <2> QED
    BY <2>1, <1>3, <1>8, PlaysOn
<1> QED
  BY <1>3, <1>5, <1>8, <1>9, OwnPart

LEMMA CheckDayPlays ==
  ASSUME IInv, RInv, NEW w \in Workers, CheckDay(w)
  PROVE  RInv'
<1>1. PICK txn : txn = txns[w]
  OBVIOUS
<1>2. PICK s : s = Head(txn.todo).row
  OBVIOUS
<1>3. /\ txn \in Txn /\ Planned(w, txn) /\ Plays(w, txn)
      /\ txn.todo # << >> /\ Head(txn.todo).op = "CHECK_DAY"
      /\ UNCHANGED <<bookings, sessions, locks>>
  BY <1>1 DEF IInv, TypeInv, Keeps, RInv, CheckDay, Running
<1>4. PICK next : next = After(txn, txn.begun, txn.bookings, txn.sessions)
  OBVIOUS
<1>5. txns' = [txns EXCEPT ![w] = next]
  BY <1>1, <1>3, <1>4, DoneAfter DEF CheckDay
<1>6. /\ next.todo = Tail(txn.todo) /\ next.student = txn.student
      /\ next.bookings = txn.bookings /\ next.sessions = txn.sessions
  BY <1>4 DEF After
<1>7. PICK bks : bks = BksOf(txn)
  OBVIOUS
<1>8. /\ SesOf(txn)[s] = "SCHEDULED"
      /\ \A b \in ActiveClassesOf(bks, SesOf(txn), txn.student) : DayOf[bks[b].session] # DayOf[s]
  BY <1>1, <1>2, <1>3, <1>7
  DEF CheckDay, Accepted, MayTakeClass, Running, Row, NoActiveClassOnDay, BookingsSeen,
      SessionsSeen, BksOf, SesOf
<1>9. txn.student \notin SeatsOf(bks, s)
  <2>1. SUFFICES ASSUME NEW b \in ActiveBookingsOf(bks, s), bks[b].student = txn.student
                 PROVE  FALSE
    BY DEF SeatsOf
  <2>2. b \in ActiveClassesOf(bks, SesOf(txn), txn.student) /\ bks[b].session = s
    BY <2>1, <1>8 DEF ActiveBookingsOf, ActiveClassesOf
  <2> QED
    BY <2>2, <1>8
<1>10. NewHere(next)
  <2>1. SUFFICES ASSUME next.todo # << >>, Head(next.todo).op = "TAKE_SEAT"
                 PROVE  next.student \notin SeatsOf(BksOf(next), Head(next.todo).row)
    BY DEF NewHere
  <2>2. Head(txn.todo) = Statement("CHECK_DAY", Head(next.todo).row)
    BY <2>1, <1>3, <1>6, SeatAfterCheck
  <2>3. Head(next.todo).row = s
    BY <2>2, <1>2 DEF Statement
  <2>4. BksOf(next) = bks
    BY <1>6, <1>7 DEF BksOf
  <2> QED
    BY <2>3, <2>4, <1>6, <1>9
<1>11. Plays(w, next)'
  <2>1. Plays(w, next)
    BY <1>3, <1>6, <1>10, ReadPlays
  <2> QED
    BY <2>1, <1>3, PlaysOn
<1> QED
  BY <1>3, <1>5, <1>11, OwnPart

-----------------------------------------------------------------------------
(* Statements that write. *)

Fields == {"kind", "student", "todo", "begun", "bookings", "sessions"}

LEMMA WrittenBooking ==
  ASSUME NEW txn, DOMAIN txn = Fields, NEW b, NEW row, NEW done, done = WriteBooking(txn, b, row)
  PROVE  /\ DOMAIN done = Fields /\ done.todo = txn.todo /\ done.student = txn.student
         /\ done.bookings = Put(txn.bookings, b, row) /\ done.sessions = txn.sessions
BY DEF WriteBooking, Put, Fields

LEMMA WrittenSession ==
  ASSUME NEW txn, DOMAIN txn = Fields, NEW s, NEW status, NEW done,
         done = WriteSession(txn, s, status)
  PROVE  /\ DOMAIN done = Fields /\ done.todo = txn.todo /\ done.student = txn.student
         /\ done.bookings = txn.bookings /\ done.sessions = Put(txn.sessions, s, status)
BY DEF WriteSession, Put, Fields

LEMMA WrittenDone ==
  ASSUME NEW w, NEW done, DOMAIN done = Fields, Done(w, done)
  PROVE  \E next : /\ txns' = [txns EXCEPT ![w] = next]
                   /\ next.todo = Tail(done.todo) /\ next.student = done.student
                   /\ next.bookings = done.bookings /\ next.sessions = done.sessions
<1>1. PICK next : next = [done EXCEPT !.todo = Tail(@)]
  OBVIOUS
<1>2. /\ next.todo = Tail(done.todo) /\ next.student = done.student
      /\ next.bookings = done.bookings /\ next.sessions = done.sessions
  BY <1>1 DEF Fields
<1>3. txns' = [txns EXCEPT ![w] = next]
  BY <1>1 DEF Done
<1> QED
  BY <1>2, <1>3

(* The other classes do not change with booking b of class s. *)
LEMMA OtherClasses ==
  ASSUME NEW new, NEW old, NEW b, NEW row, Differs(new, old, b, row),
         NEW s, row.session = s, b \in DOMAIN old => old[b].session = s, NEW d, d # s
  PROVE  SameRows(new, old, d)
BY DEF Differs, SameRows

(* A transaction about to execute a statement that it may not once its student
   has left a class has changed nothing. *)
LEMMA NothingYet ==
  ASSUME NEW w, NEW txn \in Txn, Effect(w, txn), txn.todo # << >>,
         Head(txn.todo).op \notin {"LOCK", "CHECK_DAY", "TAKE_SEAT"}
  PROVE  OthersSame(txn, {})
<1>1. 1 \in 1 .. Len(txn.todo) /\ Head(txn.todo) = txn.todo[1]
  BY DEF Txn
<1> QED
  BY <1>1 DEF Effect

(* A student who takes a seat joins the class, moves to it, or is back in it. *)
LEMMA SeatTaken ==
  ASSUME NEW w, NEW txn, Effect(w, txn), txn.todo # << >>,
         NEW s \in SessionIds, locks[s] = w, SesOf(txn)[s] = "SCHEDULED",
         txn.student \notin SeatsOf(BksOf(txn), s),
         Cardinality(SeatsOf(BksOf(txn), s)) < Capacity[s],
         NEW next, next.todo = << >>, next.student = txn.student,
         SesOf(next) = SesOf(txn),
         SeatsOf(BksOf(next), s) = SeatsOf(BksOf(txn), s) \cup {txn.student},
         \A d \in SessionIds \ {s} : SeatsOf(BksOf(next), d) = SeatsOf(BksOf(txn), d)
  PROVE  Effect(w, next)
<1>1. s \in Mine(w)
  BY DEF Mine
<1>2. CASE OthersSame(txn, {})
  <2>1. TookIn(next, s) /\ OthersSame(next, {s})
    BY <1>2 DEF OthersSame, TookIn
  <2> QED
    BY <2>1, <1>1 DEF Effect, Joined
<1>3. ASSUME NEW c \in Mine(w), LetGo(txn, c), OthersSame(txn, {c})
      PROVE  Effect(w, next)
  <2>1. CASE c = s
    <3>1. /\ SeatsOf(BksOf(next), s) = SeatsOf(bookings, s)
          /\ SesOf(next)[s] = sessions[s]
      BY <1>3, <2>1 DEF LetGo
    <3>2. OthersSame(next, {})
      BY <1>3, <2>1, <3>1 DEF OthersSame
    <3> QED
      BY <3>2 DEF Effect
  <2>2. CASE c # s
    <3>1. c \in SessionIds
      BY DEF Mine
    <3>2. LetGo(next, c)
      BY <1>3, <2>2, <3>1 DEF LetGo
    <3>3. TookIn(next, s)
      BY <1>3, <2>2 DEF OthersSame, TookIn
    <3>4. OthersSame(next, {c, s})
      BY <1>3 DEF OthersSame
    <3> QED
      BY <1>1, <2>2, <3>2, <3>3, <3>4 DEF Effect, Moved
  <2> QED
    BY <2>1, <2>2
<1> QED
  BY <1>2, <1>3 DEF Effect, Left

LEMMA InsertBookingPlays ==
  ASSUME IInv, RInv, NEW w \in Workers, InsertBooking(w)
  PROVE  RInv'
<1>1. PICK txn : txn = txns[w]
  OBVIOUS
<1>2. PICK s : s = Head(txn.todo).row
  OBVIOUS
<1>3. PICK old : old = BksOf(txn)
  OBVIOUS
<1>4. PICK b : b = CHOOSE k \in BookingIds : k \notin KeysInUse
  OBVIOUS
<1>5. PICK row : row = [student |-> txn.student, session |-> s, status |-> "BOOKED"]
  OBVIOUS
<1>6. /\ txn \in Txn /\ bookings \in BookingTable /\ Planned(w, txn) /\ Plays(w, txn)
      /\ txn.todo # << >> /\ Head(txn.todo).op = "TAKE_SEAT"
      /\ UNCHANGED <<bookings, sessions, locks>>
  BY <1>1 DEF IInv, TypeInv, Keeps, RInv, InsertBooking, Running
<1>7. /\ Cardinality(ActiveBookingsOf(old, s)) < Capacity[s] /\ BookingIds \ KeysInUse # {}
      /\ Done(w, WriteBooking(txn, b, row))
  BY <1>1, <1>2, <1>3, <1>4, <1>5, <1>6
  DEF InsertBooking, Accepted, Running, MayTakeSeat, CapacityAvailable, BookingsSeen, Row, BksOf
<1>8. s \in SessionIds /\ locks[s] = w /\ SesOf(txn)[s] = "SCHEDULED"
  <2>1. 1 \in 1 .. Len(txn.todo) /\ Head(txn.todo) = txn.todo[1]
    BY <1>6 DEF Txn
  <2>2. PlannedAt(w, txn, 1)
    BY <2>1, <1>6 DEF Planned
  <2> QED
    BY <2>1, <2>2, <1>2, <1>6 DEF PlannedAt, Holds, SesOf
<1>9. b \notin DOMAIN bookings /\ b \notin DOMAIN old
  <2>1. b \notin KeysInUse
    BY <1>4, <1>7
  <2> QED
    BY <2>1, <1>1, <1>3 DEF KeysInUse, BksOf, Overlay
<1>10. txn.bookings \in BookingTable /\ DOMAIN txn = Fields
  BY <1>6 DEF Txn, Fields
<1>11. old \in BookingTable
  BY <1>3, <1>6, <1>10, OverlayOfBookings DEF BksOf
<1>12. PICK next :
         /\ txns' = [txns EXCEPT ![w] = next]
         /\ next.todo = Tail(txn.todo) /\ next.student = txn.student
         /\ next.bookings = Put(txn.bookings, b, row) /\ next.sessions = txn.sessions
  <2>1. PICK done : done = WriteBooking(txn, b, row)
    OBVIOUS
  <2>2. /\ DOMAIN done = Fields /\ done.todo = txn.todo /\ done.student = txn.student
        /\ done.bookings = Put(txn.bookings, b, row) /\ done.sessions = txn.sessions
    BY <2>1, <1>10, WrittenBooking
  <2>3. Done(w, done)
    BY <2>1, <1>7
  <2> QED
    BY <2>2, <2>3, WrittenDone
<1>13. PICK new : new = BksOf(next)
  OBVIOUS
<1>14. /\ Differs(new, old, b, row) /\ Differs(next.bookings, txn.bookings, b, row)
       /\ SesOf(next) = SesOf(txn)
  BY <1>3, <1>12, <1>13, BookingWritten DEF BksOf, SesOf
<1>15. row.student = txn.student /\ row.session = s /\ row.status = "BOOKED"
  BY <1>5
<1>16. \A d \in SessionIds \ {s} : SameRows(new, old, d)
  BY <1>9, <1>14, <1>15, OtherClasses
<1>17. /\ ActiveBookingsOf(new, s) = ActiveBookingsOf(old, s) \cup {b}
       /\ \A k \in ActiveBookingsOf(old, s) : new[k] = old[k]
       /\ new[b] = row /\ b \notin ActiveBookingsOf(old, s)
  BY <1>9, <1>14, <1>15 DEF Differs, ActiveBookingsOf
<1>18. SeatsOf(new, s) = SeatsOf(old, s) \cup {txn.student}
  BY <1>15, <1>17 DEF SeatsOf
<1>19. txn.student \notin SeatsOf(old, s)
  BY <1>2, <1>3, <1>6 DEF Plays, NewHere
<1>20. ASSUME NEW d \in SessionIds
       PROVE  OneSeatEach(new, d)
  <2>1. OneSeatEach(old, d)
    BY <1>3, <1>6 DEF Plays
  <2>2. CASE d = s
    BY <2>1, <2>2, <1>15, <1>17, <1>19 DEF OneSeatEach, SeatsOf
  <2>3. CASE d # s
    BY <2>1, <2>3, <1>16, RowsAgree
  <2> QED
    BY <2>2, <2>3
<1>21. Cardinality(SeatsOf(old, s)) < Capacity[s]
  <2>1. /\ Cardinality(SeatsOf(old, s)) \in Nat
        /\ Cardinality(SeatsOf(old, s)) <= Cardinality(ActiveBookingsOf(old, s))
        /\ Cardinality(ActiveBookingsOf(old, s)) \in Nat /\ Capacity[s] \in Nat
    BY <1>8, <1>11, FewerStudentsThanBookings, SeatsFinite, SeatsAssumption
  <2> QED
    BY <2>1, <1>7
<1>22. next.todo = << >> /\ Order(next.todo) /\ Own(next)
  BY <1>6, <1>12, RestInOrder DEF Plays
<1>23. Effect(w, next)
  <2>1. \A d \in SessionIds \ {s} : SeatsOf(new, d) = SeatsOf(old, d)
    BY <1>16, RowsAgree
  <2> QED
    BY <2>1, <1>3, <1>6, <1>8, <1>12, <1>13, <1>14, <1>18, <1>19, <1>21, <1>22, SeatTaken DEF Plays
<1>24. Names(next)
  BY <1>6, <1>9, <1>14 DEF Plays, Names, Differs
<1>25. Plays(w, next)
  BY <1>13, <1>20, <1>22, <1>23, <1>24 DEF Plays, NewHere
<1>26. Plays(w, next)'
  BY <1>6, <1>25, PlaysOn
<1> QED
  BY <1>6, <1>12, <1>26, OwnPart

(* A booking a transaction cancels or marks, as it sees it and as it writes it. *)
LEMMA SeatWritten ==
  ASSUME IInv, NEW w \in Workers, NEW txn, txn = txns[w], Names(txn),
         txn.todo # << >>, Head(txn.todo).op \in {"CANCEL", "MARK"},
         NEW b, b = Head(txn.todo).row,
         NEW status \in BookingStatuses, NEW row,
         row = [BksOf(txn)[b] EXCEPT !.status = status]
  PROVE  /\ txn \in Txn /\ b \in DOMAIN bookings /\ locks[b] = w
         /\ b \in DOMAIN BksOf(txn) /\ BksOf(txn) \in BookingTable /\ row \in Booking
         /\ BksOf(txn)[b] \in Booking
         /\ BksOf(txn)[b].session = bookings[b].session
         /\ BksOf(txn)[b].student = bookings[b].student
         /\ row.session = bookings[b].session /\ row.student = bookings[b].student
         /\ row.status = status
<1>1. txn \in Txn /\ bookings \in BookingTable /\ Planned(w, txn)
  BY DEF IInv, TypeInv, Keeps
<1>2. b \in DOMAIN bookings /\ locks[b] = w
  <2>1. 1 \in 1 .. Len(txn.todo) /\ Head(txn.todo) = txn.todo[1]
    BY <1>1 DEF Txn
  <2>2. PlannedAt(w, txn, 1)
    BY <2>1, <1>1 DEF Planned
  <2> QED
    BY <2>1, <2>2 DEF PlannedAt, Holds
<1>3. txn.bookings \in BookingTable
  BY <1>1 DEF Txn
<1>4. BksOf(txn) \in BookingTable /\ b \in DOMAIN BksOf(txn)
  <2>1. BksOf(txn) \in BookingTable
    BY <1>1, <1>3, OverlayOfBookings DEF BksOf
  <2>2. b \in DOMAIN BksOf(txn)
    BY <1>2 DEF BksOf, Overlay
  <2> QED
    BY <2>1, <2>2
<1>5. PICK seen : seen = BksOf(txn)[b]
  OBVIOUS
<1>6. seen \in Booking /\ seen.session = bookings[b].session
  BY <1>2, <1>5, SeenSeat DEF BksOf
<1>7. seen.student = bookings[b].student
  BY <1>2, <1>5 DEF BksOf, Overlay, Names
<1>8. row \in Booking /\ row.session = seen.session /\ row.student = seen.student /\ row.status = status
  BY <1>5, <1>6 DEF Booking
<1> QED
  BY <1>1, <1>2, <1>4, <1>5, <1>6, <1>7, <1>8

(* What does not depend on the effect. *)
LEMMA SeatWrittenPlays ==
  ASSUME NEW w, NEW txn \in Txn, Plays(w, txn), txn.todo # << >>,
         Planned(w, txn), Head(txn.todo).op \in {"CANCEL", "MARK", "COMPLETE"},
         NEW next, next.todo = Tail(txn.todo), next.student = txn.student,
         Effect(w, next), Names(next), \A d \in SessionIds : OneSeatEach(BksOf(next), d)
  PROVE  Plays(w, next)
<1>1. Order(next.todo) /\ Own(next)
  BY RestInOrder DEF Plays
<1>2. NewHere(next)
  <2>1. SUFFICES ASSUME next.todo # << >>, Head(next.todo).op = "TAKE_SEAT"
                 PROVE  FALSE
    BY DEF NewHere
  <2>2. Head(txn.todo) = Statement("CHECK_DAY", Head(next.todo).row)
    BY <2>1, SeatAfterCheck
  <2> QED
    BY <2>2 DEF Statement
<1> QED
  BY <1>1, <1>2 DEF Plays

LEMMA MarkBookingPlays ==
  ASSUME IInv, RInv, NEW w \in Workers, MarkBooking(w)
  PROVE  RInv'
<1>1. PICK txn : txn = txns[w]
  OBVIOUS
<1>2. PICK b : b = Head(txn.todo).row
  OBVIOUS
<1>3. PICK old : old = BksOf(txn)
  OBVIOUS
<1>4. PICK row : row = [old[b] EXCEPT !.status = "ATTENDED"]
  OBVIOUS
<1>5. /\ txn \in Txn /\ Planned(w, txn) /\ Plays(w, txn)
      /\ txn.todo # << >> /\ Head(txn.todo).op = "MARK"
      /\ UNCHANGED <<bookings, sessions, locks>>
  BY <1>1 DEF IInv, TypeInv, Keeps, RInv, MarkBooking, Running
<1>6. old[b].status # "CANCELLED" /\ Done(w, WriteBooking(txn, b, row))
  BY <1>1, <1>2, <1>3, <1>4, <1>5
  DEF MarkBooking, Accepted, Running, MayMark, BookingsSeen, Row, BksOf
<1>7. /\ b \in DOMAIN bookings /\ b \in DOMAIN old /\ old \in BookingTable /\ row \in Booking
      /\ old[b].session = bookings[b].session /\ old[b].student = bookings[b].student
      /\ row.session = bookings[b].session /\ row.student = bookings[b].student
      /\ row.status = "ATTENDED"
  <2>1. "ATTENDED" \in BookingStatuses /\ Names(txn)
    BY <1>5 DEF BookingStatuses, Plays
  <2> QED
    BY <2>1, <1>1, <1>2, <1>3, <1>4, <1>5, SeatWritten
<1>8. PICK s : s = bookings[b].session
  OBVIOUS
<1>9. PICK next :
        /\ txns' = [txns EXCEPT ![w] = next]
        /\ next.todo = Tail(txn.todo) /\ next.student = txn.student
        /\ next.bookings = Put(txn.bookings, b, row) /\ next.sessions = txn.sessions
  <2>1. PICK done : done = WriteBooking(txn, b, row)
    OBVIOUS
  <2>2. DOMAIN txn = Fields
    BY <1>5 DEF Txn, Fields
  <2>3. /\ DOMAIN done = Fields /\ done.todo = txn.todo /\ done.student = txn.student
        /\ done.bookings = Put(txn.bookings, b, row) /\ done.sessions = txn.sessions
    BY <2>1, <2>2, WrittenBooking
  <2>4. Done(w, done)
    BY <2>1, <1>6
  <2> QED
    BY <2>3, <2>4, WrittenDone
<1>10. PICK new : new = BksOf(next)
  OBVIOUS
<1>11. /\ Differs(new, old, b, row) /\ Differs(next.bookings, txn.bookings, b, row)
       /\ SesOf(next) = SesOf(txn)
  BY <1>3, <1>9, <1>10, BookingWritten DEF BksOf, SesOf
<1>12. /\ ActiveBookingsOf(new, s) = ActiveBookingsOf(old, s)
       /\ \A k \in DOMAIN old : new[k].student = old[k].student
  <2>1. ActiveBookingsOf(new, s) = ActiveBookingsOf(old, s)
    BY <1>6, <1>7, <1>8, <1>11, SeatMarked
  <2>2. \A k \in DOMAIN old : new[k].student = old[k].student
    BY <1>7, <1>11 DEF Differs
  <2> QED
    BY <2>1, <2>2
<1>13. ASSUME NEW d \in SessionIds
       PROVE  SeatsOf(new, d) = SeatsOf(old, d) /\ OneSeatEach(new, d)
  <2>1. OneSeatEach(old, d)
    BY <1>3, <1>5 DEF Plays
  <2>2. CASE d = s
    <3>1. \A k \in ActiveBookingsOf(old, d) : k \in DOMAIN old
      BY DEF ActiveBookingsOf
    <3> QED
      BY <2>1, <2>2, <3>1, <1>12 DEF OneSeatEach, SeatsOf
  <2>3. CASE d # s
    <3>1. SameRows(new, old, d)
      BY <2>3, <1>7, <1>8, <1>11, OtherClasses
    <3> QED
      BY <2>1, <3>1, RowsAgree
  <2> QED
    BY <2>2, <2>3
<1>14. Effect(w, next)
  <2>1. OthersSame(txn, {})
    BY <1>5, NothingYet DEF Plays
  <2>2. OthersSame(next, {})
    BY <2>1, <1>3, <1>10, <1>11, <1>13 DEF OthersSame
  <2> QED
    BY <2>2 DEF Effect
<1>15. Names(next)
  BY <1>5, <1>7, <1>11 DEF Plays, Names, Differs
<1>16. Plays(w, next)
  BY <1>5, <1>9, <1>10, <1>13, <1>14, <1>15, SeatWrittenPlays
<1>17. Plays(w, next)'
  BY <1>5, <1>16, PlaysOn
<1> QED
  BY <1>5, <1>9, <1>17, OwnPart

LEMMA CancelBookingPlays ==
  ASSUME IInv, RInv, NEW w \in Workers, CancelBooking(w)
  PROVE  RInv'
<1>1. PICK txn : txn = txns[w]
  OBVIOUS
<1>2. PICK b : b = Head(txn.todo).row
  OBVIOUS
<1>3. PICK old : old = BksOf(txn)
  OBVIOUS
<1>4. PICK row : row = [old[b] EXCEPT !.status = "CANCELLED"]
  OBVIOUS
<1>5. PICK s : s = bookings[b].session
  OBVIOUS
<1>6. /\ txn \in Txn /\ Planned(w, txn) /\ Views(w, txn) /\ Plays(w, txn)
      /\ txn.todo # << >> /\ Head(txn.todo).op = "CANCEL"
      /\ sessions \in [SessionIds -> SessionStatuses] /\ bookings \in BookingTable
      /\ UNCHANGED <<bookings, sessions, locks>>
  BY <1>1 DEF IInv, TypeInv, Keeps, RInv, CancelBooking, Running
<1>7. PICK empty : empty = (/\ BookedBookingsOf(old, s) \subseteq {b}
                            /\ SesOf(txn)[s] = "SCHEDULED")
  OBVIOUS
<1>8. /\ old[b].status = "BOOKED"
      /\ Done(w, IF empty THEN WriteSession(WriteBooking(txn, b, row), s, "CANCELLED")
                 ELSE WriteBooking(txn, b, row))
  BY <1>1, <1>2, <1>3, <1>4, <1>5, <1>6, <1>7
  DEF CancelBooking, Accepted, Running, MayCancel, BookingsSeen, SessionsSeen, Row, BksOf, SesOf
<1>9. /\ b \in DOMAIN bookings /\ b \in DOMAIN old /\ old \in BookingTable /\ row \in Booking
      /\ old[b].session = s /\ old[b].student = bookings[b].student
      /\ row.session = s /\ row.student = bookings[b].student
      /\ row.status = "CANCELLED"
  <2>1. "CANCELLED" \in BookingStatuses /\ Names(txn)
    BY <1>6 DEF BookingStatuses, Plays
  <2> QED
    BY <2>1, <1>1, <1>2, <1>3, <1>4, <1>5, <1>6, SeatWritten
<1>10. s \in SessionIds /\ locks[s] = w /\ bookings[b].student = txn.student
  <2>1. 1 \in 1 .. Len(txn.todo) /\ Head(txn.todo) = txn.todo[1]
    BY <1>6 DEF Txn
  <2>2. PlannedAt(w, txn, 1)
    BY <2>1, <1>6 DEF Planned
  <2>3. locks[s] = w
    BY <2>1, <2>2, <1>2, <1>5, <1>6 DEF PlannedAt, Holds
  <2>4. s \in SessionIds
    BY <1>5, <1>6, <1>9, BookingTables DEF Booking
  <2>5. bookings[b].student = txn.student
    BY <2>1, <1>2, <1>6 DEF Plays, Own
  <2> QED
    BY <2>3, <2>4, <2>5
<1>11. OthersSame(txn, {})
  BY <1>6, NothingYet DEF Plays
<1>12. SesOf(txn)[s] = "SCHEDULED" /\ sessions[s] = "SCHEDULED"
  <2>1. SesOf(txn)[s] = sessions[s] /\ sessions[s] \in SessionStatuses
    BY <1>6, <1>10, <1>11 DEF OthersSame
  <2>2. Agrees(old, SesOf(txn)[s], s)
    BY <1>3, <1>6, <1>10 DEF Views, BksOf, SesOf
  <2>3. b \in BookedBookingsOf(old, s)
    BY <1>8, <1>9 DEF BookedBookingsOf
  <2> QED
    BY <2>1, <2>2, <2>3 DEF Agrees, SessionStatuses
<1>13. PICK next :
         /\ txns' = [txns EXCEPT ![w] = next]
         /\ next.todo = Tail(txn.todo) /\ next.student = txn.student
         /\ next.bookings = Put(txn.bookings, b, row)
         /\ next.sessions = IF empty THEN Put(txn.sessions, s, "CANCELLED") ELSE txn.sessions
  <2>1. PICK written : written = WriteBooking(txn, b, row)
    OBVIOUS
  <2>2. DOMAIN txn = Fields
    BY <1>6 DEF Txn, Fields
  <2>3. /\ DOMAIN written = Fields /\ written.todo = txn.todo /\ written.student = txn.student
        /\ written.bookings = Put(txn.bookings, b, row) /\ written.sessions = txn.sessions
    BY <2>1, <2>2, WrittenBooking
  <2>4. PICK done : done = IF empty THEN WriteSession(written, s, "CANCELLED") ELSE written
    OBVIOUS
  <2>5. /\ DOMAIN done = Fields /\ done.todo = txn.todo /\ done.student = txn.student
        /\ done.bookings = Put(txn.bookings, b, row)
        /\ done.sessions = IF empty THEN Put(txn.sessions, s, "CANCELLED") ELSE txn.sessions
    BY <2>3, <2>4, WrittenSession
  <2>6. Done(w, done)
    BY <2>1, <2>4, <1>8
  <2> QED
    BY <2>5, <2>6, WrittenDone
<1>14. PICK new : new = BksOf(next)
  OBVIOUS
<1>15. Differs(new, old, b, row) /\ Differs(next.bookings, txn.bookings, b, row)
  BY <1>3, <1>13, <1>14, BookingWritten DEF BksOf
<1>16. /\ SesOf(next)[s] \in {"SCHEDULED", "CANCELLED"}
       /\ \A d \in SessionIds \ {s} : SesOf(next)[d] = SesOf(txn)[d]
  <2>1. CASE empty
    <3>1. Differs(next.sessions, txn.sessions, s, "CANCELLED")
      BY <2>1, <1>13, RowWritten
    <3> QED
      BY <3>1, <1>6, <1>10 DEF Differs, SesOf, Overlay
  <2>2. CASE ~empty
    BY <2>2, <1>12, <1>13 DEF SesOf
  <2> QED
    BY <2>1, <2>2
<1>17. /\ ActiveBookingsOf(new, s) = ActiveBookingsOf(old, s) \ {b}
       /\ \A k \in ActiveBookingsOf(new, s) : new[k] = old[k]
       /\ b \in ActiveBookingsOf(old, s)
  <2>1. ActiveBookingsOf(new, s) = ActiveBookingsOf(old, s) \ {b}
    BY <1>9, <1>15, SeatCancelled
  <2>2. \A k \in ActiveBookingsOf(old, s) : k \in DOMAIN old
    BY DEF ActiveBookingsOf
  <2>3. b \in ActiveBookingsOf(old, s)
    BY <1>8, <1>9 DEF ActiveBookingsOf
  <2> QED
    BY <2>1, <2>2, <2>3, <1>15 DEF Differs
<1>18. OneSeatEach(old, s)
  BY <1>3, <1>6, <1>10 DEF Plays
<1>19. SeatsOf(new, s) = SeatsOf(old, s) \ {txn.student} /\ txn.student \in SeatsOf(old, s)
  <2>1. old[b].student = txn.student
    BY <1>9, <1>10
  <2>2. txn.student \in SeatsOf(old, s)
    BY <2>1, <1>17 DEF SeatsOf
  <2>3. ASSUME NEW k \in ActiveBookingsOf(old, s) \ {b}
        PROVE  old[k].student # txn.student
    BY <2>1, <1>17, <1>18 DEF OneSeatEach
  <2>4. SeatsOf(new, s) = SeatsOf(old, s) \ {txn.student}
    <3>1. SeatsOf(new, s) = {old[k].student : k \in ActiveBookingsOf(old, s) \ {b}}
      BY <1>17 DEF SeatsOf
    <3> QED
      BY <3>1, <2>1, <2>3 DEF SeatsOf
  <2> QED
    BY <2>2, <2>4
<1>20. \A d \in SessionIds \ {s} : SameRows(new, old, d)
  BY <1>9, <1>15, OtherClasses
<1>21. ASSUME NEW d \in SessionIds
       PROVE  OneSeatEach(new, d)
  <2>1. CASE d = s
    BY <2>1, <1>17, <1>18 DEF OneSeatEach
  <2>2. CASE d # s
    <3>1. OneSeatEach(old, d)
      BY <1>3, <1>6 DEF Plays
    <3> QED
      BY <2>2, <3>1, <1>20, RowsAgree
  <2> QED
    BY <2>1, <2>2
<1>22. Effect(w, next)
  <2>1. SeatsOf(old, s) = SeatsOf(bookings, s)
    BY <1>3, <1>10, <1>11 DEF OthersSame
  <2>2. LetGo(next, s)
    BY <2>1, <1>12, <1>13, <1>14, <1>16, <1>19 DEF LetGo
  <2>3. OthersSame(next, {s})
    <3>1. \A d \in SessionIds \ {s} : SeatsOf(new, d) = SeatsOf(old, d)
      BY <1>20, RowsAgree
    <3> QED
      BY <3>1, <1>3, <1>11, <1>14, <1>16 DEF OthersSame
  <2>4. Left(w, next)
    BY <2>2, <2>3, <1>10 DEF Left, Mine
  <2>5. \A i \in 1 .. Len(next.todo) : next.todo[i].op \in {"LOCK", "CHECK_DAY", "TAKE_SEAT"}
    BY <1>6, <1>13, RestInOrder DEF Plays
  <2> QED
    BY <2>4, <2>5 DEF Effect
<1>23. Names(next)
  BY <1>6, <1>9, <1>15 DEF Plays, Names, Differs
<1>24. Plays(w, next)
  BY <1>6, <1>13, <1>14, <1>21, <1>22, <1>23, SeatWrittenPlays
<1>25. Plays(w, next)'
  BY <1>6, <1>24, PlaysOn
<1> QED
  BY <1>6, <1>13, <1>25, OwnPart

LEMMA CompleteClassPlays ==
  ASSUME IInv, RInv, NEW w \in Workers, CompleteClass(w)
  PROVE  RInv'
<1>1. PICK txn : txn = txns[w]
  OBVIOUS
<1>2. PICK s : s = Head(txn.todo).row
  OBVIOUS
<1>3. PICK bks : bks = BksOf(txn)
  OBVIOUS
<1>4. /\ txn \in Txn /\ Planned(w, txn) /\ Plays(w, txn)
      /\ txn.todo # << >> /\ Head(txn.todo).op = "COMPLETE"
      /\ sessions \in [SessionIds -> SessionStatuses]
      /\ UNCHANGED <<bookings, sessions, locks>>
  BY <1>1 DEF IInv, TypeInv, Keeps, RInv, CompleteClass, Running
<1>5. PICK taken : taken = (/\ SesOf(txn)[s] # "CANCELLED" /\ ActiveBookingsOf(bks, s) # {}
                            /\ BookedBookingsOf(bks, s) = {})
  OBVIOUS
<1>6. Done(w, IF taken THEN WriteSession(txn, s, "COMPLETED") ELSE txn)
  BY <1>1, <1>2, <1>3, <1>5 DEF CompleteClass, Row, BookingsSeen, SessionsSeen, BksOf, SesOf
<1>7. s \in SessionIds /\ locks[s] = w
  <2>1. 1 \in 1 .. Len(txn.todo) /\ Head(txn.todo) = txn.todo[1]
    BY <1>4 DEF Txn
  <2>2. PlannedAt(w, txn, 1)
    BY <2>1, <1>4 DEF Planned
  <2> QED
    BY <2>1, <2>2, <1>2, <1>4 DEF PlannedAt, Holds
<1>8. PICK next :
        /\ txns' = [txns EXCEPT ![w] = next]
        /\ next.todo = Tail(txn.todo) /\ next.student = txn.student
        /\ next.bookings = txn.bookings
        /\ next.sessions = IF taken THEN Put(txn.sessions, s, "COMPLETED") ELSE txn.sessions
  <2>1. DOMAIN txn = Fields
    BY <1>4 DEF Txn, Fields
  <2>2. PICK done : done = IF taken THEN WriteSession(txn, s, "COMPLETED") ELSE txn
    OBVIOUS
  <2>3. /\ DOMAIN done = Fields /\ done.todo = txn.todo /\ done.student = txn.student
        /\ done.bookings = txn.bookings
        /\ done.sessions = IF taken THEN Put(txn.sessions, s, "COMPLETED") ELSE txn.sessions
    BY <2>1, <2>2, WrittenSession
  <2>4. Done(w, done)
    BY <2>2, <1>6
  <2> QED
    BY <2>3, <2>4, WrittenDone
<1>9. BksOf(next) = bks /\ Names(next)
  BY <1>3, <1>4, <1>8 DEF BksOf, Plays, Names
<1>10. OthersSame(txn, {})
  BY <1>4, NothingYet DEF Plays
<1>11. next.todo = << >>
  BY <1>4, <1>8, RestInOrder DEF Plays
<1>12. /\ \A d \in SessionIds \ {s} : SesOf(next)[d] = SesOf(txn)[d]
       /\ SesOf(next)[s] = IF taken THEN "COMPLETED" ELSE SesOf(txn)[s]
  <2>1. CASE taken
    <3>1. Differs(next.sessions, txn.sessions, s, "COMPLETED")
      BY <2>1, <1>8, RowWritten
    <3> QED
      BY <2>1, <3>1, <1>4, <1>7 DEF Differs, SesOf, Overlay
  <2>2. CASE ~taken
    BY <2>2, <1>8 DEF SesOf
  <2> QED
    BY <2>1, <2>2
<1>13. Effect(w, next)
  <2>1. OthersSame(next, {s}) /\ SeatsOf(bks, s) = SeatsOf(bookings, s) /\ SesOf(txn)[s] = sessions[s]
    BY <1>3, <1>7, <1>9, <1>10, <1>12 DEF OthersSame
  <2>2. CASE taken /\ sessions[s] = "SCHEDULED"
    <3>1. SeatsOf(bks, s) # {}
      BY <2>2, <1>5 DEF SeatsOf
    <3>2. TookPlace(next, s)
      BY <2>1, <2>2, <3>1, <1>9, <1>12 DEF TookPlace
    <3> QED
      BY <2>1, <3>2, <1>7, <1>11 DEF Effect, Completed, Mine
  <2>3. CASE ~taken \/ sessions[s] # "SCHEDULED"
    <3>1. SesOf(next)[s] = sessions[s]
      <4>1. sessions[s] \in SessionStatuses
        BY <1>4, <1>7
      <4> QED
        BY <2>1, <2>3, <4>1, <1>5, <1>12 DEF SessionStatuses
    <3>2. OthersSame(next, {})
      BY <2>1, <3>1, <1>9 DEF OthersSame
    <3> QED
      BY <3>2 DEF Effect
  <2> QED
    BY <2>2, <2>3
<1>14. Plays(w, next)
  <2>1. \A d \in SessionIds : OneSeatEach(BksOf(next), d)
    BY <1>3, <1>4, <1>9 DEF Plays
  <2> QED
    BY <2>1, <1>4, <1>8, <1>9, <1>13, SeatWrittenPlays
<1>15. Plays(w, next)'
  BY <1>4, <1>14, PlaysOn
<1> QED
  BY <1>4, <1>8, <1>15, OwnPart

-----------------------------------------------------------------------------
(* Steps that end a transaction. *)

(* What another transaction does to the classes it has locked, when another
   commits what it has done to those that one has locked. *)
LEMMA OthersPlay ==
  ASSUME NEW v \in Workers, NEW txn \in Txn, Keeps(v, txn), Plays(v, txn),
         sessions \in [SessionIds -> SessionStatuses],
         sessions' \in [SessionIds -> SessionStatuses],
         \A s \in SessionIds : locks'[s] = v <=> locks[s] = v,
         \A s \in SessionIds : locks[s] = v => sessions'[s] = sessions[s],
         \A b \in DOMAIN bookings :
           /\ b \in DOMAIN bookings' /\ bookings'[b].session = bookings[b].session
           /\ bookings'[b].student = bookings[b].student,
         \A b \in DOMAIN bookings' :
           locks[bookings'[b].session] = v =>
             b \in DOMAIN bookings /\ bookings'[b] = bookings[b],
         \A b \in DOMAIN bookings : locks[bookings[b].session] = v => bookings'[b] = bookings[b],
         \A b \in DOMAIN txn.bookings : b \in DOMAIN bookings' => b \in DOMAIN bookings,
         \A s \in SessionIds : OneSeatEach(bookings', s)
  PROVE  Plays(v, txn)'
<1> DEFINE old == BksOf(txn)
           new == Overlay(txn.bookings, bookings')
           oldSes == SesOf(txn)
           newSes == Overlay(txn.sessions, sessions')
<1>1. BksOf(txn)' = new /\ SesOf(txn)' = newSes
  BY DEF BksOf, SesOf
<1>2. /\ Wrote(v, txn) /\ Planned(v, txn)
      /\ \A s \in SessionIds : OneSeatEach(old, s)
      /\ Order(txn.todo) /\ Own(txn) /\ Names(txn) /\ NewHere(txn) /\ Effect(v, txn)
  BY DEF Keeps, Plays
<1>3. ASSUME NEW s \in SessionIds, locks[s] = v
      PROVE  /\ SeatsOf(bookings', s) = SeatsOf(bookings, s)
             /\ SeatsOf(new, s) = SeatsOf(old, s) /\ OneSeatEach(new, s)
             /\ newSes[s] = oldSes[s] /\ sessions'[s] = sessions[s]
  <2>1. SameRows(bookings', bookings, s)
    BY <1>3 DEF SameRows
  <2>2. SameRows(new, old, s)
    <3>1. ASSUME NEW b \in DOMAIN new, new[b].session = s
          PROVE  b \in DOMAIN old /\ old[b] = new[b]
      BY <1>3, <3>1 DEF BksOf, Overlay
    <3>2. ASSUME NEW b \in DOMAIN old, old[b].session = s
          PROVE  b \in DOMAIN new /\ old[b] = new[b]
      BY <1>3, <3>2 DEF BksOf, Overlay
    <3> HIDE DEF new, old
    <3> QED
      BY <3>1, <3>2 DEF SameRows
  <2>3. newSes[s] = oldSes[s] /\ sessions'[s] = sessions[s]
    BY <1>3 DEF SesOf, Overlay
  <2> HIDE DEF new, old, newSes, oldSes
  <2> QED
    BY <2>1, <2>2, <2>3, <1>2, RowsAgree
<1>4. ASSUME NEW s \in SessionIds, locks[s] # v
      PROVE  /\ SeatsOf(new, s) = SeatsOf(bookings', s) /\ OneSeatEach(new, s)
             /\ newSes[s] = sessions'[s]
  <2>1. SameRows(new, bookings', s)
    <3>1. \A b \in DOMAIN txn.bookings : txn.bookings[b].session # s
      BY <1>2, <1>4 DEF Wrote
    <3>2. \A b \in DOMAIN txn.bookings : b \in DOMAIN bookings' => bookings'[b].session # s
      BY <1>2, <1>4 DEF Wrote
    <3> QED
      BY <3>1, <3>2, UntouchedRows
  <2>2. newSes[s] = sessions'[s]
    BY <1>2, <1>4 DEF Overlay, Wrote
  <2> HIDE DEF new, newSes
  <2> QED
    BY <2>1, <2>2, RowsAgree
<1> HIDE DEF new, old, newSes, oldSes
<1>5. Mine(v)' = Mine(v) /\ \A c \in Mine(v) : c \in SessionIds /\ locks[c] = v
  BY DEF Mine
<1>6. ASSUME NEW changed, OthersSame(txn, changed)
      PROVE  OthersSame(txn, changed)'
  <2>1. ASSUME NEW s \in SessionIds \ changed
        PROVE  SeatsOf(new, s) = SeatsOf(bookings', s) /\ newSes[s] = sessions'[s]
    <3>1. CASE locks[s] = v
      BY <1>3, <1>6, <3>1 DEF OthersSame, old, oldSes
    <3>2. CASE locks[s] # v
      BY <1>4, <3>2
    <3> QED
      BY <3>1, <3>2
  <2> QED
    BY <2>1, <1>1 DEF OthersSame
<1>7. ASSUME NEW c \in Mine(v)
      PROVE  /\ LetGo(txn, c) => LetGo(txn, c)'
             /\ TookIn(txn, c) => TookIn(txn, c)'
             /\ TookPlace(txn, c) => TookPlace(txn, c)'
  <2>1. /\ SeatsOf(bookings', c) = SeatsOf(bookings, c)
        /\ SeatsOf(BksOf(txn)', c) = SeatsOf(BksOf(txn), c)
        /\ SesOf(txn)'[c] = SesOf(txn)[c] /\ sessions'[c] = sessions[c]
    BY <1>1, <1>3, <1>5 DEF old, oldSes
  <2> QED
    BY <2>1 DEF LetGo, TookIn, TookPlace
<1>8. Effect(v, txn)'
  <2>1. Left(v, txn) => Left(v, txn)'
    BY <1>5, <1>6, <1>7 DEF Left
  <2>2. Joined(v, txn) => Joined(v, txn)'
    BY <1>5, <1>6, <1>7 DEF Joined
  <2>3. Moved(v, txn) => Moved(v, txn)'
    BY <1>5, <1>6, <1>7 DEF Moved
  <2>4. Completed(v, txn) => Completed(v, txn)'
    BY <1>5, <1>6, <1>7 DEF Completed
  <2> QED
    BY <2>1, <2>2, <2>3, <2>4, <1>2, <1>6 DEF Effect
<1>9. Own(txn)'
  <2>1. ASSUME NEW i \in 1 .. Len(txn.todo), txn.todo[i].op = "CANCEL"
        PROVE  bookings'[txn.todo[i].row].student = txn.student
    <3>1. txn.todo[i].row \in DOMAIN bookings
      BY <2>1, <1>2 DEF Planned, PlannedAt
    <3> QED
      BY <2>1, <3>1, <1>2 DEF Own
  <2> QED
    BY <2>1 DEF Own
<1>10. Names(txn)'
  BY <1>2 DEF Names
<1>11. NewHere(txn)'
  <2>1. SUFFICES ASSUME txn.todo # << >>, Head(txn.todo).op = "TAKE_SEAT"
                 PROVE  txn.student \notin SeatsOf(new, Head(txn.todo).row)
    BY <1>1 DEF NewHere
  <2>2. 1 \in 1 .. Len(txn.todo) /\ Head(txn.todo) = txn.todo[1]
    BY <2>1 DEF Txn
  <2>3. Head(txn.todo).row \in SessionIds /\ locks[Head(txn.todo).row] = v
    BY <2>1, <2>2, <1>2 DEF Planned, PlannedAt, Holds
  <2>4. SeatsOf(new, Head(txn.todo).row) = SeatsOf(BksOf(txn), Head(txn.todo).row)
    BY <2>3, <1>3 DEF old
  <2> QED
    BY <2>1, <2>4, <1>2 DEF NewHere
<1>12. \A s \in SessionIds : OneSeatEach(BksOf(txn), s)'
  BY <1>1, <1>3, <1>4
<1> QED
  BY <1>2, <1>8, <1>9, <1>10, <1>11, <1>12 DEF Plays

(* A transaction ends, whatever it commits. *)
LEMMA EndPlays ==
  ASSUME IInv, NEW w \in Workers, End(w),
         sessions' \in [SessionIds -> SessionStatuses],
         \A s \in SessionIds : OneSeatEach(bookings', s),
         \A v \in Workers \ {w} : Plays(v, txns[v])'
  PROVE  RInv'
<1>1. txns'[w] = Idle
  BY DEF End, IInv, TypeInv
<1>2. PICK idle : idle = Idle
  OBVIOUS
<1>3. /\ idle.todo = << >> /\ DOMAIN idle.bookings = {} /\ DOMAIN idle.sessions = {}
  BY <1>2, IdleTyped
<1>4. PICK bks : bks = Overlay(idle.bookings, bookings')
  OBVIOUS
<1>5. ASSUME NEW s \in SessionIds
      PROVE  /\ SeatsOf(bks, s) = SeatsOf(bookings', s) /\ OneSeatEach(bks, s)
             /\ Overlay(idle.sessions, sessions')[s] = sessions'[s]
  <2>1. SameRows(bks, bookings', s)
    BY <1>3, <1>4, UntouchedRows
  <2>2. Overlay(idle.sessions, sessions')[s] = sessions'[s]
    BY <1>3 DEF Overlay
  <2> QED
    BY <2>1, <2>2, RowsAgree
<1>6. Plays(w, idle)'
  <2>1. Effect(w, idle)'
    BY <1>4, <1>5 DEF Effect, OthersSame, BksOf, SesOf
  <2>2. Order(idle.todo)
    BY <1>3 DEF Order
  <2>3. Own(idle)' /\ Names(idle)' /\ NewHere(idle)'
    BY <1>3 DEF Own, Names, NewHere
  <2>4. \A s \in SessionIds : OneSeatEach(BksOf(idle), s)'
    BY <1>4, <1>5 DEF BksOf
  <2> QED
    BY <2>1, <2>2, <2>3, <2>4 DEF Plays
<1>7. ASSUME NEW v \in Workers
      PROVE  Plays(v, txns[v])'
  <2>1. CASE v = w
    BY <2>1, <1>1, <1>2, <1>6
  <2>2. CASE v # w
    BY <2>2
  <2> QED
    BY <2>1, <2>2
<1> QED
  BY <1>7 DEF RInv

LEMMA RollbackPlays ==
  ASSUME IInv, RInv, NEW w \in Workers, Rollback(w)
  PROVE  RInv'
<1>1. /\ End(w) /\ UNCHANGED <<bookings, sessions>>
      /\ sessions \in [SessionIds -> SessionStatuses]
      /\ locks' = [row \in Rows |-> IF locks[row] = w THEN None ELSE locks[row]]
      /\ txns' = [txns EXCEPT ![w] = Idle] /\ txns \in [Workers -> Txn]
  BY DEF Rollback, End, IInv, TypeInv
<1>2. \A s \in SessionIds : OneSeatEach(bookings', s)
  BY <1>1 DEF RInv
<1>3. ASSUME NEW v \in Workers \ {w}
      PROVE  Plays(v, txns[v])'
  <2>1. PICK other : other = txns[v]
    OBVIOUS
  <2>2. Plays(v, other) /\ txns'[v] = other
    BY <2>1, <1>1 DEF RInv
  <2>3. \A s \in SessionIds : locks[s] = v => locks'[s] = v
    BY <1>1 DEF Rows
  <2>4. Plays(v, other)'
    BY <2>2, <2>3, <1>1, PlaysOn
  <2> QED
    BY <2>2, <2>4
<1> QED
  BY <1>1, <1>2, <1>3, EndPlays

LEMMA CommitPlays ==
  ASSUME IInv, RInv, NEW w \in Workers, Commit(w)
  PROVE  RInv'
<1>1. PICK txn : txn = txns[w]
  OBVIOUS
<1>2. /\ txn \in Txn /\ Plays(w, txn) /\ Wrote(w, txn)
      /\ bookings' = BksOf(txn) /\ sessions' = SesOf(txn)
      /\ sessions \in [SessionIds -> SessionStatuses]
      /\ locks' = [row \in Rows |-> IF locks[row] = w THEN None ELSE locks[row]]
      /\ txns' = [txns EXCEPT ![w] = Idle] /\ txns \in [Workers -> Txn]
      /\ End(w)
  BY <1>1
  DEF IInv, TypeInv, Keeps, RInv, Commit, BookingsSeen, SessionsSeen, BksOf, SesOf, End
<1>3. /\ sessions' \in [SessionIds -> SessionStatuses]
      /\ \A s \in SessionIds : locks[s] # w => sessions'[s] = sessions[s]
      /\ \A b \in DOMAIN bookings :
           b \in DOMAIN bookings' /\ bookings'[b].session = bookings[b].session
      /\ \A b \in DOMAIN bookings' :
           locks[bookings'[b].session] # w =>
             b \in DOMAIN bookings /\ bookings'[b] = bookings[b]
      /\ \A b \in DOMAIN bookings' : b \in DOMAIN bookings \/ b \in DOMAIN txn.bookings
  BY <1>1, CommitChanges
<1>4. \A s \in SessionIds : OneSeatEach(bookings', s)
  BY <1>2 DEF Plays
<1>5. \A b \in DOMAIN bookings : bookings'[b].student = bookings[b].student
  BY <1>2 DEF Plays, Names, BksOf, Overlay
<1>6. ASSUME NEW v \in Workers \ {w}
      PROVE  Plays(v, txns[v])'
  <2>1. PICK other : other = txns[v]
    OBVIOUS
  <2>2. /\ other \in Txn /\ Keeps(v, other) /\ Plays(v, other) /\ txns'[v] = other
    BY <2>1, <1>2 DEF IInv, RInv
  <2>3. DOMAIN other.bookings \cap DOMAIN txn.bookings = {}
    BY <1>1, <2>1 DEF IInv, Apart
  <2>4. \A s \in SessionIds : locks'[s] = v <=> locks[s] = v
    BY <1>2, SeatsAssumption DEF Rows
  <2>5. /\ \A s \in SessionIds : locks[s] = v => sessions'[s] = sessions[s]
        /\ \A b \in DOMAIN bookings' :
             locks[bookings'[b].session] = v =>
               b \in DOMAIN bookings /\ bookings'[b] = bookings[b]
        /\ \A b \in DOMAIN bookings :
             locks[bookings[b].session] = v => bookings'[b] = bookings[b]
        /\ \A b \in DOMAIN other.bookings : b \in DOMAIN bookings' => b \in DOMAIN bookings
    BY <1>3, <2>3
  <2>6. \A b \in DOMAIN bookings :
          /\ b \in DOMAIN bookings' /\ bookings'[b].session = bookings[b].session
          /\ bookings'[b].student = bookings[b].student
    BY <1>3, <1>5
  <2>7. Plays(v, other)'
    BY <2>2, <2>4, <2>5, <2>6, <1>2, <1>3, <1>4, OthersPlay
  <2> QED
    BY <2>2, <2>7
<1> QED
  BY <1>2, <1>3, <1>4, <1>6, EndPlays

LEMMA InitPlays == Init => RInv
<1> SUFFICES ASSUME Init
             PROVE  RInv
  OBVIOUS
<1>1. DOMAIN bookings = {} /\ sessions \in [SessionIds -> SessionStatuses]
  BY DEF Init, EmptyTable, SessionStatuses
<1>2. \A s \in SessionIds : OneSeatEach(bookings, s)
  BY <1>1 DEF OneSeatEach, ActiveBookingsOf
<1>3. PICK idle : idle = Idle
  OBVIOUS
<1>4. idle.todo = << >> /\ DOMAIN idle.bookings = {} /\ DOMAIN idle.sessions = {}
  BY <1>3, IdleTyped
<1>5. ASSUME NEW s \in SessionIds
      PROVE  /\ SeatsOf(BksOf(idle), s) = SeatsOf(bookings, s)
             /\ OneSeatEach(BksOf(idle), s) /\ SesOf(idle)[s] = sessions[s]
  <2>1. SameRows(BksOf(idle), bookings, s)
    BY <1>4, UntouchedRows DEF BksOf
  <2>2. SesOf(idle)[s] = sessions[s]
    BY <1>1, <1>4 DEF SesOf, Overlay
  <2> QED
    BY <2>1, <2>2, <1>2, RowsAgree
<1>6. ASSUME NEW w \in Workers
      PROVE  Plays(w, idle)
  <2>1. Effect(w, idle)
    BY <1>5 DEF Effect, OthersSame
  <2> QED
    BY <2>1, <1>4, <1>5 DEF Plays, Order, Own, Names, NewHere
<1>7. \A w \in Workers : txns[w] = idle
  BY <1>3 DEF Init
<1> QED
  BY <1>2, <1>6, <1>7 DEF RInv

LEMMA StepPlays ==
  ASSUME IInv, RInv, [Next]_vars
  PROVE  RInv'
<1>1. ASSUME NEW w \in Workers, Begin(w) \/ Execute(w) \/ LoseConnection(w) \/ AbortDeadlocked(w)
      PROVE  RInv'
  <2>1. CASE Begin(w)
    BY <2>1, BeginPlays
  <2>2. CASE Lock(w)
    BY <2>2, LockPlays
  <2>3. CASE ReadClock(w)
    BY <2>3, ReadClockPlays
  <2>4. CASE CheckDay(w)
    BY <2>4, CheckDayPlays
  <2>5. CASE InsertBooking(w)
    BY <2>5, InsertBookingPlays
  <2>6. CASE CancelBooking(w)
    BY <2>6, CancelBookingPlays
  <2>7. CASE MarkBooking(w)
    BY <2>7, MarkBookingPlays
  <2>8. CASE CompleteClass(w)
    BY <2>8, CompleteClassPlays
  <2>9. CASE Commit(w)
    BY <2>9, CommitPlays
  <2>10. CASE Rollback(w)
    BY <2>10, RollbackPlays
  <2> QED
    BY <1>1, <2>1, <2>2, <2>3, <2>4, <2>5, <2>6, <2>7, <2>8, <2>9, <2>10
    DEF Execute, Refuse, LoseConnection, AbortDeadlocked
<1>2. ASSUME UNCHANGED <<bookings, sessions, locks, txns>>
      PROVE  RInv'
  <2>1. ASSUME NEW w \in Workers
        PROVE  Plays(w, txns[w])'
    <3>1. PICK txn : txn = txns[w]
      OBVIOUS
    <3>2. Plays(w, txn) /\ txns'[w] = txn
      BY <3>1, <1>2 DEF RInv
    <3>3. Plays(w, txn)'
      BY <3>2, <1>2, PlaysOn
    <3> QED
      BY <3>2, <3>3
  <2>2. \A s \in SessionIds : OneSeatEach(bookings, s)'
    BY <1>2 DEF RInv
  <2> QED
    BY <2>1, <2>2 DEF RInv
<1> QED
  BY <1>1, <1>2 DEF Next, Start, vars

-----------------------------------------------------------------------------
(* The roster takes the step that the transaction has had the effect of. *)

LEMMA SameCardinality == \A S : Roster!Cardinality(S) = Cardinality(S)
BY DEF Roster!Cardinality, Cardinality

RosterView ==
  [s \in SessionIds |->
     [seats |-> SeatsOf(bookings, s), capacity |-> Capacity[s], phase |-> sessions[s]]]

LEMMA InitRoster == Init => Roster!RosterInit
<1> SUFFICES ASSUME Init
             PROVE  Roster!RosterInit
  OBVIOUS
<1>1. /\ \A s \in SessionIds : ActiveBookingsOf(bookings, s) = {}
      /\ \A s \in SessionIds : sessions[s] = "SCHEDULED"
  BY DEF Init, EmptyTable, ActiveBookingsOf
<1> QED
  BY <1>1, SeatsAssumption DEF Roster!RosterInit, Roster!RosterTypeOK, Roster!Phases

LEMMA CommitIsRosterStep ==
  ASSUME IInv, RInv, NEW w \in Workers, Commit(w)
  PROVE  [Roster!RosterNext]_RosterView
<1> DEFINE next == Roster!RosterNext
<1>1. PICK txn : txn = txns[w]
  OBVIOUS
<1>2. PICK st : st = txn.student
  OBVIOUS
<1>3. /\ txn \in Txn /\ Effect(w, txn) /\ txn.todo = << >>
      /\ bookings \in BookingTable /\ bookings' = BksOf(txn) /\ sessions' = SesOf(txn)
  BY <1>1
  DEF IInv, TypeInv, RInv, Plays, Commit, BookingsSeen, SessionsSeen, BksOf, SesOf
<1>4. bookings' \in BookingTable
  <2>1. TypeInv'
    BY Inductive DEF IInv, Next, Execute
  <2> QED
    BY <2>1 DEF TypeInv
<1>5. \A s \in SessionIds : SeatsOf(bookings, s) \subseteq StudentIds /\ SeatsOf(bookings', s) \subseteq StudentIds
  BY <1>3, <1>4 DEF SeatsOf, ActiveBookingsOf, BookingTable, Booking
<1>6. /\ DOMAIN RosterView = SessionIds
      /\ \A s \in SessionIds :
           /\ RosterView[s].seats = SeatsOf(bookings, s)
           /\ RosterView[s].capacity = Capacity[s] /\ RosterView[s].phase = sessions[s]
           /\ RosterView[s] = [seats |-> SeatsOf(bookings, s), capacity |-> Capacity[s],
                               phase |-> sessions[s]]
           /\ RosterView'[s] = [seats |-> SeatsOf(bookings', s), capacity |-> Capacity[s],
                                phase |-> sessions'[s]]
  BY DEF RosterView
<1>7. ASSUME OthersSame(txn, {})
      PROVE  RosterView' = RosterView
  BY <1>3, <1>7 DEF OthersSame, RosterView
<1>8. ASSUME NEW c \in SessionIds, LetGo(txn, c), OthersSame(txn, {c})
      PROVE  next
  <2>1. st \in StudentIds /\ sessions'[c] \in {"SCHEDULED", "CANCELLED"}
    BY <1>2, <1>3, <1>5, <1>8 DEF LetGo
  <2>2. PICK phase : phase = sessions'[c]
    OBVIOUS
  <2>3. Roster!HasStudent(RosterView, st, c)
    BY <1>2, <1>6, <1>8 DEF LetGo, Roster!HasStudent
  <2>4. RosterView' = Roster!Unseat(RosterView, st, c, phase)
    BY <2>2, <1>2, <1>3, <1>8 DEF LetGo, OthersSame, RosterView, Roster!Unseat
  <2>5. Roster!Leave(st, c, phase)
    BY <2>3, <2>4 DEF Roster!Leave, RosterView, SeatsOf
  <2> QED
    BY <2>1, <2>2, <2>5 DEF Roster!RosterNext
<1>9. ASSUME NEW d \in SessionIds, TookIn(txn, d), OthersSame(txn, {d})
      PROVE  next
  <2>1. st \in StudentIds
    BY <1>2, <1>3, <1>5, <1>9 DEF TookIn
  <2>2. Roster!HasSeatFor(RosterView, st, d)
    BY <1>2, <1>6, <1>9, SameCardinality DEF TookIn, Roster!HasSeatFor
  <2>3. RosterView' = Roster!Seat(RosterView, st, d)
    BY <1>2, <1>3, <1>9 DEF TookIn, OthersSame, RosterView, Roster!Seat
  <2>4. Roster!Join(st, d)
    BY <2>2, <2>3 DEF Roster!Join, RosterView, SeatsOf
  <2> QED
    BY <2>1, <2>4 DEF Roster!RosterNext
<1>10. ASSUME NEW c \in SessionIds, NEW d \in SessionIds, c # d,
              LetGo(txn, c), TookIn(txn, d), OthersSame(txn, {c, d})
       PROVE  next
  <2>1. st \in StudentIds /\ sessions'[c] \in {"SCHEDULED", "CANCELLED"}
    BY <1>2, <1>3, <1>5, <1>10 DEF LetGo
  <2>2. Roster!HasStudent(RosterView, st, c)
    BY <1>2, <1>6, <1>10 DEF LetGo, Roster!HasStudent
  <2>3. PICK left : left = Roster!Unseat(RosterView, st, c, sessions'[c])
    OBVIOUS
  <2>4. /\ DOMAIN left = SessionIds /\ left[d] = RosterView[d]
        /\ left[c] = [seats |-> SeatsOf(bookings, c) \ {st}, capacity |-> Capacity[c],
                      phase |-> sessions'[c]]
        /\ \A s \in SessionIds \ {c} : left[s] = RosterView[s]
        /\ left = [s \in SessionIds |-> left[s]]
    BY <1>10, <2>3 DEF Roster!Unseat, RosterView
  <2>5. Roster!HasSeatFor(left, st, d)
    BY <1>2, <1>6, <1>10, <2>4, SameCardinality DEF TookIn, Roster!HasSeatFor
  <2>6. RosterView' = Roster!Seat(left, st, d)
    <3>1. /\ SeatsOf(bookings', c) = SeatsOf(bookings, c) \ {st}
          /\ SeatsOf(bookings', d) = SeatsOf(bookings, d) \cup {st}
          /\ sessions'[d] = sessions[d]
          /\ \A s \in SessionIds \ {c, d} :
               SeatsOf(bookings', s) = SeatsOf(bookings, s) /\ sessions'[s] = sessions[s]
      BY <1>2, <1>3, <1>10 DEF LetGo, TookIn, OthersSame
    <3>2. ASSUME NEW s \in SessionIds
          PROVE  RosterView'[s] = Roster!Seat(left, st, d)[s]
      <4>1. CASE s = c
        BY <4>1, <3>1, <2>4, <1>6, <1>10 DEF Roster!Seat
      <4>2. CASE s = d
        <5>1. left[d] = [seats |-> SeatsOf(bookings, d), capacity |-> Capacity[d],
                         phase |-> sessions[d]]
          BY <2>4, <1>6
        <5>2. Roster!Seat(left, st, d)[d] = [left[d] EXCEPT !.seats = @ \cup {st}]
          BY <2>4 DEF Roster!Seat
        <5>3. [left[d] EXCEPT !.seats = @ \cup {st}]
                = [[seats |-> SeatsOf(bookings, d), capacity |-> Capacity[d],
                    phase |-> sessions[d]] EXCEPT !.seats = @ \cup {st}]
          BY <5>1, Zenon
        <5>4. Roster!Seat(left, st, d)[d]
                = [seats |-> SeatsOf(bookings, d) \cup {st}, capacity |-> Capacity[d],
                   phase |-> sessions[d]]
          BY <5>2, <5>3
        <5> QED
          BY <5>4, <4>2, <3>1, <1>6
      <4>3. CASE s \notin {c, d}
        <5>1. Roster!Seat(left, st, d)[s] = RosterView[s]
          BY <4>3, <2>4 DEF Roster!Seat
        <5> QED
          BY <5>1, <4>3, <3>1, <1>6
      <4> QED
        BY <4>1, <4>2, <4>3
    <3>3. /\ DOMAIN RosterView' = SessionIds
          /\ RosterView' = [s \in SessionIds |-> RosterView'[s]]
          /\ Roster!Seat(left, st, d) = [s \in SessionIds |-> Roster!Seat(left, st, d)[s]]
      BY <2>4 DEF RosterView, Roster!Seat
    <3> QED
      BY <3>2, <3>3
  <2>7. Roster!Move(st, c, sessions'[c], d)
    BY <2>2, <2>3, <2>5, <2>6 DEF Roster!Move, RosterView, SeatsOf
  <2> QED
    BY <2>1, <2>7 DEF Roster!RosterNext
<1>11. ASSUME NEW c \in SessionIds, TookPlace(txn, c), OthersSame(txn, {c})
       PROVE  next
  <2>1. RosterView[c].phase = "SCHEDULED" /\ RosterView[c].seats # {}
    BY <1>6, <1>11 DEF TookPlace
  <2>2. RosterView' = [RosterView EXCEPT ![c].phase = "COMPLETED"]
    BY <1>3, <1>11 DEF TookPlace, OthersSame, RosterView
  <2>3. Roster!Complete(c)
    BY <2>1, <2>2 DEF Roster!Complete, RosterView, SeatsOf
  <2> QED
    BY <2>3 DEF Roster!RosterNext
<1>12. next \/ RosterView' = RosterView
  <2>1. ASSUME Left(w, txn)
        PROVE  next
    BY <2>1, <1>8 DEF Left, Mine
  <2>2. ASSUME Joined(w, txn)
        PROVE  next
    BY <2>2, <1>9 DEF Joined, Mine
  <2>3. ASSUME Moved(w, txn)
        PROVE  next
    BY <2>3, <1>10 DEF Moved, Mine
  <2>4. ASSUME Completed(w, txn)
        PROVE  next
    BY <2>4, <1>11 DEF Completed, Mine
  <2> QED
    BY <2>1, <2>2, <2>3, <2>4, <1>3, <1>7 DEF Effect
<1> QED
  BY <1>12

LEMMA PlaysThroughout == Spec => []RInv
BY Invariance, InitPlays, StepPlays, PTL DEF Spec

(* A student has one active booking of a class at most, whatever requests the
   student and the admins make at once: whether the student is in the class is
   read under its lock, which is kept until the seat has been committed. *)
THEOREM OneSeatPerStudent == Spec => [](\A s \in SessionIds : OneSeatEach(bookings, s))
<1>1. RInv => \A s \in SessionIds : OneSeatEach(bookings, s)
  BY DEF RInv
<1> QED
  BY <1>1, PlaysThroughout, PTL

(* However the statements of the requests interleave, the commit of a request is
   one step of the roster: a student joins a class that has a seat, leaves one or
   moves, or a class is completed; and nothing else changes the roster. *)
THEOREM RosterPromiseKept == Spec => ImplementsRoster
<1>1. ASSUME IInv, RInv, [Next]_vars
      PROVE  [Roster!RosterNext]_RosterView
  <2>1. ASSUME UNCHANGED <<bookings, sessions>>
        PROVE  RosterView' = RosterView
    BY <2>1 DEF RosterView
  <2>2. \/ \E w \in Workers : Commit(w)
        \/ UNCHANGED <<bookings, sessions>>
    BY <1>1
    DEF Next, Execute, Begin, Lock, ReadClock, CheckDay, InsertBooking, CancelBooking,
        MarkBooking, CompleteClass, Refuse, Rollback, LoseConnection, AbortDeadlocked, Start, vars
  <2> QED
    BY <1>1, <2>1, <2>2, CommitIsRosterStep
<1> QED
  BY <1>1, InitRoster, Invariance, PlaysThroughout, PTL
  DEF Spec, ImplementsRoster, Roster!RosterSpec, RosterView, SeatsOf

-----------------------------------------------------------------------------
(* Waiting. *)

Serving == {w \in Workers : Busy(w)}

(* A lock is held by a request that is being served. *)
HeldByServing == \A r \in Rows : locks[r] # None => locks[r] \in Serving

(* The requests that go on locking when they hold a class. *)
LocksOn == {"RESCHEDULE", "ADMIN_RESCHEDULE", "MARK_CLASS"}

DeadlocksHaveACause ==
  \A set \in (SUBSET Workers) \ {{}} :
    Deadlocked(set) => \E w \in set : txns[w].kind \in LocksOn

(* The others lock a class last, and before it at most one booking. *)
BookingBeforeClass(todo) ==
  /\ \A i \in 3 .. Len(todo) : todo[i].op # "LOCK"
  /\ Len(todo) > 1 /\ todo[2].op = "LOCK" =>
       /\ todo[1].op = "LOCK" /\ todo[1].row \in BookingIds
       /\ todo[2].row \in SessionIds

HoldsLess(w, todo) ==
  todo # << >> /\ todo[1].op = "LOCK" =>
    /\ \A s \in SessionIds : locks[s] # w
    /\ todo[1].row \in BookingIds => \A b \in BookingIds : locks[b] # w

InLockOrder ==
  \A w \in Workers :
    /\ txns[w].kind = "IDLE" => txns[w].todo = << >>
    /\ txns[w].kind \notin LocksOn =>
         BookingBeforeClass(txns[w].todo) /\ HoldsLess(w, txns[w].todo)

(* What a step of worker w does to the other requests and to the locks. *)
LEMMA OthersStand ==
  ASSUME IInv, HeldByServing, InLockOrder, NEW w \in Workers, NEW next,
         txns' = [txns EXCEPT ![w] = next],
         \A v \in Workers \ {w} : \A r \in Rows : locks'[r] = v => locks[r] = v,
         \A r \in Rows : locks'[r] # None => locks'[r] = w \/ locks'[r] = locks[r],
         next.kind = "IDLE" => next.todo = << >> /\ \A r \in Rows : locks'[r] # w,
         next.kind \notin LocksOn =>
           BookingBeforeClass(next.todo) /\ HoldsLess(w, next.todo)'
  PROVE  HeldByServing' /\ InLockOrder'
<1>1. /\ txns \in [Workers -> Txn] /\ locks \in [Rows -> Workers \cup {None}]
      /\ txns'[w] = next /\ \A v \in Workers \ {w} : txns'[v] = txns[v]
  BY DEF IInv, TypeInv
<1>2. HeldByServing'
  <2> SUFFICES ASSUME NEW r \in Rows, locks'[r] # None
               PROVE  locks'[r] \in Workers /\ txns'[locks'[r]].kind # "IDLE"
    BY DEF HeldByServing, Serving, Busy
  <2>1. CASE locks'[r] = w
    BY <1>1, <2>1
  <2>2. CASE locks'[r] # w
    <3>1. locks'[r] = locks[r] /\ locks[r] \in Workers /\ txns[locks[r]].kind # "IDLE"
      BY <2>2 DEF HeldByServing, Serving, Busy
    <3> QED
      BY <1>1, <2>2, <3>1
  <2> QED
    BY <2>1, <2>2
<1>3. InLockOrder'
  <2> SUFFICES ASSUME NEW v \in Workers
               PROVE  /\ txns'[v].kind = "IDLE" => txns'[v].todo = << >>
                      /\ txns'[v].kind \notin LocksOn =>
                           BookingBeforeClass(txns'[v].todo) /\ HoldsLess(v, txns[v].todo)'
    BY DEF InLockOrder, BookingBeforeClass, LocksOn
  <2>1. CASE v = w
    <3>1. HoldsLess(w, next.todo)' => HoldsLess(w, txns[w].todo)'
      BY <1>1 DEF HoldsLess
    <3> QED
      BY <1>1, <2>1, <3>1
  <2>2. CASE v # w
    <3>1. /\ txns'[v] = txns[v] /\ txns[v].kind = "IDLE" => txns[v].todo = << >>
          /\ txns[v].kind \notin LocksOn =>
               BookingBeforeClass(txns[v].todo) /\ HoldsLess(v, txns[v].todo)
      BY <1>1, <2>2 DEF InLockOrder
    <3>2. HoldsLess(v, txns[v].todo) => HoldsLess(v, txns[v].todo)'
      BY <1>1, <2>2, <3>1 DEF HoldsLess, Rows
    <3> QED
      BY <3>1, <3>2
  <2> QED
    BY <2>1, <2>2
<1> QED
  BY <1>2, <1>3

LEMMA Todos ==
  ASSUME IInv, NEW w \in Workers
  PROVE  txns[w] \in Txn /\ txns[w].todo \in Seq([op: Ops, row: Rows])
BY DEF IInv, TypeInv, Txn

LEMMA RestInLockOrder ==
  ASSUME IInv, NEW w \in Workers, NEW txn, txn = txns[w], txn.todo # << >>,
         BookingBeforeClass(txn.todo), NEW rest, rest = Tail(txn.todo)
  PROVE  /\ BookingBeforeClass(rest)
         /\ rest # << >> /\ rest[1].op = "LOCK" =>
              /\ txn.todo[1].op = "LOCK" /\ txn.todo[1].row \in BookingIds
              /\ rest[1].row \in SessionIds
<1>1. /\ Len(rest) = Len(txn.todo) - 1 /\ Len(txn.todo) \in Nat \ {0}
      /\ \A i \in 1 .. Len(rest) : rest[i] = txn.todo[i + 1]
  BY Todos
<1>2. \A i \in 2 .. Len(rest) : rest[i].op # "LOCK"
  <2>1. TAKE i \in 2 .. Len(rest)
  <2>2. i \in 1 .. Len(rest) /\ i + 1 \in 3 .. Len(txn.todo)
    BY <1>1
  <2> QED
    BY <2>2, <1>1 DEF BookingBeforeClass
<1>3. BookingBeforeClass(rest)
  BY <1>1, <1>2 DEF BookingBeforeClass
<1>4. rest # << >> => 1 \in 1 .. Len(rest) /\ Len(txn.todo) > 1 /\ rest[1] = txn.todo[2]
  BY <1>1
<1> QED
  BY <1>3, <1>4 DEF BookingBeforeClass

(* A statement that locks nothing. *)
LEMMA StatementInLockOrder ==
  ASSUME IInv, HeldByServing, InLockOrder, NEW w \in Workers, NEW next,
         txns' = [txns EXCEPT ![w] = next], UNCHANGED locks,
         txns[w].todo # << >>, Head(txns[w].todo).op # "LOCK",
         next.kind = txns[w].kind, next.todo = Tail(txns[w].todo)
  PROVE  HeldByServing' /\ InLockOrder'
<1>1. PICK txn : txn = txns[w]
  OBVIOUS
<1>2. txn.todo[1].op # "LOCK"
  <2>1. Head(txn.todo) = txn.todo[1]
    BY <1>1, Todos
  <2> QED
    BY <1>1, <2>1
<1>3. next.kind # "IDLE"
  BY DEF InLockOrder
<1>4. ASSUME next.kind \notin LocksOn
      PROVE  BookingBeforeClass(next.todo) /\ HoldsLess(w, next.todo)'
  <2>1. BookingBeforeClass(txn.todo)
    BY <1>1, <1>4 DEF InLockOrder
  <2>2. BookingBeforeClass(next.todo) /\ (next.todo # << >> => next.todo[1].op # "LOCK")
    BY <1>1, <1>2, <2>1, RestInLockOrder
  <2> QED
    BY <2>2 DEF HoldsLess
<1> QED
  BY <1>3, <1>4, OthersStand

LEMMA LockInLockOrder ==
  ASSUME IInv, HeldByServing, InLockOrder, NEW w \in Workers, Lock(w)
  PROVE  HeldByServing' /\ InLockOrder'
<1>1. PICK txn : txn = txns[w]
  OBVIOUS
<1>2. PICK next : next = [txn EXCEPT !.todo = Tail(@)]
  OBVIOUS
<1>3. /\ txn.todo \in Seq([op: Ops, row: Rows]) /\ txn.todo # << >> /\ txn.todo[1].op = "LOCK"
      /\ txn \in Txn
  <2>1. txn \in Txn /\ txn.todo \in Seq([op: Ops, row: Rows])
    BY <1>1, Todos
  <2>2. txn.todo # << >> /\ Head(txn.todo).op = "LOCK"
    BY <1>1 DEF Lock, Running
  <2>3. Head(txn.todo) = txn.todo[1]
    BY <2>1, <2>2
  <2> QED
    BY <2>1, <2>2, <2>3
<1>4. next.kind = txn.kind /\ next.todo = Tail(txn.todo)
  BY <1>2, <1>3 DEF Txn
<1>5. txns' = [txns EXCEPT ![w] = next]
  BY <1>1, <1>2 DEF Lock, Done
<1>6. PICK row : row = txn.todo[1].row
  OBVIOUS
<1>7. /\ locks \in [Rows -> Workers \cup {None}]
      /\ \A r \in Rows : locks'[r] = IF r = row THEN w ELSE locks[r]
      /\ locks[row] \in {None, w} /\ row \in Rows
  <2>1. Row(w) = row
    BY <1>1, <1>3, <1>6 DEF Row
  <2>2. row \in Rows
    <3>1. 1 \in 1 .. Len(txn.todo)
      BY <1>3
    <3>2. txn.todo[1] \in [op: Ops, row: Rows]
      BY <1>3, <3>1, ElementOfSeq
    <3> QED
      BY <1>6, <3>2
  <2> QED
    BY <2>1, <2>2 DEF Lock, IInv, TypeInv
<1>8. /\ \A v \in Workers \ {w} : \A r \in Rows : locks'[r] = v => locks[r] = v
      /\ \A r \in Rows : locks'[r] # None => locks'[r] = w \/ locks'[r] = locks[r]
  BY <1>7
<1>9. next.kind # "IDLE"
  <2>1. txn.kind # "IDLE"
    BY <1>1, <1>3 DEF InLockOrder
  <2> QED
    BY <1>4, <2>1
<1>10. ASSUME next.kind \notin LocksOn
       PROVE  BookingBeforeClass(next.todo) /\ HoldsLess(w, next.todo)'
  <2>1. BookingBeforeClass(txn.todo) /\ HoldsLess(w, txn.todo)
    BY <1>1, <1>4, <1>10 DEF InLockOrder
  <2>2. /\ BookingBeforeClass(next.todo)
        /\ next.todo # << >> /\ next.todo[1].op = "LOCK" =>
             row \in BookingIds /\ next.todo[1].row \in SessionIds
    BY <1>1, <1>3, <1>4, <1>6, <2>1, RestInLockOrder
  <2>3. ASSUME next.todo # << >>, next.todo[1].op = "LOCK"
        PROVE  /\ \A s \in SessionIds : locks'[s] # w
               /\ next.todo[1].row \notin BookingIds
    <3>1. row \in BookingIds /\ next.todo[1].row \in SessionIds
      BY <2>2, <2>3
    <3>2. \A s \in SessionIds : locks[s] # w /\ s # row
      BY <1>3, <2>1, <3>1, SeatsAssumption DEF HoldsLess
    <3> QED
      BY <1>7, <3>1, <3>2, SeatsAssumption DEF Rows
  <2> QED
    BY <2>2, <2>3 DEF HoldsLess
<1> QED
  BY <1>5, <1>8, <1>9, <1>10, OthersStand

LEMMA EndInLockOrder ==
  ASSUME IInv, HeldByServing, InLockOrder, NEW w \in Workers, End(w)
  PROVE  HeldByServing' /\ InLockOrder'
<1>1. \A r \in Rows : locks'[r] = IF locks[r] = w THEN None ELSE locks[r]
  BY DEF End
<1>2. Idle.kind = "IDLE" /\ Idle.todo = << >>
  BY DEF Idle
<1>3. BookingBeforeClass(Idle.todo) /\ HoldsLess(w, Idle.todo)'
  BY <1>2 DEF BookingBeforeClass, HoldsLess
<1>4. txns' = [txns EXCEPT ![w] = Idle]
  BY DEF End
<1>5. /\ \A v \in Workers \ {w} : \A r \in Rows : locks'[r] = v => locks[r] = v
      /\ \A r \in Rows : locks'[r] # None => locks'[r] = w \/ locks'[r] = locks[r]
      /\ \A r \in Rows : locks'[r] # w
  BY <1>1, SeatsAssumption
<1> QED
  BY <1>2, <1>3, <1>4, <1>5, OthersStand

(* The requests as they begin. *)
LEMMA RequestInLockOrder ==
  ASSUME IInv, NEW request \in Requests, request.kind \notin LocksOn
  PROVE  request.kind # "IDLE" /\ BookingBeforeClass(request.todo)
<1>0. DOMAIN bookings \subseteq BookingIds
      /\ \A b \in DOMAIN bookings : bookings[b].session \in SessionIds
  BY BookingTables DEF IInv, TypeInv, Booking
<1>1. ASSUME NEW kind \in {"BOOK", "ADMIN_ADD"}, NEW st \in StudentIds, NEW s \in SessionIds,
             request = Take(kind, st, s)
      PROVE  request.kind # "IDLE" /\ BookingBeforeClass(request.todo)
  <2>1. request.kind = kind /\ request.todo = TakeSeat(s)
    BY <1>1 DEF Take, Request
  <2>2. /\ Len(request.todo) = 3 /\ request.todo[2].op = "CHECK_DAY"
        /\ request.todo[3].op = "TAKE_SEAT"
    BY <2>1 DEF TakeSeat, Statement
  <2> QED
    BY <2>1, <2>2 DEF BookingBeforeClass
<1>2. ASSUME NEW kind \in {"CANCEL", "ADMIN_CANCEL"}, NEW b \in DOMAIN bookings,
             request = GiveUp(kind, b)
      PROVE  request.kind # "IDLE" /\ BookingBeforeClass(request.todo)
  <2>1. request.kind = kind /\ request.todo = GiveUpSeat(b)
    BY <1>2 DEF GiveUp, Request
  <2>2. /\ Len(request.todo) = 4 /\ request.todo[1].op = "LOCK" /\ request.todo[1].row = b
        /\ request.todo[2].row = bookings[b].session
        /\ request.todo[3].op = "CLOCK" /\ request.todo[4].op = "CANCEL"
    BY <2>1 DEF GiveUpSeat, Statement
  <2> QED
    BY <1>0, <2>1, <2>2 DEF BookingBeforeClass
<1>3. ASSUME NEW b \in DOMAIN bookings, request = MarkOne(b)
      PROVE  request.kind # "IDLE" /\ BookingBeforeClass(request.todo)
  <2>1. /\ request.kind = "MARK"
        /\ Len(request.todo) = 5 /\ request.todo[1].op = "LOCK" /\ request.todo[1].row = b
        /\ request.todo[2].row = bookings[b].session
        /\ request.todo[3].op = "CLOCK" /\ request.todo[4].op = "MARK"
        /\ request.todo[5].op = "COMPLETE"
    BY <1>3 DEF MarkOne, Request, Statement
  <2> QED
    BY <1>0, <2>1 DEF BookingBeforeClass
<1>4. \/ \E kind \in {"BOOK", "ADMIN_ADD"}, st \in StudentIds, s \in SessionIds :
           request = Take(kind, st, s)
      \/ \E kind \in {"CANCEL", "ADMIN_CANCEL"}, b \in DOMAIN bookings : request = GiveUp(kind, b)
      \/ \E kind \in {"RESCHEDULE", "ADMIN_RESCHEDULE"}, b \in DOMAIN bookings, s \in SessionIds :
           request = Reschedule(kind, b, s)
      \/ \E b \in DOMAIN bookings : request = MarkOne(b)
      \/ \E n \in 1 .. MaxMarks : \E marked \in kSubset(n, DOMAIN bookings) :
           \E bs \in SetToSeqs(marked) : request = MarkMany(bs)
  BY DEF Requests
<1>5. /\ \A kind, b, s : Reschedule(kind, b, s).kind = kind
      /\ \A bs : MarkMany(bs).kind = "MARK_CLASS"
  BY DEF Reschedule, MarkMany, Request
<1> QED
  BY <1>1, <1>2, <1>3, <1>4, <1>5 DEF LocksOn

LEMMA BeginInLockOrder ==
  ASSUME IInv, HeldByServing, InLockOrder, NEW w \in Workers, Begin(w)
  PROVE  HeldByServing' /\ InLockOrder'
<1>1. PICK request \in Requests : txns' = [txns EXCEPT ![w] = request]
  BY DEF Begin
<1>2. UNCHANGED locks /\ txns[w].kind = "IDLE"
  BY DEF Begin, Busy
<1>3. \A r \in Rows : locks[r] # w
  BY <1>2, SeatsAssumption DEF HeldByServing, Serving, Busy
<1>4. request.kind # "IDLE"
  BY RequestInLockOrder DEF LocksOn
<1>5. ASSUME request.kind \notin LocksOn
      PROVE  BookingBeforeClass(request.todo) /\ HoldsLess(w, request.todo)'
  BY <1>2, <1>3, <1>5, RequestInLockOrder DEF HoldsLess, Rows
<1> QED
  BY <1>1, <1>2, <1>4, <1>5, OthersStand

LEMMA InLockOrderStep ==
  ASSUME IInv, HeldByServing, InLockOrder, [Next]_vars
  PROVE  HeldByServing' /\ InLockOrder'
<1>0. \A w \in Workers : DOMAIN txns[w] = Fields
  BY DEF IInv, TypeInv, Txn, Fields
<1>1. ASSUME NEW w \in Workers, NEW done, DOMAIN done = Fields, Done(w, done),
             done.kind = txns[w].kind, done.todo = txns[w].todo, UNCHANGED locks,
             txns[w].todo # << >>, Head(txns[w].todo).op # "LOCK"
      PROVE  HeldByServing' /\ InLockOrder'
  <2>1. PICK next : next = [done EXCEPT !.todo = Tail(@)]
    OBVIOUS
  <2>2. next.kind = done.kind /\ next.todo = Tail(done.todo)
    BY <1>1, <2>1 DEF Fields
  <2>3. txns' = [txns EXCEPT ![w] = next]
    BY <1>1, <2>1 DEF Done
  <2> QED
    BY <1>1, <2>2, <2>3, StatementInLockOrder
<1>2. ASSUME NEW txn, DOMAIN txn = Fields
      PROVE  /\ \A b, row : LET done == WriteBooking(txn, b, row) IN
                  DOMAIN done = Fields /\ done.kind = txn.kind /\ done.todo = txn.todo
             /\ \A s, status : LET done == WriteSession(txn, s, status) IN
                  DOMAIN done = Fields /\ done.kind = txn.kind /\ done.todo = txn.todo
  BY <1>2 DEF WriteBooking, WriteSession, Fields
<1>3. ASSUME NEW w \in Workers, Execute(w) PROVE HeldByServing' /\ InLockOrder'
  <2>1. CASE Lock(w)
    BY <2>1, LockInLockOrder
  <2>2. CASE ReadClock(w)
    <3>1. PICK done : done = [txns[w] EXCEPT !.begun = started]
      OBVIOUS
    <3>2. DOMAIN done = Fields /\ done.kind = txns[w].kind /\ done.todo = txns[w].todo
      BY <1>0, <3>1 DEF Fields
    <3>3. Done(w, done) /\ UNCHANGED locks
      BY <2>2, <3>1 DEF ReadClock
    <3> QED
      BY <1>1, <2>2, <3>2, <3>3 DEF ReadClock, Running
  <2>3. CASE CheckDay(w)
    BY <1>0, <1>1, <2>3 DEF CheckDay, Running
  <2>4. CASE InsertBooking(w)
    <3>1. PICK b, row : Done(w, WriteBooking(txns[w], b, row))
      BY <2>4 DEF InsertBooking
    <3> QED
      BY <1>0, <1>1, <1>2, <2>4, <3>1 DEF InsertBooking, Running
  <2>5. CASE CancelBooking(w)
    <3>1. PICK txn, b, row :
            /\ txn = WriteBooking(txns[w], b, row)
            /\ Done(w, txn) \/ \E s, status : Done(w, WriteSession(txn, s, status))
      BY <2>5 DEF CancelBooking
    <3>2. DOMAIN txn = Fields /\ txn.kind = txns[w].kind /\ txn.todo = txns[w].todo
      BY <1>0, <1>2, <3>1
    <3>3. UNCHANGED locks /\ txns[w].todo # << >> /\ Head(txns[w].todo).op # "LOCK"
      BY <2>5 DEF CancelBooking, Running
    <3>4. CASE Done(w, txn)
      BY <1>1, <3>2, <3>3, <3>4
    <3>5. ASSUME NEW s, NEW status, Done(w, WriteSession(txn, s, status))
          PROVE  HeldByServing' /\ InLockOrder'
      BY <1>1, <1>2, <3>2, <3>3, <3>5
    <3> QED
      BY <3>1, <3>4, <3>5
  <2>6. CASE MarkBooking(w)
    <3>1. PICK b, row : Done(w, WriteBooking(txns[w], b, row))
      BY <2>6 DEF MarkBooking
    <3> QED
      BY <1>0, <1>1, <1>2, <2>6, <3>1 DEF MarkBooking, Running
  <2>7. CASE CompleteClass(w)
    <3>1. \/ Done(w, txns[w])
          \/ \E s, status : Done(w, WriteSession(txns[w], s, status))
      BY <2>7 DEF CompleteClass
    <3>2. UNCHANGED locks /\ txns[w].todo # << >> /\ Head(txns[w].todo).op # "LOCK"
      BY <2>7 DEF CompleteClass, Running
    <3>3. CASE Done(w, txns[w])
      BY <1>0, <1>1, <3>2, <3>3
    <3>4. ASSUME NEW s, NEW status, Done(w, WriteSession(txns[w], s, status))
          PROVE  HeldByServing' /\ InLockOrder'
      BY <1>0, <1>1, <1>2, <3>2, <3>4
    <3> QED
      BY <3>1, <3>3, <3>4
  <2>8. CASE Commit(w) \/ Refuse(w)
    BY <2>8, EndInLockOrder DEF Commit, Refuse, Rollback
  <2> QED
    BY <1>3, <2>1, <2>2, <2>3, <2>4, <2>5, <2>6, <2>7, <2>8 DEF Execute
<1>4. ASSUME NEW w \in Workers, Begin(w) \/ LoseConnection(w) \/ AbortDeadlocked(w)
      PROVE  HeldByServing' /\ InLockOrder'
  BY <1>4, BeginInLockOrder, EndInLockOrder DEF LoseConnection, AbortDeadlocked, Rollback
<1>5. CASE UNCHANGED <<locks, txns>>
  BY <1>5 DEF HeldByServing, Serving, Busy, InLockOrder, HoldsLess
<1> QED
  BY <1>3, <1>4, <1>5 DEF Next, Start, vars

LEMMA LockOrderKept == Spec => [](HeldByServing /\ InLockOrder)
<1>1. Init => HeldByServing /\ InLockOrder
  <2> SUFFICES ASSUME Init PROVE HeldByServing /\ InLockOrder
    OBVIOUS
  <2>1. Idle.kind = "IDLE" /\ Idle.todo = << >> /\ Len(Idle.todo) = 0
    BY DEF Idle
  <2>2. \A w \in Workers : txns[w] = Idle
    BY DEF Init
  <2>3. HeldByServing
    BY DEF Init, HeldByServing
  <2> QED
    BY <2>1, <2>2, <2>3 DEF InLockOrder, BookingBeforeClass, HoldsLess
<1>2. IInv /\ (HeldByServing /\ InLockOrder) /\ [Next]_vars => (HeldByServing /\ InLockOrder)'
  BY InLockOrderStep
<1> QED
  BY <1>1, <1>2, Invariance, PTL DEF Spec

LEMMA RowLocked ==
  ASSUME IInv, NEW w \in Workers, Running(w, "LOCK")
  PROVE  /\ txns[w].todo # << >> /\ Row(w) = txns[w].todo[1].row /\ txns[w].todo[1].op = "LOCK"
         /\ Row(w) \in Rows
<1>1. PICK todo : todo = txns[w].todo
  OBVIOUS
<1>2. todo \in Seq([op: Ops, row: Rows]) /\ todo # << >> /\ Head(todo).op = "LOCK"
  BY <1>1 DEF IInv, TypeInv, Txn, Running
<1>3. 1 \in 1 .. Len(todo) /\ Head(todo) = todo[1]
  BY <1>2
<1>4. todo[1] \in [op: Ops, row: Rows]
  BY <1>2, <1>3, ElementOfSeq
<1> QED
  BY <1>1, <1>2, <1>3, <1>4 DEF Row

(* Bookings, cancellations and the marking of single seats never deadlock among
   themselves, however many of them meet: each locks at most one booking and
   then one class, and asks for nothing when it holds the class (create_booking,
   cancel_booking, mark_attendance).  Every deadlock has a rescheduling in it,
   which locks a second class, or the marking of a whole class, which locks the
   class before its bookings. *)
THEOREM DeadlockCauses == Spec => []DeadlocksHaveACause
<1>1. IInv /\ InLockOrder => DeadlocksHaveACause
  <2> SUFFICES ASSUME IInv, InLockOrder, NEW set \in (SUBSET Workers) \ {{}}, Deadlocked(set),
                      \A w \in set : txns[w].kind \notin LocksOn
               PROVE  FALSE
    BY DEF DeadlocksHaveACause
  <2>1. ASSUME NEW w \in set
        PROVE  /\ Row(w) \in Rows /\ locks[Row(w)] \in set
               /\ \A s \in SessionIds : locks[s] # w
               /\ Row(w) \in BookingIds => \A b \in BookingIds : locks[b] # w
    <3>1. w \in Workers /\ Running(w, "LOCK") /\ locks[Row(w)] \in set \ {w}
      BY <2>1 DEF Deadlocked
    <3>2. /\ txns[w].todo # << >> /\ Row(w) = txns[w].todo[1].row
          /\ txns[w].todo[1].op = "LOCK" /\ Row(w) \in Rows
      BY <3>1, RowLocked
    <3>3. HoldsLess(w, txns[w].todo)
      BY <2>1, <3>1 DEF InLockOrder
    <3> QED
      BY <3>1, <3>2, <3>3 DEF HoldsLess
  <2>2. PICK w \in set : TRUE
    OBVIOUS
  <2>3. PICK v \in set : locks[Row(w)] = v /\ Row(w) \in Rows
    BY <2>1
  <2>4. Row(w) \in BookingIds /\ Row(v) \in SessionIds
    BY <2>1, <2>3 DEF Rows
  <2>5. locks[Row(v)] \in set
    BY <2>1
  <2> QED
    BY <2>1, <2>4, <2>5
<1> QED
  BY <1>1, LockOrderKept, Invariance, PTL

=============================================================================
