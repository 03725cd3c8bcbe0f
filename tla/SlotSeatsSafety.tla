--------------------------- MODULE SlotSeatsSafety ---------------------------
(***************************************************************************)
(* However many requests about slots are served at once, and in whatever order *)
(* a flush takes its rows: a slot never has two live classes, a class and its  *)
(* booking are cancelled together, and no coming slot stays booked without a    *)
(* class.  A switch and a change of a slot write what they have read without a   *)
(* lock, so the argument cannot be that rows do not change between being read    *)
(* and being written; it is that a class is written with its booking, that a    *)
(* class is only inserted under its slot's lock, and that the slot of a class    *)
(* is looked at when the class is already locked.                            *)
(*                                                                         *)
(* From that invariant and a second one, that a transaction acts for one student, *)
(* SlotSeats implements SlotDiary.  From a third, the order in which a request  *)
(* takes its locks, a deadlock needs a switch or two reschedulings.             *)
(***************************************************************************)
EXTENDS SlotSeats, FiniteSetTheorems, TLAPS

-----------------------------------------------------------------------------
(* The inductive invariant. *)

Stages ==
  {"IDLE", "STUDENT", "SLOT", "INSERT", "BOOKING", "CLASS", "CHANGE", "RELEASE",
   "FIND", "WITHDRAW", "GIVE_BACK", "COMMIT"}

Values == Programs \cup SlotStatuses \cup Booking \cup Class
Table == UNION {[rows -> Values] : rows \in SUBSET Rows}

Txn ==
  [kind: Kinds \cup {"NONE"}, stage: Stages, student: StudentIds \cup {None},
   slot: SlotIds \cup {None}, booking: BookingIds \cup {None},
   begun: SUBSET SlotIds, todo: SUBSET BookingIds, writes: Table]

TypeInv ==
  /\ db \in Table
  /\ \A st \in StudentIds : StudentRow(st) \in DOMAIN db
  /\ \A t \in SlotIds : SlotRow(t) \in DOMAIN db
  /\ started \in SUBSET SlotIds
  /\ locks \in [Rows -> Workers \cup {None}]
  /\ txns \in [Workers -> Txn]

Agree(booking, class) ==
  /\ class.status = "CANCELLED" <=> booking.status = "CANCELLED"
  /\ class.status = "COMPLETED" <=> booking.status = "ATTENDED"

(* Rows hold what they are for, and a class comes with its booking. *)
WellFormed(rows) ==
  /\ \A st \in StudentIds : StudentRow(st) \in DOMAIN rows => rows[StudentRow(st)] \in Programs
  /\ \A t \in SlotIds : SlotRow(t) \in DOMAIN rows => rows[SlotRow(t)] \in SlotStatuses
  /\ \A b \in BookingIds :
       /\ BookingRow(b) \in DOMAIN rows <=> ClassRow(b) \in DOMAIN rows
       /\ BookingRow(b) \in DOMAIN rows =>
            /\ rows[BookingRow(b)] \in Booking /\ rows[ClassRow(b)] \in Class
            /\ Agree(rows[BookingRow(b)], rows[ClassRow(b)])

IsTable(rows) == rows \in Table /\ WellFormed(rows)

OneClassPerSlot(rows) == \A t \in SlotIds : \A b, c \in LiveClassesOf(rows, t) : b = c

Moves == {"RESCHEDULE", "ADMIN_RESCHEDULE"}

(* What a stage of a request has behind it. *)
Placed(w, txn) ==
  /\ txn.begun \subseteq started
  /\ txn.todo \subseteq BookingsOf(db)
  /\ txn.stage \in {"BOOKING", "CLASS", "CHANGE", "RELEASE", "GIVE_BACK"} =>
       txn.booking \in BookingsOf(db)
  /\ txn.stage \in {"STUDENT", "SLOT", "INSERT"} =>
       txn.student \in StudentIds /\ txn.slot \in SlotIds
  /\ txn.stage # "COMMIT" /\ txn.kind \in Moves =>
       txn.student \in StudentIds /\ txn.slot \in SlotIds
  /\ txn.stage \in {"BOOKING", "CLASS", "CHANGE"} => DOMAIN txn.writes = {}
  /\ txn.stage \in {"CHANGE", "RELEASE"} => locks[ClassRow(txn.booking)] = w
  /\ txn.stage = "INSERT" => locks[SlotRow(txn.slot)] = w

(* A class that is changed keeps its slot and is cancelled, unless it is live
   and locked; one that is inserted is the only live one of a locked slot, and
   a slot is booked for such a class only. *)
Wrote(w, writes) ==
  /\ \A b \in BookingsOf(writes) \cap BookingsOf(db) :
       /\ writes[ClassRow(b)].slot = db[ClassRow(b)].slot
       /\ writes[ClassRow(b)].status # "CANCELLED" =>
            locks[ClassRow(b)] = w /\ db[ClassRow(b)].status # "CANCELLED"
  /\ \A b \in BookingsOf(writes) \ BookingsOf(db) :
       /\ writes[ClassRow(b)].status # "CANCELLED"
       /\ locks[SlotRow(writes[ClassRow(b)].slot)] = w
       /\ \A c \in LiveClassesOf(Overlay(writes, db), writes[ClassRow(b)].slot) : c = b
  /\ \A t \in SlotIds :
       SlotRow(t) \in DOMAIN writes /\ writes[SlotRow(t)] = "BOOKED" =>
         \E b \in BookingsOf(writes) \ BookingsOf(db) : writes[ClassRow(b)].slot = t

(* Who cancels a class that is live has locked it before looking at its slot. *)
SlotSeenTo(w, txn, b) ==
  LET t == db[ClassRow(b)].slot IN
    /\ locks[ClassRow(b)] = w
    /\ SlotRow(t) \in DOMAIN txn.writes \/ t \in started \/ db[SlotRow(t)] # "BOOKED"

GivesBack(w, txn) ==
  \A b \in BookingsOf(txn.writes) \cap BookingsOf(db) :
    txn.writes[ClassRow(b)].status = "CANCELLED" /\ db[ClassRow(b)].status # "CANCELLED" =>
      \/ txn.stage \in {"RELEASE", "GIVE_BACK"} /\ txn.booking = b
      \/ SlotSeenTo(w, txn, b)

Keeps(w, txn) ==
  IsTable(txn.writes) /\ Placed(w, txn) /\ Wrote(w, txn.writes) /\ GivesBack(w, txn)

(* A key that is not committed is one transaction's. *)
Apart ==
  \A v, w \in Workers :
    v # w => BookingsOf(txns[v].writes) \cap BookingsOf(txns[w].writes) \subseteq BookingsOf(db)

IInv ==
  /\ TypeInv /\ WellFormed(db) /\ OneClassPerSlot(db) /\ NoSlotStranded /\ Apart
  /\ \A w \in Workers : Keeps(w, txns[w])

-----------------------------------------------------------------------------
(* Rows and tables. *)

LEMMA RowsApart ==
  /\ \A x, y : SlotRow(x) = SlotRow(y) => x = y
  /\ \A x, y : BookingRow(x) = BookingRow(y) => x = y
  /\ \A x, y : ClassRow(x) = ClassRow(y) => x = y
  /\ \A x, y : StudentRow(x) # SlotRow(y)
  /\ \A x, y : StudentRow(x) # BookingRow(y)
  /\ \A x, y : StudentRow(x) # ClassRow(y)
  /\ \A x, y : SlotRow(x) # BookingRow(y)
  /\ \A x, y : SlotRow(x) # ClassRow(y)
  /\ \A x, y : BookingRow(x) # ClassRow(y)
BY DEF StudentRow, SlotRow, BookingRow, ClassRow

LEMMA AreRows ==
  /\ \A st \in StudentIds : StudentRow(st) \in Rows
  /\ \A t \in SlotIds : SlotRow(t) \in Rows
  /\ \A b \in BookingIds : BookingRow(b) \in Rows /\ ClassRow(b) \in Rows
BY DEF Rows

LEMMA Tables ==
  ASSUME NEW rows
  PROVE  rows \in Table <=>
           /\ rows = [r \in DOMAIN rows |-> rows[r]]
           /\ DOMAIN rows \subseteq Rows
           /\ \A r \in DOMAIN rows : rows[r] \in Values
BY DEF Table

LEMMA Overlays ==
  ASSUME NEW written, NEW rows
  PROVE  /\ DOMAIN Overlay(written, rows) = DOMAIN rows \cup DOMAIN written
         /\ \A r \in DOMAIN written : Overlay(written, rows)[r] = written[r]
         /\ \A r \in DOMAIN rows \ DOMAIN written : Overlay(written, rows)[r] = rows[r]
BY DEF Overlay

LEMMA OverlayTable ==
  ASSUME NEW written, IsTable(written), NEW rows, IsTable(rows)
  PROVE  /\ IsTable(Overlay(written, rows))
         /\ BookingsOf(Overlay(written, rows)) = BookingsOf(written) \cup BookingsOf(rows)
<1> DEFINE new == Overlay(written, rows)
<1>1. /\ DOMAIN new = DOMAIN rows \cup DOMAIN written
      /\ \A r \in DOMAIN written : new[r] = written[r]
      /\ \A r \in DOMAIN rows \ DOMAIN written : new[r] = rows[r]
      /\ new = [r \in DOMAIN new |-> new[r]]
  BY Overlays DEF Overlay
<1> HIDE DEF new
<1>2. new \in Table
  BY <1>1, Tables DEF IsTable
<1>3. BookingsOf(new) = BookingsOf(written) \cup BookingsOf(rows)
  BY <1>1 DEF BookingsOf
<1>4. WellFormed(new)
  BY <1>1 DEF IsTable, WellFormed
<1> QED
  BY <1>2, <1>3, <1>4 DEF IsTable, new

LEMMA EmptyIsTable == IsTable(EmptyTable) /\ DOMAIN EmptyTable = {} /\ BookingsOf(EmptyTable) = {}
BY Tables DEF IsTable, WellFormed, EmptyTable, BookingsOf

(* A written row that is no class's. *)
LEMMA SlotTable ==
  ASSUME NEW t \in SlotIds, NEW status \in SlotStatuses
  PROVE  /\ IsTable(OneRow(SlotRow(t), status))
         /\ BookingsOf(OneRow(SlotRow(t), status)) = {}
         /\ DOMAIN OneRow(SlotRow(t), status) = {SlotRow(t)}
         /\ OneRow(SlotRow(t), status)[SlotRow(t)] = status
BY RowsApart, AreRows, Tables DEF IsTable, WellFormed, OneRow, BookingsOf, Values

LEMMA StudentTable ==
  ASSUME NEW st \in StudentIds, NEW program \in Programs
  PROVE  /\ IsTable(OneRow(StudentRow(st), program))
         /\ BookingsOf(OneRow(StudentRow(st), program)) = {}
         /\ \A t : SlotRow(t) \notin DOMAIN OneRow(StudentRow(st), program)
BY RowsApart, AreRows, Tables DEF IsTable, WellFormed, OneRow, BookingsOf, Values

LEMMA PairTable ==
  ASSUME NEW b \in BookingIds, NEW booking \in Booking, NEW class \in Class, Agree(booking, class)
  PROVE  /\ IsTable(BookingAndClass(b, booking, class))
         /\ BookingsOf(BookingAndClass(b, booking, class)) = {b}
         /\ DOMAIN BookingAndClass(b, booking, class) = {BookingRow(b), ClassRow(b)}
         /\ BookingAndClass(b, booking, class)[ClassRow(b)] = class
<1> DEFINE pair == BookingAndClass(b, booking, class)
<1>1. /\ DOMAIN pair = {BookingRow(b), ClassRow(b)}
      /\ pair[BookingRow(b)] = booking /\ pair[ClassRow(b)] = class
      /\ pair = [r \in DOMAIN pair |-> pair[r]]
  BY RowsApart DEF BookingAndClass
<1> HIDE DEF pair
<1>2. pair \in Table
  BY <1>1, AreRows, Tables DEF Values
<1>3. \A x \in BookingIds : /\ BookingRow(x) \in DOMAIN pair <=> x = b
                            /\ ClassRow(x) \in DOMAIN pair <=> x = b
  BY <1>1, RowsApart
<1>4. \A x : StudentRow(x) \notin DOMAIN pair /\ SlotRow(x) \notin DOMAIN pair
  BY <1>1, RowsApart
<1> QED
  BY <1>1, <1>2, <1>3, <1>4 DEF IsTable, WellFormed, BookingsOf, pair

-----------------------------------------------------------------------------
(* Steps that commit nothing. *)

(* Locks that stay held keep what they protect. *)
LEMMA AsBefore ==
  ASSUME TypeInv, WellFormed(db), db' = db, started \subseteq started', NEW w,
         \A r \in Rows : locks[r] = w => locks'[r] = w,
         NEW txn \in Txn, IsTable(txn.writes)
  PROVE  /\ Placed(w, txn) => Placed(w, txn)'
         /\ Wrote(w, txn.writes) => Wrote(w, txn.writes)'
         /\ GivesBack(w, txn) => GivesBack(w, txn)'
<1>1. \A b \in BookingsOf(db) : ClassRow(b) \in Rows
  BY AreRows DEF BookingsOf
<1>2. \A b \in BookingsOf(txn.writes) : /\ ClassRow(b) \in Rows
                                        /\ txn.writes[ClassRow(b)].slot \in SlotIds
  BY AreRows DEF BookingsOf, IsTable, WellFormed, Class
<1>3. Placed(w, txn) => Placed(w, txn)'
  <2> SUFFICES ASSUME Placed(w, txn) PROVE Placed(w, txn)'
    OBVIOUS
  <2>1. txn.stage \in {"CHANGE", "RELEASE"} => locks'[ClassRow(txn.booking)] = w
    BY <1>1 DEF Placed
  <2>2. txn.stage = "INSERT" => locks'[SlotRow(txn.slot)] = w
    BY AreRows DEF Placed
  <2> QED
    BY <2>1, <2>2 DEF Placed
<1>4. Wrote(w, txn.writes) => Wrote(w, txn.writes)'
  BY <1>1, <1>2, AreRows DEF Wrote
<1>5. GivesBack(w, txn) => GivesBack(w, txn)'
  BY <1>1 DEF GivesBack, SlotSeenTo
<1> QED
  BY <1>3, <1>4, <1>5

(* A step of one transaction, which may take a lock but commits nothing. *)
LEMMA OwnStep ==
  ASSUME IInv, NEW w \in Workers, NEW txn \in Txn, db' = db, started' = started,
         locks' \in [Rows -> Workers \cup {None}],
         \A v \in Workers \ {w}, r \in Rows : locks[r] = v => locks'[r] = v,
         txns' = [txns EXCEPT ![w] = txn],
         IsTable(txn.writes), Placed(w, txn)', Wrote(w, txn.writes)', GivesBack(w, txn)',
         \A v \in Workers \ {w} :
           BookingsOf(txns[v].writes) \cap BookingsOf(txn.writes) \subseteq BookingsOf(db)
  PROVE  IInv'
<1>1. txns \in [Workers -> Txn] /\ txns' \in [Workers -> Txn]
  BY DEF IInv, TypeInv
<1>2. txns'[w] = txn /\ \A v \in Workers \ {w} : txns'[v] = txns[v]
  BY <1>1
<1>3. TypeInv'
  BY <1>1 DEF IInv, TypeInv
<1>4. WellFormed(db)' /\ OneClassPerSlot(db)' /\ NoSlotStranded'
  BY DEF IInv, WellFormed, OneClassPerSlot, NoSlotStranded
<1>5. Apart'
  BY <1>2 DEF IInv, Apart
<1>6. ASSUME NEW v \in Workers PROVE Keeps(v, txns[v])'
  <2>1. CASE v = w
    BY <1>2, <2>1 DEF Keeps
  <2>2. CASE v # w
    <3>1. Keeps(v, txns[v]) /\ txns[v] \in Txn /\ txns'[v] = txns[v]
      BY <1>1, <1>2, <2>2 DEF IInv
    <3>2. /\ IsTable(txns[v].writes)
          /\ Placed(v, txns[v])' /\ Wrote(v, txns[v].writes)' /\ GivesBack(v, txns[v])'
      <4>1. /\ TypeInv /\ WellFormed(db)
            /\ \A r \in Rows : locks[r] = v => locks'[r] = v
            /\ started \subseteq started'
        BY <2>2 DEF IInv
      <4>2. /\ Placed(v, txns[v]) => Placed(v, txns[v])'
            /\ Wrote(v, txns[v].writes) => Wrote(v, txns[v].writes)'
            /\ GivesBack(v, txns[v]) => GivesBack(v, txns[v])'
        BY <3>1, <4>1, AsBefore DEF Keeps
      <4> QED
        BY <3>1, <4>2 DEF Keeps
    <3> QED
      BY <3>1, <3>2 DEF Keeps
  <2> QED
    BY <2>1, <2>2
<1> QED
  BY <1>3, <1>4, <1>5, <1>6 DEF IInv

(* The rows of the committed tables, and a transaction's. *)
LEMMA Facts ==
  ASSUME IInv, NEW w \in Workers
  PROVE  /\ TypeInv /\ IsTable(db) /\ OneClassPerSlot(db) /\ NoSlotStranded
         /\ txns[w] \in Txn /\ IsTable(txns[w].writes)
         /\ Placed(w, txns[w]) /\ Wrote(w, txns[w].writes) /\ GivesBack(w, txns[w])
         /\ \A b \in BookingsOf(db) :
              /\ b \in BookingIds /\ BookingRow(b) \in DOMAIN db /\ ClassRow(b) \in DOMAIN db
              /\ db[BookingRow(b)] \in Booking /\ db[ClassRow(b)] \in Class
              /\ Agree(db[BookingRow(b)], db[ClassRow(b)])
BY DEF IInv, TypeInv, IsTable, WellFormed, Keeps, BookingsOf

(* A step that leaves every transaction where it is. *)
LEMMA TxnsStay ==
  ASSUME IInv, UNCHANGED <<db, txns>>, started \subseteq started',
         \A v \in Workers, r \in Rows : locks[r] = v => locks'[r] = v
  PROVE  \A v \in Workers : Keeps(v, txns[v])'
<1> TAKE v \in Workers
<1>1. PICK txn : txn = txns[v]
  OBVIOUS
<1>2. /\ TypeInv /\ WellFormed(db) /\ db' = db
      /\ \A r \in Rows : locks[r] = v => locks'[r] = v
      /\ txn \in Txn /\ IsTable(txn.writes)
      /\ Placed(v, txn) /\ Wrote(v, txn.writes) /\ GivesBack(v, txn)
  BY <1>1, Facts DEF IsTable
<1>3. Placed(v, txn)' /\ Wrote(v, txn.writes)' /\ GivesBack(v, txn)'
  BY <1>2, AsBefore
<1>4. txn = txns'[v]
  BY <1>1
<1> QED
  BY <1>2, <1>3, <1>4 DEF Keeps

LEMMA LiveInOverlay ==
  ASSUME NEW written, IsTable(written), NEW rows, IsTable(rows), NEW t
  PROVE  \A b : b \in LiveClassesOf(Overlay(written, rows), t) <=>
           \/ /\ b \in BookingsOf(written)
              /\ written[ClassRow(b)].slot = t /\ written[ClassRow(b)].status # "CANCELLED"
           \/ /\ b \in BookingsOf(rows) \ BookingsOf(written)
              /\ rows[ClassRow(b)].slot = t /\ rows[ClassRow(b)].status # "CANCELLED"
<1>1. BookingsOf(Overlay(written, rows)) = BookingsOf(written) \cup BookingsOf(rows)
  BY OverlayTable
<1>2. \A b \in BookingsOf(written) : ClassRow(b) \in DOMAIN written
  BY DEF BookingsOf, IsTable, WellFormed
<1>3. \A b \in BookingsOf(rows) \ BookingsOf(written) :
        ClassRow(b) \in DOMAIN rows \ DOMAIN written
  BY DEF BookingsOf, IsTable, WellFormed
<1>4. /\ \A r \in DOMAIN written : Overlay(written, rows)[r] = written[r]
      /\ \A r \in DOMAIN rows \ DOMAIN written : Overlay(written, rows)[r] = rows[r]
  BY Overlays
<1> QED
  BY <1>1, <1>2, <1>3, <1>4 DEF LiveClassesOf

(* Writing a row that is no class's, nor books a slot. *)
LEMMA WroteBeside ==
  ASSUME IsTable(db), NEW w, NEW writes, IsTable(writes), Wrote(w, writes),
         NEW more, IsTable(more), BookingsOf(more) = {},
         \A t \in SlotIds : SlotRow(t) \in DOMAIN more => more[SlotRow(t)] # "BOOKED",
         NEW new, new = Overlay(more, writes)
  PROVE  /\ IsTable(new) /\ BookingsOf(new) = BookingsOf(writes)
         /\ \A b \in BookingsOf(writes) : new[ClassRow(b)] = writes[ClassRow(b)]
         /\ DOMAIN new = DOMAIN writes \cup DOMAIN more
         /\ Wrote(w, new)
<1>1. /\ DOMAIN new = DOMAIN writes \cup DOMAIN more
      /\ \A r \in DOMAIN more : new[r] = more[r]
      /\ \A r \in DOMAIN writes \ DOMAIN more : new[r] = writes[r]
  <2>1. /\ DOMAIN Overlay(more, writes) = DOMAIN writes \cup DOMAIN more
        /\ \A r \in DOMAIN more : Overlay(more, writes)[r] = more[r]
        /\ \A r \in DOMAIN writes \ DOMAIN more : Overlay(more, writes)[r] = writes[r]
    BY Overlays
  <2> QED
    BY <2>1
<1>2. IsTable(new) /\ BookingsOf(new) = BookingsOf(writes)
  BY OverlayTable
<1>3. \A b \in BookingsOf(writes) : ClassRow(b) \in DOMAIN writes \ DOMAIN more
  BY DEF BookingsOf, IsTable, WellFormed
<1>4. \A b \in BookingsOf(writes) : new[ClassRow(b)] = writes[ClassRow(b)]
  BY <1>1, <1>3
<1>5. \A t : LiveClassesOf(Overlay(new, db), t) = LiveClassesOf(Overlay(writes, db), t)
  <2> TAKE t
  <2>1. \A x : x \in LiveClassesOf(Overlay(new, db), t)
                <=> x \in LiveClassesOf(Overlay(writes, db), t)
    BY <1>2, <1>4, LiveInOverlay
  <2> QED
    BY <2>1 DEF LiveClassesOf
<1>6. \A t \in SlotIds :
        SlotRow(t) \in DOMAIN new /\ new[SlotRow(t)] = "BOOKED" =>
          SlotRow(t) \in DOMAIN writes /\ writes[SlotRow(t)] = "BOOKED"
  BY <1>1
<1>7. Wrote(w, new)
  BY <1>2, <1>4, <1>5, <1>6 DEF Wrote
<1> QED
  BY <1>1, <1>2, <1>4, <1>7

(* Writing that a committed class and its booking are cancelled. *)
LEMMA WroteCancelled ==
  ASSUME IsTable(db), NEW w, NEW writes, IsTable(writes), Wrote(w, writes),
         NEW b \in BookingsOf(db), NEW booking \in Booking, NEW class \in Class,
         booking.status = "CANCELLED", class.status = "CANCELLED",
         class.slot = db[ClassRow(b)].slot,
         NEW new, new = Overlay(BookingAndClass(b, booking, class), writes)
  PROVE  /\ IsTable(new) /\ BookingsOf(new) = BookingsOf(writes) \cup {b}
         /\ new[ClassRow(b)] = class
         /\ \A x \in BookingsOf(writes) \ {b} : new[ClassRow(x)] = writes[ClassRow(x)]
         /\ DOMAIN writes \subseteq DOMAIN new
         /\ Wrote(w, new)
<1> DEFINE pair == BookingAndClass(b, booking, class)
<1>0. b \in BookingIds
  BY DEF BookingsOf
<1>1. /\ IsTable(pair) /\ BookingsOf(pair) = {b}
      /\ DOMAIN pair = {BookingRow(b), ClassRow(b)} /\ pair[ClassRow(b)] = class
  BY <1>0, PairTable DEF Agree
<1> HIDE DEF pair
<1>2. /\ DOMAIN new = DOMAIN writes \cup DOMAIN pair
      /\ \A r \in DOMAIN pair : new[r] = pair[r]
      /\ \A r \in DOMAIN writes \ DOMAIN pair : new[r] = writes[r]
  BY Overlays DEF pair
<1>3. IsTable(new) /\ BookingsOf(new) = BookingsOf(writes) \cup {b}
  <2>1. new = Overlay(pair, writes)
    BY DEF pair
  <2> QED
    BY <1>1, <2>1, OverlayTable
<1>4. \A x \in BookingsOf(writes) \ {b} : ClassRow(x) \in DOMAIN writes \ DOMAIN pair
  BY <1>1, RowsApart DEF BookingsOf, IsTable, WellFormed
<1>5. /\ new[ClassRow(b)] = class
      /\ \A x \in BookingsOf(writes) \ {b} : new[ClassRow(x)] = writes[ClassRow(x)]
  BY <1>1, <1>2, <1>4
<1>6. \A t : LiveClassesOf(Overlay(new, db), t) \subseteq LiveClassesOf(Overlay(writes, db), t)
  <2> TAKE t
  <2> SUFFICES ASSUME NEW x \in LiveClassesOf(Overlay(new, db), t)
               PROVE  x \in LiveClassesOf(Overlay(writes, db), t)
    OBVIOUS
  <2>1. x # b
    BY <1>3, <1>5, LiveInOverlay
  <2>2. \/ /\ x \in BookingsOf(new)
           /\ new[ClassRow(x)].slot = t /\ new[ClassRow(x)].status # "CANCELLED"
        \/ /\ x \in BookingsOf(db) \ BookingsOf(new)
           /\ db[ClassRow(x)].slot = t /\ db[ClassRow(x)].status # "CANCELLED"
    BY <1>3, LiveInOverlay
  <2>3. \/ /\ x \in BookingsOf(writes)
           /\ writes[ClassRow(x)].slot = t /\ writes[ClassRow(x)].status # "CANCELLED"
        \/ /\ x \in BookingsOf(db) \ BookingsOf(writes)
           /\ db[ClassRow(x)].slot = t /\ db[ClassRow(x)].status # "CANCELLED"
    BY <1>3, <1>5, <2>1, <2>2
  <2> QED
    BY <2>3, LiveInOverlay
<1>7. \A t \in SlotIds :
        SlotRow(t) \in DOMAIN new /\ new[SlotRow(t)] = "BOOKED" =>
          SlotRow(t) \in DOMAIN writes /\ writes[SlotRow(t)] = "BOOKED"
  BY <1>1, <1>2, RowsApart
<1>8. BookingsOf(new) \ BookingsOf(db) = BookingsOf(writes) \ BookingsOf(db)
  BY <1>3
<1>9. Wrote(w, new)
  <2>1. \A x \in BookingsOf(new) \cap BookingsOf(db) :
          /\ new[ClassRow(x)].slot = db[ClassRow(x)].slot
          /\ new[ClassRow(x)].status # "CANCELLED" =>
               locks[ClassRow(x)] = w /\ db[ClassRow(x)].status # "CANCELLED"
    BY <1>3, <1>5 DEF Wrote
  <2>2. \A x \in BookingsOf(new) \ BookingsOf(db) :
          /\ new[ClassRow(x)].status # "CANCELLED"
          /\ locks[SlotRow(new[ClassRow(x)].slot)] = w
          /\ \A c \in LiveClassesOf(Overlay(new, db), new[ClassRow(x)].slot) : c = x
    BY <1>5, <1>6, <1>8 DEF Wrote
  <2>3. \A t \in SlotIds :
          SlotRow(t) \in DOMAIN new /\ new[SlotRow(t)] = "BOOKED" =>
            \E x \in BookingsOf(new) \ BookingsOf(db) : new[ClassRow(x)].slot = t
    BY <1>5, <1>7, <1>8 DEF Wrote
  <2> QED
    BY <2>1, <2>2, <2>3 DEF Wrote
<1> QED
  BY <1>2, <1>3, <1>5, <1>9

-----------------------------------------------------------------------------
(* What a step does to a transaction. *)

LEMMA Going ==
  ASSUME IInv, NEW w \in Workers, NEW stage \in Stages, NEW writes, IsTable(writes),
         Goes(w, stage, writes)
  PROVE  \E txn \in Txn :
           /\ txns' = [txns EXCEPT ![w] = txn]
           /\ txn = [txns[w] EXCEPT !.stage = stage, !.writes = Overlay(writes, txns[w].writes)]
           /\ IsTable(txn.writes)
<1> DEFINE txn == [txns[w] EXCEPT !.stage = stage, !.writes = Overlay(writes, txns[w].writes)]
<1>1. txns[w] \in Txn /\ IsTable(Overlay(writes, txns[w].writes))
  BY Facts, OverlayTable
<1>2. txn \in Txn /\ txn.writes = Overlay(writes, txns[w].writes)
  BY <1>1 DEF Txn, IsTable
<1>3. txns' = [txns EXCEPT ![w] = txn]
  BY DEF Goes
<1> QED
  BY <1>1, <1>2, <1>3

LEMMA IdleIsTxn ==
  /\ Idle \in Txn /\ Idle.kind = "NONE" /\ Idle.stage = "IDLE" /\ Idle.writes = EmptyTable
  /\ Idle.begun = {} /\ Idle.todo = {}
BY EmptyIsTable DEF Idle, Txn, Stages, IsTable

LEMMA GoingToCommit ==
  ASSUME IInv, NEW w \in Workers, NEW writes, IsTable(writes), GoesToCommit(w, writes)
  PROVE  \E txn \in Txn :
           /\ txns' = [txns EXCEPT ![w] = txn]
           /\ txn = [Request(txns[w].kind, "COMMIT") EXCEPT !.writes = Overlay(writes, txns[w].writes)]
           /\ IsTable(txn.writes)
<1> DEFINE txn == [Request(txns[w].kind, "COMMIT") EXCEPT !.writes = Overlay(writes, txns[w].writes)]
<1>1. IsTable(Overlay(writes, txns[w].writes))
  BY Facts, OverlayTable
<1>2. txn \in Txn /\ txn.writes = Overlay(writes, txns[w].writes)
  <2>1. txns[w].kind \in Kinds \cup {"NONE"}
    BY Facts DEF Txn
  <2> QED
    BY <1>1, <2>1, IdleIsTxn DEF Request, Txn, IsTable, Stages
<1>3. txns' = [txns EXCEPT ![w] = txn]
  BY DEF GoesToCommit
<1> QED
  BY <1>1, <1>2, <1>3

LEMMA NothingWritten ==
  ASSUME NEW writes, IsTable(writes)
  PROVE  Overlay(EmptyTable, writes) = writes
BY Tables DEF Overlay, EmptyTable, IsTable

LEMMA Taking ==
  ASSUME IInv, NEW w \in Workers, NEW r \in Rows, Takes(w, r)
  PROVE  /\ locks' \in [Rows -> Workers \cup {None}]
         /\ locks'[r] = w
         /\ \A v \in Workers, x \in Rows : locks[x] = v => locks'[x] = v
BY SlotSeatsAssumption DEF IInv, TypeInv, Takes

(* A step that writes nothing. *)
LEMMA ReadStep ==
  ASSUME IInv, NEW w \in Workers, NEW txn \in Txn, db' = db, started' = started,
         locks' \in [Rows -> Workers \cup {None}],
         \A v \in Workers, r \in Rows : locks[r] = v => locks'[r] = v,
         txns' = [txns EXCEPT ![w] = txn],
         txn.writes = txns[w].writes, Placed(w, txn)',
         txns[w].stage \notin {"RELEASE", "GIVE_BACK"}
  PROVE  IInv'
<1>1. /\ TypeInv /\ WellFormed(db) /\ started \subseteq started'
      /\ \A r \in Rows : locks[r] = w => locks'[r] = w
      /\ IsTable(txn.writes) /\ Wrote(w, txn.writes)
  BY Facts DEF IsTable
<1>2. GivesBack(w, txn)
  BY Facts DEF GivesBack, SlotSeenTo
<1>3. Wrote(w, txn.writes)' /\ GivesBack(w, txn)'
  BY <1>1, <1>2, AsBefore
<1>4. \A v \in Workers \ {w} :
        BookingsOf(txns[v].writes) \cap BookingsOf(txn.writes) \subseteq BookingsOf(db)
  BY DEF IInv, Apart
<1> QED
  BY <1>1, <1>3, <1>4, OwnStep

-----------------------------------------------------------------------------
(* The steps that read and lock. *)

LEMMA CheckStudentStep ==
  ASSUME IInv, NEW w \in Workers, CheckStudent(w)
  PROVE  IInv'
<1>1. Goes(w, "SLOT", EmptyTable) /\ UNCHANGED <<db, started, locks>> /\ txns[w].stage = "STUDENT"
  BY DEF CheckStudent
<1>2. PICK txn \in Txn :
        /\ txns' = [txns EXCEPT ![w] = txn]
        /\ txn = [txns[w] EXCEPT !.stage = "SLOT", !.writes = Overlay(EmptyTable, txns[w].writes)]
        /\ IsTable(txn.writes)
  <2>1. PICK stage \in Stages : stage = "SLOT"
    BY DEF Stages
  <2>2. Goes(w, stage, EmptyTable) /\ IsTable(EmptyTable)
    BY <1>1, <2>1, EmptyIsTable
  <2>3. \E txn \in Txn :
          /\ txns' = [txns EXCEPT ![w] = txn]
          /\ txn = [txns[w] EXCEPT !.stage = stage, !.writes = Overlay(EmptyTable, txns[w].writes)]
          /\ IsTable(txn.writes)
    BY <2>2, Going
  <2> QED
    BY <2>1, <2>3
<1>3. /\ txn.writes = txns[w].writes /\ txn.stage = "SLOT" /\ txn.begun = txns[w].begun
      /\ txn.todo = txns[w].todo /\ txn.student = txns[w].student /\ txn.slot = txns[w].slot
      /\ txn.kind = txns[w].kind
  BY <1>2, Facts, NothingWritten DEF Txn
<1>4. Placed(w, txn)'
  BY <1>1, <1>3, Facts DEF Placed
<1>5. locks' \in [Rows -> Workers \cup {None}]
  BY <1>1 DEF IInv, TypeInv
<1> QED
  BY <1>1, <1>2, <1>3, <1>4, <1>5, ReadStep

LEMMA LockSlotStep ==
  ASSUME IInv, NEW w \in Workers, LockSlot(w)
  PROVE  IInv'
<1>1. /\ Goes(w, "INSERT", EmptyTable) /\ UNCHANGED <<db, started>> /\ txns[w].stage = "SLOT"
      /\ Takes(w, SlotRow(txns[w].slot))
  BY DEF LockSlot
<1>2. PICK txn \in Txn :
        /\ txns' = [txns EXCEPT ![w] = txn]
        /\ txn = [txns[w] EXCEPT !.stage = "INSERT", !.writes = Overlay(EmptyTable, txns[w].writes)]
        /\ IsTable(txn.writes)
  <2>1. PICK stage \in Stages : stage = "INSERT"
    BY DEF Stages
  <2>2. Goes(w, stage, EmptyTable) /\ IsTable(EmptyTable)
    BY <1>1, <2>1, EmptyIsTable
  <2>3. \E txn \in Txn :
          /\ txns' = [txns EXCEPT ![w] = txn]
          /\ txn = [txns[w] EXCEPT !.stage = stage, !.writes = Overlay(EmptyTable, txns[w].writes)]
          /\ IsTable(txn.writes)
    BY <2>2, Going
  <2> QED
    BY <2>1, <2>3
<1>3. /\ txn.writes = txns[w].writes /\ txn.stage = "INSERT" /\ txn.begun = txns[w].begun
      /\ txn.todo = txns[w].todo /\ txn.student = txns[w].student /\ txn.slot = txns[w].slot
      /\ txn.kind = txns[w].kind
  BY <1>2, Facts, NothingWritten DEF Txn
<1>4. txns[w].student \in StudentIds /\ txns[w].slot \in SlotIds
  BY <1>1, Facts DEF Placed
<1>5. /\ locks' \in [Rows -> Workers \cup {None}]
      /\ locks'[SlotRow(txns[w].slot)] = w
      /\ \A v \in Workers, x \in Rows : locks[x] = v => locks'[x] = v
  BY <1>1, <1>4, AreRows, Taking
<1>6. Placed(w, txn)'
  BY <1>1, <1>3, <1>4, <1>5, Facts DEF Placed
<1> QED
  BY <1>1, <1>2, <1>3, <1>5, <1>6, ReadStep

LEMMA LockBookingStep ==
  ASSUME IInv, NEW w \in Workers, LockBooking(w)
  PROVE  IInv'
<1>1. /\ Goes(w, "CLASS", EmptyTable) /\ UNCHANGED <<db, started>> /\ txns[w].stage = "BOOKING"
      /\ Takes(w, BookingRow(txns[w].booking))
  BY DEF LockBooking
<1>2. PICK txn \in Txn :
        /\ txns' = [txns EXCEPT ![w] = txn]
        /\ txn = [txns[w] EXCEPT !.stage = "CLASS", !.writes = Overlay(EmptyTable, txns[w].writes)]
        /\ IsTable(txn.writes)
  <2>1. PICK stage \in Stages : stage = "CLASS"
    BY DEF Stages
  <2>2. Goes(w, stage, EmptyTable) /\ IsTable(EmptyTable)
    BY <1>1, <2>1, EmptyIsTable
  <2>3. \E txn \in Txn :
          /\ txns' = [txns EXCEPT ![w] = txn]
          /\ txn = [txns[w] EXCEPT !.stage = stage, !.writes = Overlay(EmptyTable, txns[w].writes)]
          /\ IsTable(txn.writes)
    BY <2>2, Going
  <2> QED
    BY <2>1, <2>3
<1>3. /\ txn.writes = txns[w].writes /\ txn.stage = "CLASS" /\ txn.begun = txns[w].begun
      /\ txn.todo = txns[w].todo /\ txn.student = txns[w].student /\ txn.slot = txns[w].slot
      /\ txn.kind = txns[w].kind /\ txn.booking = txns[w].booking
  BY <1>2, Facts, NothingWritten DEF Txn
<1>4. txns[w].booking \in BookingsOf(db) /\ DOMAIN txns[w].writes = {}
  BY <1>1, Facts DEF Placed
<1>5. /\ locks' \in [Rows -> Workers \cup {None}]
      /\ \A v \in Workers, x \in Rows : locks[x] = v => locks'[x] = v
  BY <1>1, <1>4, AreRows, Taking, Facts
<1>6. Placed(w, txn)'
  BY <1>1, <1>3, <1>4, Facts DEF Placed
<1> QED
  BY <1>1, <1>2, <1>3, <1>5, <1>6, ReadStep

LEMMA LockClassStep ==
  ASSUME IInv, NEW w \in Workers, LockClass(w)
  PROVE  IInv'
<1>1. /\ txns' = [txns EXCEPT ![w].stage = "CHANGE", ![w].begun = started]
      /\ UNCHANGED <<db, started>> /\ txns[w].stage = "CLASS"
      /\ Takes(w, ClassRow(txns[w].booking))
  BY DEF LockClass
<1>2. PICK txn : txn = [txns[w] EXCEPT !.stage = "CHANGE", !.begun = started]
  OBVIOUS
<1>3. /\ txn \in Txn
      /\ txn.writes = txns[w].writes /\ txn.stage = "CHANGE" /\ txn.begun = started
      /\ txn.todo = txns[w].todo /\ txn.student = txns[w].student /\ txn.slot = txns[w].slot
      /\ txn.kind = txns[w].kind /\ txn.booking = txns[w].booking
  BY <1>2, Facts DEF Txn, Stages, TypeInv
<1>4. txns' = [txns EXCEPT ![w] = txn]
  BY <1>1, <1>2
<1>5. txns[w].booking \in BookingsOf(db) /\ DOMAIN txns[w].writes = {}
  BY <1>1, Facts DEF Placed
<1>6. /\ locks' \in [Rows -> Workers \cup {None}]
      /\ locks'[ClassRow(txns[w].booking)] = w
      /\ \A v \in Workers, x \in Rows : locks[x] = v => locks'[x] = v
  BY <1>1, <1>5, AreRows, Taking, Facts
<1>7. Placed(w, txn)'
  BY <1>1, <1>3, <1>5, <1>6, Facts DEF Placed
<1> QED
  BY <1>1, <1>3, <1>4, <1>6, <1>7, ReadStep

LEMMA FindFutureBookingsStep ==
  ASSUME IInv, NEW w \in Workers, FindFutureBookings(w)
  PROVE  IInv'
<1> DEFINE found == {b \in BookingsOf(db) :
                       /\ db[BookingRow(b)] = [student |-> txns[w].student, status |-> "BOOKED"]
                       /\ db[ClassRow(b)].slot \notin txns[w].begun}
<1>1. /\ txns' = [txns EXCEPT ![w].stage = "WITHDRAW", ![w].todo = found]
      /\ UNCHANGED <<db, started, locks>> /\ txns[w].stage = "FIND"
  BY DEF FindFutureBookings
<1>2. found \subseteq BookingsOf(db) /\ BookingsOf(db) \subseteq BookingIds
  BY DEF BookingsOf
<1> HIDE DEF found
<1>3. PICK txn : txn = [txns[w] EXCEPT !.stage = "WITHDRAW", !.todo = found]
  OBVIOUS
<1>4. /\ txn \in Txn
      /\ txn.writes = txns[w].writes /\ txn.stage = "WITHDRAW" /\ txn.begun = txns[w].begun
      /\ txn.todo = found /\ txn.student = txns[w].student /\ txn.slot = txns[w].slot
      /\ txn.kind = txns[w].kind
  BY <1>2, <1>3, Facts DEF Txn, Stages
<1>5. txns' = [txns EXCEPT ![w] = txn]
  BY <1>1, <1>3
<1>6. Placed(w, txn)'
  <2>1. /\ txn.begun \subseteq started /\ txn.todo \subseteq BookingsOf(db)
        /\ txn.kind \in Moves =>
             txn.student \in StudentIds /\ txn.slot \in SlotIds
    BY <1>1, <1>2, <1>4, Facts DEF Placed
  <2> QED
    BY <1>1, <1>4, <2>1 DEF Placed
<1>7. locks' \in [Rows -> Workers \cup {None}]
  BY <1>1 DEF IInv, TypeInv
<1> QED
  BY <1>1, <1>4, <1>5, <1>6, <1>7, ReadStep

LEMMA AllWithdrawnStep ==
  ASSUME IInv, NEW w \in Workers, AllWithdrawn(w)
  PROVE  IInv'
<1>1. /\ GoesToCommit(w, EmptyTable) /\ UNCHANGED <<db, started, locks>>
      /\ txns[w].stage = "WITHDRAW"
  BY DEF AllWithdrawn
<1>2. PICK txn \in Txn :
        /\ txns' = [txns EXCEPT ![w] = txn]
        /\ txn = [Request(txns[w].kind, "COMMIT") EXCEPT !.writes = Overlay(EmptyTable, txns[w].writes)]
  BY <1>1, EmptyIsTable, GoingToCommit
<1>3. /\ txn.writes = txns[w].writes /\ txn.stage = "COMMIT" /\ txn.kind = txns[w].kind
      /\ txn.begun = {} /\ txn.todo = {}
  BY <1>2, Facts, NothingWritten DEF Request, Idle
<1>4. Placed(w, txn)'
  BY <1>1, <1>3 DEF Placed
<1>5. locks' \in [Rows -> Workers \cup {None}]
  BY <1>1 DEF IInv, TypeInv
<1> QED
  BY <1>1, <1>2, <1>3, <1>4, <1>5, ReadStep

LEMMA FlushRowStep ==
  ASSUME IInv, NEW w \in Workers, FlushRow(w)
  PROVE  IInv'
<1>1. PICK r \in Unflushed(w) : Takes(w, r)
  BY DEF FlushRow
<1>2. UNCHANGED <<db, started, txns>>
  BY DEF FlushRow
<1>3. r \in Rows
  BY <1>1, Facts, Tables DEF Unflushed, IsTable
<1>4. /\ locks' \in [Rows -> Workers \cup {None}]
      /\ \A v \in Workers, x \in Rows : locks[x] = v => locks'[x] = v
  BY <1>1, <1>3, Taking
<1>5. TypeInv' /\ WellFormed(db)' /\ OneClassPerSlot(db)' /\ NoSlotStranded' /\ Apart'
  BY <1>2, <1>4 DEF IInv, TypeInv, WellFormed, OneClassPerSlot, NoSlotStranded, Apart
<1>6. \A v \in Workers : Keeps(v, txns[v])'
  BY <1>2, <1>4, TxnsStay
<1> QED
  BY <1>5, <1>6 DEF IInv

-----------------------------------------------------------------------------
(* The beginning and the undoing of a transaction. *)

(* A transaction that has written no class yet. *)
LEMMA FreshStep ==
  ASSUME IInv, NEW w \in Workers, NEW txn \in Txn, db' = db, started' = started,
         locks' \in [Rows -> Workers \cup {None}],
         \A v \in Workers \ {w}, r \in Rows : locks[r] = v => locks'[r] = v,
         txns' = [txns EXCEPT ![w] = txn],
         IsTable(txn.writes), BookingsOf(txn.writes) = {},
         \A t \in SlotIds : SlotRow(t) \in DOMAIN txn.writes => txn.writes[SlotRow(t)] # "BOOKED",
         Placed(w, txn)'
  PROVE  IInv'
<1>1. Wrote(w, txn.writes)'
  BY DEF Wrote
<1>2. GivesBack(w, txn)'
  BY DEF GivesBack
<1> QED
  BY <1>1, <1>2, OwnStep

LEMMA RollbackStep ==
  ASSUME IInv, NEW w \in Workers, Rollback(w)
  PROVE  IInv'
<1>1. PICK txn : txn = Idle
  OBVIOUS
<1>2. /\ txn \in Txn /\ txn.kind = "NONE" /\ txn.stage = "IDLE" /\ txn.begun = {} /\ txn.todo = {}
      /\ IsTable(txn.writes) /\ BookingsOf(txn.writes) = {}
      /\ \A t : SlotRow(t) \notin DOMAIN txn.writes
  BY <1>1, IdleIsTxn, EmptyIsTable
<1>3. txns' = [txns EXCEPT ![w] = txn] /\ UNCHANGED <<db, started>>
  BY <1>1 DEF Rollback, End
<1>4. /\ locks' \in [Rows -> Workers \cup {None}]
      /\ \A v \in Workers \ {w}, r \in Rows : locks[r] = v => locks'[r] = v
  BY DEF Rollback, End, IInv, TypeInv
<1>5. Placed(w, txn)'
  BY <1>2 DEF Placed, Moves
<1> QED
  BY <1>2, <1>3, <1>4, <1>5, FreshStep

(* A request that has read nothing it relies on. *)
LEMMA BeginStep ==
  ASSUME IInv, NEW w \in Workers, NEW txn \in Txn, Begin(w, txn),
         IsTable(txn.writes), BookingsOf(txn.writes) = {},
         \A t \in SlotIds : SlotRow(t) \in DOMAIN txn.writes => txn.writes[SlotRow(t)] # "BOOKED",
         txn.begun \subseteq started, txn.todo = {},
         txn.kind \in Moves =>
           txn.student \in StudentIds /\ txn.slot \in SlotIds,
         \/ /\ txn.stage = "STUDENT" /\ txn.student \in StudentIds /\ txn.slot \in SlotIds
         \/ /\ txn.stage = "BOOKING" /\ txn.booking \in BookingsOf(db) /\ DOMAIN txn.writes = {}
         \/ txn.stage \in {"FIND", "COMMIT"}
  PROVE  IInv'
<1>1. txns' = [txns EXCEPT ![w] = txn] /\ UNCHANGED <<db, started, locks>>
  BY DEF Begin
<1>2. Placed(w, txn)'
  BY <1>1 DEF Placed
<1>3. locks' \in [Rows -> Workers \cup {None}]
  BY <1>1 DEF IInv, TypeInv
<1> QED
  BY <1>1, <1>2, <1>3, FreshStep

LEMMA BeginBookingStep ==
  ASSUME IInv, NEW w \in Workers, BeginBooking(w)
  PROVE  IInv'
<1>1. PICK st \in StudentIds, t \in SlotIds :
        Begin(w, [Request("BOOK", "STUDENT") EXCEPT !.student = st, !.slot = t, !.begun = started])
  BY DEF BeginBooking
<1>2. PICK txn :
        txn = [Request("BOOK", "STUDENT") EXCEPT !.student = st, !.slot = t, !.begun = started]
  OBVIOUS
<1>3. Begin(w, txn)
  BY <1>1, <1>2
<1>4. txn.kind \in Kinds
  BY <1>3 DEF Begin
<1>5. /\ txn.stage = "STUDENT" /\ txn.student = st /\ txn.slot = t /\ txn.begun = started
      /\ txn.todo = {} /\ txn.writes = EmptyTable
      /\ txn = [kind |-> txn.kind, stage |-> "STUDENT", student |-> st, slot |-> t,
                booking |-> None, begun |-> started, todo |-> {}, writes |-> EmptyTable]
  BY <1>2 DEF Request, Idle
<1>6. txn \in Txn
  BY <1>4, <1>5, EmptyIsTable DEF Txn, Stages, IsTable, IInv, TypeInv
<1> QED
  BY <1>3, <1>5, <1>6, EmptyIsTable, BeginStep

LEMMA BeginChangeStep ==
  ASSUME IInv, NEW w \in Workers, BeginChange(w)
  PROVE  IInv'
<1>1. PICK b \in BookingsOf(db), kind \in {"CANCEL", "ADMIN_CANCEL", "MARK"} :
        Begin(w, [Request(kind, "BOOKING") EXCEPT !.booking = b])
  BY DEF BeginChange
<1>2. PICK txn : txn = [Request(kind, "BOOKING") EXCEPT !.booking = b]
  OBVIOUS
<1>3. Begin(w, txn)
  BY <1>1, <1>2
<1>4. txn.kind \in Kinds /\ b \in BookingIds
  BY <1>3 DEF Begin, BookingsOf
<1>5. /\ txn.stage = "BOOKING" /\ txn.booking = b /\ txn.begun = {} /\ txn.kind = kind
      /\ txn.todo = {} /\ txn.writes = EmptyTable
      /\ txn = [kind |-> txn.kind, stage |-> "BOOKING", student |-> None, slot |-> None,
                booking |-> b, begun |-> {}, todo |-> {}, writes |-> EmptyTable]
  BY <1>2 DEF Request, Idle
<1>6. txn \in Txn
  BY <1>4, <1>5, EmptyIsTable DEF Txn, Stages, IsTable
<1> QED
  BY <1>3, <1>5, <1>6, EmptyIsTable, BeginStep DEF Moves

LEMMA BeginReschedulingStep ==
  ASSUME IInv, NEW w \in Workers, BeginRescheduling(w)
  PROVE  IInv'
<1>1. PICK b \in BookingsOf(db), t \in SlotIds, kind \in {"RESCHEDULE", "ADMIN_RESCHEDULE"} :
        Begin(w, [Request(kind, "BOOKING") EXCEPT
                    !.booking = b, !.student = db[BookingRow(b)].student, !.slot = t])
  BY DEF BeginRescheduling
<1>2. PICK txn : txn = [Request(kind, "BOOKING") EXCEPT
                          !.booking = b, !.student = db[BookingRow(b)].student, !.slot = t]
  OBVIOUS
<1>3. Begin(w, txn)
  BY <1>1, <1>2
<1>4. txn.kind \in Kinds /\ b \in BookingIds /\ db[BookingRow(b)].student \in StudentIds
  BY <1>3, Facts DEF Begin, Booking
<1>5. /\ txn.stage = "BOOKING" /\ txn.booking = b /\ txn.begun = {}
      /\ txn.student = db[BookingRow(b)].student /\ txn.slot = t
      /\ txn.todo = {} /\ txn.writes = EmptyTable
      /\ txn = [kind |-> txn.kind, stage |-> "BOOKING", student |-> db[BookingRow(b)].student,
                slot |-> t, booking |-> b, begun |-> {}, todo |-> {}, writes |-> EmptyTable]
  BY <1>2 DEF Request, Idle
<1>6. txn \in Txn
  BY <1>4, <1>5, EmptyIsTable DEF Txn, Stages, IsTable
<1> QED
  BY <1>3, <1>4, <1>5, <1>6, EmptyIsTable, BeginStep

LEMMA BeginSwitchStep ==
  ASSUME IInv, NEW w \in Workers, BeginSwitch(w)
  PROVE  IInv'
<1>1. PICK st \in StudentIds, program \in Programs :
        Begin(w, [Request("SWITCH", "FIND") EXCEPT
                    !.student = st, !.begun = started, !.writes = OneRow(StudentRow(st), program)])
  BY DEF BeginSwitch
<1>2. PICK txn : txn = [Request("SWITCH", "FIND") EXCEPT
                          !.student = st, !.begun = started,
                          !.writes = OneRow(StudentRow(st), program)]
  OBVIOUS
<1>3. Begin(w, txn)
  BY <1>1, <1>2
<1>4. txn.kind \in Kinds
  BY <1>3 DEF Begin
<1>5. /\ txn.kind = "SWITCH" /\ txn.stage = "FIND" /\ txn.begun = started /\ txn.todo = {}
      /\ txn.writes = OneRow(StudentRow(st), program)
      /\ txn = [kind |-> txn.kind, stage |-> "FIND", student |-> st, slot |-> None,
                booking |-> None, begun |-> started, todo |-> {},
                writes |-> OneRow(StudentRow(st), program)]
  BY <1>2 DEF Request, Idle
<1>6. txn \in Txn
  BY <1>4, <1>5, StudentTable DEF Txn, Stages, IsTable, IInv, TypeInv
<1> QED
  BY <1>3, <1>5, <1>6, StudentTable, BeginStep DEF Moves

LEMMA ChangeSlotStep ==
  ASSUME IInv, NEW w \in Workers, ChangeSlot(w)
  PROVE  IInv'
<1>1. PICK t \in SlotIds, kind \in {"UPDATE_SLOT", "DELETE_SLOT"},
           status \in SlotStatuses \ {"BOOKED"} :
        Begin(w, [Request(kind, "COMMIT") EXCEPT !.writes = OneRow(SlotRow(t), status)])
  BY DEF ChangeSlot
<1>2. PICK txn : txn = [Request(kind, "COMMIT") EXCEPT !.writes = OneRow(SlotRow(t), status)]
  OBVIOUS
<1>3. Begin(w, txn)
  BY <1>1, <1>2
<1>4. txn.kind \in Kinds /\ status \in SlotStatuses /\ status # "BOOKED"
  BY <1>3 DEF Begin, SlotStatuses
<1>5. /\ txn.kind = kind /\ txn.stage = "COMMIT" /\ txn.begun = {} /\ txn.todo = {}
      /\ txn.writes = OneRow(SlotRow(t), status)
      /\ txn = [kind |-> txn.kind, stage |-> "COMMIT", student |-> None, slot |-> None,
                booking |-> None, begun |-> {}, todo |-> {},
                writes |-> OneRow(SlotRow(t), status)]
  BY <1>2 DEF Request, Idle
<1>6. /\ IsTable(txn.writes) /\ BookingsOf(txn.writes) = {}
      /\ \A x \in SlotIds : SlotRow(x) \in DOMAIN txn.writes => txn.writes[SlotRow(x)] # "BOOKED"
  <2>1. /\ IsTable(OneRow(SlotRow(t), status)) /\ BookingsOf(OneRow(SlotRow(t), status)) = {}
        /\ DOMAIN OneRow(SlotRow(t), status) = {SlotRow(t)}
        /\ OneRow(SlotRow(t), status)[SlotRow(t)] = status
    BY <1>4, SlotTable
  <2> QED
    BY <1>4, <1>5, <2>1
<1>7. txn \in Txn
  BY <1>4, <1>5, <1>6 DEF Txn, Stages, IsTable
<1> QED
  BY <1>3, <1>5, <1>6, <1>7, BeginStep DEF Moves

LEMMA StartSlotStep ==
  ASSUME IInv, StartSlot
  PROVE  IInv'
<1>1. PICK t \in SlotIds \ started : started' = started \cup {t}
  BY DEF StartSlot
<1>2. UNCHANGED <<db, locks, txns>>
  BY DEF StartSlot
<1>3. TypeInv' /\ WellFormed(db)' /\ OneClassPerSlot(db)' /\ NoSlotStranded' /\ Apart'
  BY <1>1, <1>2 DEF IInv, TypeInv, WellFormed, OneClassPerSlot, NoSlotStranded, Apart
<1>4. \A v \in Workers : Keeps(v, txns[v])'
  BY <1>1, <1>2, TxnsStay
<1> QED
  BY <1>3, <1>4 DEF IInv

-----------------------------------------------------------------------------
(* The steps that write. *)

(* Writing beside the classes: whoever looks at the slot of the class it cancels
   has locked it, and then gives the slot back if it was booked. *)
LEMMA BesideStep ==
  ASSUME IInv, NEW w \in Workers, NEW txn \in Txn, UNCHANGED <<db, started, locks>>,
         txns' = [txns EXCEPT ![w] = txn],
         NEW more, IsTable(more), BookingsOf(more) = {},
         \A t \in SlotIds : SlotRow(t) \in DOMAIN more => more[SlotRow(t)] # "BOOKED",
         txn.writes = Overlay(more, txns[w].writes), Placed(w, txn),
         txns[w].booking \in BookingsOf(txns[w].writes) \cap BookingsOf(db) =>
           SlotSeenTo(w, txn, txns[w].booking)
  PROVE  IInv'
<1>1. /\ TypeInv /\ WellFormed(db) /\ IsTable(db) /\ started \subseteq started'
      /\ \A r \in Rows : locks[r] = w => locks'[r] = w
      /\ IsTable(txns[w].writes) /\ Wrote(w, txns[w].writes)
  BY Facts DEF IsTable
<1>2. /\ IsTable(txn.writes) /\ BookingsOf(txn.writes) = BookingsOf(txns[w].writes)
      /\ \A b \in BookingsOf(txns[w].writes) :
           txn.writes[ClassRow(b)] = txns[w].writes[ClassRow(b)]
      /\ DOMAIN txn.writes = DOMAIN txns[w].writes \cup DOMAIN more
      /\ Wrote(w, txn.writes)
  BY <1>1, WroteBeside
<1>3. GivesBack(w, txn)
  <2>1. ASSUME NEW b \in BookingsOf(txn.writes) \cap BookingsOf(db),
               txn.writes[ClassRow(b)].status = "CANCELLED", db[ClassRow(b)].status # "CANCELLED"
        PROVE  SlotSeenTo(w, txn, b)
    <3>1. b = txns[w].booking \/ SlotSeenTo(w, txns[w], b)
      BY <1>2, <2>1, Facts DEF GivesBack
    <3>2. ASSUME SlotSeenTo(w, txns[w], b) PROVE SlotSeenTo(w, txn, b)
      BY <1>2, <3>2 DEF SlotSeenTo
    <3> QED
      BY <1>2, <3>1, <3>2
  <2> QED
    BY <2>1 DEF GivesBack
<1>4. Placed(w, txn)' /\ Wrote(w, txn.writes)' /\ GivesBack(w, txn)'
  BY <1>1, <1>2, <1>3, AsBefore
<1>5. \A v \in Workers \ {w} :
        BookingsOf(txns[v].writes) \cap BookingsOf(txn.writes) \subseteq BookingsOf(db)
  BY <1>2 DEF IInv, Apart
<1>6. locks' \in [Rows -> Workers \cup {None}]
  BY <1>1 DEF TypeInv
<1> QED
  BY <1>2, <1>4, <1>5, <1>6, OwnStep

(* Giving the slot of a class back is such a write. *)
LEMMA GivenBackTable ==
  ASSUME NEW t \in SlotIds
  PROVE  /\ IsTable(GivenBack(t)) /\ BookingsOf(GivenBack(t)) = {}
         /\ \A x \in SlotIds : SlotRow(x) \in DOMAIN GivenBack(t) =>
              GivenBack(t)[SlotRow(x)] # "BOOKED"
         /\ db[SlotRow(t)] = "BOOKED" => SlotRow(t) \in DOMAIN GivenBack(t)
<1>1. CASE db[SlotRow(t)] \in TakenStatuses
  <2>1. GivenBack(t) = OneRow(SlotRow(t), "AVAILABLE")
    BY <1>1 DEF GivenBack
  <2>2. PICK status \in SlotStatuses : status = "AVAILABLE"
    BY DEF SlotStatuses
  <2>3. /\ IsTable(OneRow(SlotRow(t), status)) /\ BookingsOf(OneRow(SlotRow(t), status)) = {}
        /\ DOMAIN OneRow(SlotRow(t), status) = {SlotRow(t)}
        /\ OneRow(SlotRow(t), status)[SlotRow(t)] = status
    BY SlotTable
  <2>4. \A x \in SlotIds : SlotRow(x) \in {SlotRow(t)} => x = t
    BY RowsApart
  <2> QED
    BY <2>1, <2>2, <2>3, <2>4
<1>2. CASE db[SlotRow(t)] \notin TakenStatuses
  BY <1>2, EmptyIsTable DEF GivenBack, TakenStatuses
<1> QED
  BY <1>1, <1>2

LEMMA GiveSlotBackStep ==
  ASSUME IInv, NEW w \in Workers, GiveSlotBack(w)
  PROVE  IInv'
<1> DEFINE b == txns[w].booking
           t == db[ClassRow(b)].slot
<1>1. /\ txns[w].stage = "GIVE_BACK" /\ Flushed(w)
      /\ txns' = [txns EXCEPT ![w].stage = "WITHDRAW", ![w].todo = @ \ {b},
                     ![w].writes = Overlay(GivenBack(t), @)]
      /\ UNCHANGED <<db, started, locks>>
  BY DEF GiveSlotBack
<1>2. b \in BookingsOf(db) /\ ClassRow(b) \in DOMAIN db /\ t \in SlotIds
  BY <1>1, Facts DEF Placed, Class
<1> HIDE DEF b, t
<1>3. PICK more : more = GivenBack(t)
  OBVIOUS
<1>4. /\ IsTable(more) /\ BookingsOf(more) = {}
      /\ \A x \in SlotIds : SlotRow(x) \in DOMAIN more => more[SlotRow(x)] # "BOOKED"
      /\ db[SlotRow(t)] = "BOOKED" => SlotRow(t) \in DOMAIN more
  BY <1>2, <1>3, GivenBackTable
<1>5. PICK txn : txn = [txns[w] EXCEPT !.stage = "WITHDRAW", !.todo = @ \ {b},
                                      !.writes = Overlay(more, @)]
  OBVIOUS
<1>6. txns' = [txns EXCEPT ![w] = txn]
  BY <1>1, <1>3, <1>5
<1>7. IsTable(Overlay(more, txns[w].writes))
  BY <1>4, Facts, OverlayTable
<1>8. /\ txn \in Txn
      /\ txn.writes = Overlay(more, txns[w].writes) /\ txn.stage = "WITHDRAW"
      /\ txn.begun = txns[w].begun /\ txn.todo = txns[w].todo \ {b}
      /\ txn.student = txns[w].student /\ txn.slot = txns[w].slot /\ txn.kind = txns[w].kind
  BY <1>5, <1>7, Facts DEF Txn, Stages, IsTable
<1>9. Placed(w, txn)
  <2>1. /\ txn.begun \subseteq started /\ txn.todo \subseteq BookingsOf(db)
        /\ txn.kind \in Moves =>
             txn.student \in StudentIds /\ txn.slot \in SlotIds
    BY <1>1, <1>8, Facts DEF Placed
  <2> QED
    BY <1>8, <2>1 DEF Placed
<1>10. txns[w].booking \in BookingsOf(txns[w].writes) \cap BookingsOf(db) =>
         SlotSeenTo(w, txn, txns[w].booking)
  <2> SUFFICES ASSUME b \in BookingsOf(txns[w].writes) PROVE SlotSeenTo(w, txn, b)
    BY DEF b
  <2>1. ClassRow(b) \in DOMAIN txns[w].writes
    BY Facts DEF IsTable, WellFormed, BookingsOf
  <2>2. locks[ClassRow(b)] = w
    BY <1>1, <1>2, <2>1 DEF Flushed, Unflushed
  <2>3. DOMAIN more \subseteq DOMAIN txn.writes
    <3>1. DOMAIN Overlay(more, txns[w].writes) = DOMAIN txns[w].writes \cup DOMAIN more
      BY Overlays
    <3> QED
      BY <1>8, <3>1
  <2> QED
    BY <1>4, <2>2, <2>3 DEF SlotSeenTo, t
<1> QED
  BY <1>1, <1>4, <1>6, <1>8, <1>9, <1>10, BesideStep

LEMMA ReleaseSlotStep ==
  ASSUME IInv, NEW w \in Workers, ReleaseSlot(w)
  PROVE  IInv'
<1> DEFINE b == txns[w].booking
           t == db[ClassRow(b)].slot
<1>1. /\ txns[w].stage = "RELEASE" /\ UNCHANGED <<db, started, locks>>
      /\ \/ Rescheduling(w) /\ Goes(w, "STUDENT", SlotReleased(w))
         \/ GoesToCommit(w, SlotReleased(w))
  BY DEF ReleaseSlot
<1>2. /\ b \in BookingsOf(db) /\ ClassRow(b) \in DOMAIN db /\ t \in SlotIds
      /\ locks[ClassRow(b)] = w /\ txns[w].begun \subseteq started
      /\ txns[w].todo \subseteq BookingsOf(db)
  BY <1>1, Facts DEF Placed, Class
<1>3. SlotReleased(w) = IF t \in txns[w].begun THEN EmptyTable ELSE GivenBack(t)
  BY DEF SlotReleased, ClassSeen
<1> HIDE DEF b, t
<1>4. PICK more : more = SlotReleased(w)
  OBVIOUS
<1>5. /\ IsTable(more) /\ BookingsOf(more) = {}
      /\ \A x \in SlotIds : SlotRow(x) \in DOMAIN more => more[SlotRow(x)] # "BOOKED"
      /\ SlotRow(t) \in DOMAIN more \/ t \in started \/ db[SlotRow(t)] # "BOOKED"
  <2>1. CASE t \in txns[w].begun
    BY <1>2, <1>3, <1>4, <2>1, EmptyIsTable
  <2>2. CASE t \notin txns[w].begun
    BY <1>2, <1>3, <1>4, <2>2, GivenBackTable
  <2> QED
    BY <2>1, <2>2
<1>6. \E txn \in Txn :
        /\ txns' = [txns EXCEPT ![w] = txn]
        /\ txn.writes = Overlay(more, txns[w].writes) /\ Placed(w, txn)
  <2>1. CASE Rescheduling(w) /\ Goes(w, "STUDENT", more)
    <3>1. PICK stage \in Stages : stage = "STUDENT"
      BY DEF Stages
    <3>2. Goes(w, stage, more)
      BY <2>1, <3>1
    <3>3. PICK txn \in Txn :
            /\ txns' = [txns EXCEPT ![w] = txn]
            /\ txn = [txns[w] EXCEPT !.stage = stage, !.writes = Overlay(more, txns[w].writes)]
            /\ IsTable(txn.writes)
      BY <1>5, <3>2, Going
    <3>4. /\ txn.writes = Overlay(more, txns[w].writes) /\ txn.stage = "STUDENT"
          /\ txn.begun = txns[w].begun /\ txn.todo = txns[w].todo
          /\ txn.student = txns[w].student /\ txn.slot = txns[w].slot
      BY <3>1, <3>3, Facts DEF Txn
    <3>5. txn.student \in StudentIds /\ txn.slot \in SlotIds
      BY <1>1, <2>1, <3>4, Facts DEF Placed, Rescheduling, Moves
    <3>6. Placed(w, txn)
      BY <1>2, <3>4, <3>5 DEF Placed
    <3> QED
      BY <3>3, <3>4, <3>6
  <2>2. CASE GoesToCommit(w, more)
    <3>1. PICK txn \in Txn :
            /\ txns' = [txns EXCEPT ![w] = txn]
            /\ txn = [Request(txns[w].kind, "COMMIT") EXCEPT !.writes = Overlay(more, txns[w].writes)]
      BY <1>5, <2>2, GoingToCommit
    <3>2. /\ txn.writes = Overlay(more, txns[w].writes) /\ txn.stage = "COMMIT"
          /\ txn.kind = txns[w].kind /\ txn.begun = {} /\ txn.todo = {}
      BY <3>1 DEF Request, Idle
    <3>3. Placed(w, txn)
      BY <3>2 DEF Placed
    <3> QED
      BY <3>1, <3>2, <3>3
  <2> QED
    BY <1>1, <1>4, <2>1, <2>2
<1>7. PICK txn \in Txn :
        /\ txns' = [txns EXCEPT ![w] = txn]
        /\ txn.writes = Overlay(more, txns[w].writes) /\ Placed(w, txn)
  BY <1>6
<1>8. SlotSeenTo(w, txn, txns[w].booking)
  <2>1. DOMAIN more \subseteq DOMAIN txn.writes
    <3>1. DOMAIN Overlay(more, txns[w].writes) = DOMAIN txns[w].writes \cup DOMAIN more
      BY Overlays
    <3> QED
      BY <1>7, <3>1
  <2> QED
    BY <1>2, <1>5, <2>1 DEF SlotSeenTo, b, t
<1> QED
  BY <1>1, <1>5, <1>7, <1>8, BesideStep

LEMMA CancelStep ==
  ASSUME IInv, NEW w \in Workers, NEW txn \in Txn, UNCHANGED <<db, started, locks>>,
         txns' = [txns EXCEPT ![w] = txn],
         NEW b \in BookingsOf(db), NEW booking \in Booking, NEW class \in Class,
         booking.status = "CANCELLED", class.status = "CANCELLED",
         class.slot = db[ClassRow(b)].slot,
         txn.writes = Overlay(BookingAndClass(b, booking, class), txns[w].writes),
         Placed(w, txn), txn.stage \in {"RELEASE", "GIVE_BACK"}, txn.booking = b,
         txns[w].stage \notin {"RELEASE", "GIVE_BACK"}
  PROVE  IInv'
<1>1. /\ TypeInv /\ WellFormed(db) /\ IsTable(db) /\ started \subseteq started'
      /\ \A r \in Rows : locks[r] = w => locks'[r] = w
      /\ IsTable(txns[w].writes) /\ Wrote(w, txns[w].writes)
  BY Facts DEF IsTable
<1>2. /\ IsTable(txn.writes) /\ BookingsOf(txn.writes) = BookingsOf(txns[w].writes) \cup {b}
      /\ \A x \in BookingsOf(txns[w].writes) \ {b} :
           txn.writes[ClassRow(x)] = txns[w].writes[ClassRow(x)]
      /\ DOMAIN txns[w].writes \subseteq DOMAIN txn.writes
      /\ Wrote(w, txn.writes)
  BY <1>1, WroteCancelled
<1>3. GivesBack(w, txn)
  <2>1. ASSUME NEW x \in BookingsOf(txn.writes) \cap BookingsOf(db), x # b,
               txn.writes[ClassRow(x)].status = "CANCELLED", db[ClassRow(x)].status # "CANCELLED"
        PROVE  SlotSeenTo(w, txn, x)
    <3>1. SlotSeenTo(w, txns[w], x)
      BY <1>2, <2>1, Facts DEF GivesBack
    <3> QED
      BY <1>2, <3>1 DEF SlotSeenTo
  <2> QED
    BY <2>1 DEF GivesBack
<1>4. Placed(w, txn)' /\ Wrote(w, txn.writes)' /\ GivesBack(w, txn)'
  BY <1>1, <1>2, <1>3, AsBefore
<1>5. \A v \in Workers \ {w} :
        BookingsOf(txns[v].writes) \cap BookingsOf(txn.writes) \subseteq BookingsOf(db)
  BY <1>2 DEF IInv, Apart
<1>6. locks' \in [Rows -> Workers \cup {None}]
  BY <1>1 DEF TypeInv
<1> QED
  BY <1>2, <1>4, <1>5, <1>6, OwnStep

LEMMA CancelBookingStep ==
  ASSUME IInv, NEW w \in Workers, CancelBooking(w)
  PROVE  IInv'
<1> DEFINE b == txns[w].booking
<1>1. /\ txns[w].stage = "CHANGE" /\ MayCancel(w) /\ UNCHANGED <<db, started, locks>>
      /\ Goes(w, "RELEASE", BookingAndClass(b, [db[BookingRow(b)] EXCEPT !.status = "CANCELLED"],
                                               CancelledClass(w)))
  BY DEF CancelBooking, BookingSeen
<1>2. /\ b \in BookingsOf(db) /\ b \in BookingIds
      /\ db[BookingRow(b)] \in Booking /\ db[ClassRow(b)] \in Class
      /\ Agree(db[BookingRow(b)], db[ClassRow(b)])
  BY <1>1, Facts DEF Placed
<1>3. db[ClassRow(b)].status = "SCHEDULED"
  BY <1>1, <1>2 DEF MayCancel, BookingSeen, Agree, Class
<1>4. CancelledClass(w) = [db[ClassRow(b)] EXCEPT !.status = "CANCELLED"]
  BY <1>3 DEF CancelledClass, ClassSeen
<1>5. PICK booking, class :
        /\ booking = [db[BookingRow(b)] EXCEPT !.status = "CANCELLED"]
        /\ class = [db[ClassRow(b)] EXCEPT !.status = "CANCELLED"]
  OBVIOUS
<1>6. /\ booking \in Booking /\ class \in Class
      /\ booking.status = "CANCELLED" /\ class.status = "CANCELLED"
      /\ class.slot = db[ClassRow(b)].slot
  BY <1>2, <1>5 DEF Booking, Class
<1> HIDE DEF b
<1>7. PICK more : more = BookingAndClass(b, booking, class)
  OBVIOUS
<1>8. IsTable(more)
  BY <1>2, <1>6, <1>7, PairTable DEF Agree
<1>9. PICK stage \in Stages : stage = "RELEASE"
  BY DEF Stages
<1>10. Goes(w, stage, more)
  BY <1>1, <1>4, <1>5, <1>7, <1>9
<1>11. PICK txn \in Txn :
         /\ txns' = [txns EXCEPT ![w] = txn]
         /\ txn = [txns[w] EXCEPT !.stage = stage, !.writes = Overlay(more, txns[w].writes)]
         /\ IsTable(txn.writes)
  BY <1>8, <1>10, Going
<1>12. /\ txn.writes = Overlay(more, txns[w].writes) /\ txn.stage = "RELEASE" /\ txn.booking = b
       /\ txn.begun = txns[w].begun /\ txn.todo = txns[w].todo
       /\ txn.student = txns[w].student /\ txn.slot = txns[w].slot /\ txn.kind = txns[w].kind
  BY <1>9, <1>11, Facts DEF Txn, b
<1>13. Placed(w, txn)
  BY <1>1, <1>2, <1>12, Facts DEF Placed, b
<1>14. /\ UNCHANGED <<db, started, locks>> /\ txns' = [txns EXCEPT ![w] = txn]
       /\ txn.writes = Overlay(BookingAndClass(b, booking, class), txns[w].writes)
       /\ txn.stage \in {"RELEASE", "GIVE_BACK"}
       /\ txns[w].stage \notin {"RELEASE", "GIVE_BACK"}
  BY <1>1, <1>7, <1>11, <1>12
<1> QED
  BY <1>2, <1>6, <1>12, <1>13, <1>14, CancelStep

LEMMA WithdrawBookingStep ==
  ASSUME IInv, NEW w \in Workers, WithdrawBooking(w)
  PROVE  IInv'
<1>1. PICK b \in txns[w].todo :
        /\ txns[w].stage = "WITHDRAW" /\ UNCHANGED <<db, started, locks>>
        /\ txns' = [txns EXCEPT ![w].stage = "GIVE_BACK", ![w].booking = b, ![w].writes =
             Overlay(BookingAndClass(b, [db[BookingRow(b)] EXCEPT !.status = "CANCELLED"],
                                        [db[ClassRow(b)] EXCEPT !.status = "CANCELLED"]), @)]
  BY DEF WithdrawBooking
<1>2. /\ b \in BookingsOf(db) /\ b \in BookingIds
      /\ db[BookingRow(b)] \in Booking /\ db[ClassRow(b)] \in Class
  BY <1>1, Facts DEF Placed
<1>3. PICK booking, class :
        /\ booking = [db[BookingRow(b)] EXCEPT !.status = "CANCELLED"]
        /\ class = [db[ClassRow(b)] EXCEPT !.status = "CANCELLED"]
  OBVIOUS
<1>4. /\ booking \in Booking /\ class \in Class
      /\ booking.status = "CANCELLED" /\ class.status = "CANCELLED"
      /\ class.slot = db[ClassRow(b)].slot
  BY <1>2, <1>3 DEF Booking, Class
<1>5. PICK more : more = BookingAndClass(b, booking, class)
  OBVIOUS
<1>6. IsTable(more)
  BY <1>2, <1>4, <1>5, PairTable DEF Agree
<1>7. PICK txn : txn = [txns[w] EXCEPT !.stage = "GIVE_BACK", !.booking = b,
                                      !.writes = Overlay(more, @)]
  OBVIOUS
<1>8. txns' = [txns EXCEPT ![w] = txn]
  BY <1>1, <1>3, <1>5, <1>7
<1>9. IsTable(Overlay(more, txns[w].writes))
  BY <1>6, Facts, OverlayTable
<1>10. /\ txn \in Txn
       /\ txn.writes = Overlay(more, txns[w].writes) /\ txn.stage = "GIVE_BACK" /\ txn.booking = b
       /\ txn.begun = txns[w].begun /\ txn.todo = txns[w].todo
       /\ txn.student = txns[w].student /\ txn.slot = txns[w].slot /\ txn.kind = txns[w].kind
  BY <1>2, <1>7, <1>9, Facts DEF Txn, Stages, IsTable
<1>11. Placed(w, txn)
  BY <1>1, <1>2, <1>10, Facts DEF Placed
<1> QED
  BY <1>1, <1>2, <1>4, <1>5, <1>8, <1>10, <1>11, CancelStep

(* Attendance is taken in a class that is locked, by a request that has written
   nothing else. *)
LEMMA MarkAttendanceStep ==
  ASSUME IInv, NEW w \in Workers, MarkAttendance(w)
  PROVE  IInv'
<1> DEFINE b == txns[w].booking
<1>1. /\ txns[w].stage = "CHANGE" /\ MayMark(w) /\ UNCHANGED <<db, started, locks>>
      /\ GoesToCommit(w, BookingAndClass(b, [db[BookingRow(b)] EXCEPT !.status = "ATTENDED"],
                                            [db[ClassRow(b)] EXCEPT !.status = "COMPLETED"]))
  BY DEF MarkAttendance, BookingSeen, ClassSeen
<1>2. /\ b \in BookingsOf(db) /\ b \in BookingIds
      /\ db[BookingRow(b)] \in Booking /\ db[ClassRow(b)] \in Class
      /\ locks[ClassRow(b)] = w /\ DOMAIN txns[w].writes = {}
  BY <1>1, Facts DEF Placed
<1>3. db[ClassRow(b)].status # "CANCELLED"
  BY <1>1 DEF MayMark, ClassSeen
<1>4. PICK booking, class :
        /\ booking = [db[BookingRow(b)] EXCEPT !.status = "ATTENDED"]
        /\ class = [db[ClassRow(b)] EXCEPT !.status = "COMPLETED"]
  OBVIOUS
<1>5. /\ booking \in Booking /\ class \in Class
      /\ booking.status = "ATTENDED" /\ class.status = "COMPLETED"
      /\ class.slot = db[ClassRow(b)].slot
  BY <1>2, <1>4 DEF Booking, Class
<1> HIDE DEF b
<1>6. PICK more : more = BookingAndClass(b, booking, class)
  OBVIOUS
<1>7. /\ IsTable(more) /\ BookingsOf(more) = {b}
      /\ DOMAIN more = {BookingRow(b), ClassRow(b)} /\ more[ClassRow(b)] = class
  BY <1>2, <1>5, <1>6, PairTable DEF Agree
<1>8. PICK txn \in Txn :
        /\ txns' = [txns EXCEPT ![w] = txn]
        /\ txn = [Request(txns[w].kind, "COMMIT") EXCEPT !.writes = Overlay(more, txns[w].writes)]
        /\ IsTable(txn.writes)
  <2>1. GoesToCommit(w, more)
    BY <1>1, <1>4, <1>6
  <2> QED
    BY <1>7, <2>1, GoingToCommit
<1>9. /\ txn.writes = Overlay(more, txns[w].writes) /\ txn.stage = "COMMIT"
      /\ txn.kind = txns[w].kind /\ txn.begun = {} /\ txn.todo = {}
  BY <1>8 DEF Request, Idle
<1>10. /\ BookingsOf(txn.writes) = {b} /\ txn.writes[ClassRow(b)] = class
       /\ \A t : SlotRow(t) \notin DOMAIN txn.writes
  <2>1. /\ DOMAIN Overlay(more, txns[w].writes) = DOMAIN txns[w].writes \cup DOMAIN more
        /\ \A r \in DOMAIN more : Overlay(more, txns[w].writes)[r] = more[r]
    BY Overlays
  <2>2. DOMAIN txn.writes = DOMAIN more /\ \A r \in DOMAIN more : txn.writes[r] = more[r]
    BY <1>2, <1>9, <2>1
  <2>3. BookingsOf(txn.writes) = BookingsOf(more)
    BY <2>2 DEF BookingsOf
  <2> QED
    BY <1>7, <2>2, <2>3, RowsApart
<1>11. Placed(w, txn)
  BY <1>9 DEF Placed
<1>12. Wrote(w, txn.writes)
  BY <1>2, <1>3, <1>5, <1>10 DEF Wrote
<1>13. GivesBack(w, txn)
  BY <1>5, <1>10 DEF GivesBack
<1>14. /\ TypeInv /\ WellFormed(db) /\ started \subseteq started'
       /\ \A r \in Rows : locks[r] = w => locks'[r] = w
       /\ locks' \in [Rows -> Workers \cup {None}]
  BY <1>1 DEF IInv, TypeInv
<1>15. Placed(w, txn)' /\ Wrote(w, txn.writes)' /\ GivesBack(w, txn)'
  BY <1>1, <1>8, <1>11, <1>12, <1>13, <1>14, AsBefore
<1>16. \A v \in Workers \ {w} :
         BookingsOf(txns[v].writes) \cap BookingsOf(txn.writes) \subseteq BookingsOf(db)
  BY <1>2, <1>10
<1> QED
  BY <1>1, <1>8, <1>14, <1>15, <1>16, OwnStep

(* Writing a new class for a locked slot that has none. *)
LEMMA WroteInserted ==
  ASSUME IsTable(db), NEW w, NEW writes, IsTable(writes), Wrote(w, writes),
         NEW b \in BookingIds, b \notin BookingsOf(writes), b \notin BookingsOf(db),
         NEW t \in SlotIds, locks[SlotRow(t)] = w, LiveClassesOf(Overlay(writes, db), t) = {},
         NEW more, IsTable(more), BookingsOf(more) = {b},
         more[ClassRow(b)].slot = t, more[ClassRow(b)].status # "CANCELLED",
         \A x \in SlotIds : SlotRow(x) \in DOMAIN more => x = t,
         NEW new, new = Overlay(more, writes)
  PROVE  /\ IsTable(new) /\ BookingsOf(new) = BookingsOf(writes) \cup {b}
         /\ \A x \in BookingsOf(writes) : new[ClassRow(x)] = writes[ClassRow(x)]
         /\ DOMAIN writes \subseteq DOMAIN new
         /\ Wrote(w, new)
<1>1. /\ DOMAIN new = DOMAIN writes \cup DOMAIN more
      /\ \A r \in DOMAIN more : new[r] = more[r]
      /\ \A r \in DOMAIN writes \ DOMAIN more : new[r] = writes[r]
  <2>1. /\ DOMAIN Overlay(more, writes) = DOMAIN writes \cup DOMAIN more
        /\ \A r \in DOMAIN more : Overlay(more, writes)[r] = more[r]
        /\ \A r \in DOMAIN writes \ DOMAIN more : Overlay(more, writes)[r] = writes[r]
    BY DEF Overlay
  <2> QED
    BY <2>1
<1>2. IsTable(new) /\ BookingsOf(new) = BookingsOf(writes) \cup {b}
  BY OverlayTable
<1>3. /\ \A x \in BookingsOf(writes) : ClassRow(x) \in DOMAIN writes \ DOMAIN more
      /\ ClassRow(b) \in DOMAIN more
  BY DEF BookingsOf, IsTable, WellFormed
<1>4. /\ \A x \in BookingsOf(writes) : new[ClassRow(x)] = writes[ClassRow(x)]
      /\ new[ClassRow(b)] = more[ClassRow(b)]
  BY <1>1, <1>3
<1>5. \A y \in SlotIds : LiveClassesOf(Overlay(new, db), y) \subseteq
                           IF y = t THEN {b} ELSE LiveClassesOf(Overlay(writes, db), y)
  <2> SUFFICES ASSUME NEW y \in SlotIds, NEW x \in LiveClassesOf(Overlay(new, db), y), x # b
               PROVE  x \in LiveClassesOf(Overlay(writes, db), y)
    <3>1. ASSUME NEW y \in SlotIds, b \in LiveClassesOf(Overlay(new, db), y) PROVE y = t
      BY <1>2, <1>4, <3>1, LiveInOverlay
    <3> QED
      BY <3>1
  <2>1. \/ /\ x \in BookingsOf(new)
           /\ new[ClassRow(x)].slot = y /\ new[ClassRow(x)].status # "CANCELLED"
        \/ /\ x \in BookingsOf(db) \ BookingsOf(new)
           /\ db[ClassRow(x)].slot = y /\ db[ClassRow(x)].status # "CANCELLED"
    BY <1>2, LiveInOverlay
  <2>2. \/ /\ x \in BookingsOf(writes)
           /\ writes[ClassRow(x)].slot = y /\ writes[ClassRow(x)].status # "CANCELLED"
        \/ /\ x \in BookingsOf(db) \ BookingsOf(writes)
           /\ db[ClassRow(x)].slot = y /\ db[ClassRow(x)].status # "CANCELLED"
    BY <1>2, <1>4, <2>1
  <2> QED
    BY <2>2, LiveInOverlay
<1>6. \A x \in BookingsOf(writes) : writes[ClassRow(x)].slot \in SlotIds
  BY DEF BookingsOf, IsTable, WellFormed, Class
<1>7. Wrote(w, new)
  <2>1. \A x \in BookingsOf(new) \cap BookingsOf(db) :
          /\ new[ClassRow(x)].slot = db[ClassRow(x)].slot
          /\ new[ClassRow(x)].status # "CANCELLED" =>
               locks[ClassRow(x)] = w /\ db[ClassRow(x)].status # "CANCELLED"
    BY <1>2, <1>4 DEF Wrote
  <2>2. \A x \in BookingsOf(new) \ BookingsOf(db) :
          /\ new[ClassRow(x)].status # "CANCELLED"
          /\ locks[SlotRow(new[ClassRow(x)].slot)] = w
          /\ \A c \in LiveClassesOf(Overlay(new, db), new[ClassRow(x)].slot) : c = x
    <3> SUFFICES ASSUME NEW x \in BookingsOf(new) \ BookingsOf(db)
                 PROVE  /\ new[ClassRow(x)].status # "CANCELLED"
                        /\ locks[SlotRow(new[ClassRow(x)].slot)] = w
                        /\ \A c \in LiveClassesOf(Overlay(new, db), new[ClassRow(x)].slot) : c = x
      OBVIOUS
    <3>1. CASE x = b
      BY <1>4, <1>5, <3>1
    <3>2. CASE x \in BookingsOf(writes)
      <4>1. x \in LiveClassesOf(Overlay(writes, db), writes[ClassRow(x)].slot)
        BY <3>2, LiveInOverlay DEF Wrote
      <4>2. writes[ClassRow(x)].slot # t
        BY <4>1
      <4> QED
        BY <1>4, <1>5, <1>6, <3>2, <4>2 DEF Wrote
    <3> QED
      BY <1>2, <3>1, <3>2
  <2>3. \A y \in SlotIds :
          SlotRow(y) \in DOMAIN new /\ new[SlotRow(y)] = "BOOKED" =>
            \E x \in BookingsOf(new) \ BookingsOf(db) : new[ClassRow(x)].slot = y
    <3> SUFFICES ASSUME NEW y \in SlotIds, SlotRow(y) \in DOMAIN new, new[SlotRow(y)] = "BOOKED"
                 PROVE  \E x \in BookingsOf(new) \ BookingsOf(db) : new[ClassRow(x)].slot = y
      OBVIOUS
    <3>1. CASE y = t
      BY <1>2, <1>4, <3>1
    <3>2. CASE y # t
      <4>1. SlotRow(y) \in DOMAIN writes /\ writes[SlotRow(y)] = "BOOKED"
        BY <1>1, <3>2
      <4>2. PICK x \in BookingsOf(writes) \ BookingsOf(db) : writes[ClassRow(x)].slot = y
        BY <4>1 DEF Wrote
      <4> QED
        BY <1>2, <1>4, <4>2
    <3> QED
      BY <3>1, <3>2
  <2> QED
    BY <2>1, <2>2, <2>3 DEF Wrote
<1> QED
  BY <1>1, <1>2, <1>4, <1>7

LEMMA InsertBookingStep ==
  ASSUME IInv, NEW w \in Workers, InsertBooking(w)
  PROVE  IInv'
<1> DEFINE b == CHOOSE x \in BookingIds : x \notin KeysInUse
           t == txns[w].slot
           st == txns[w].student
<1>1. /\ txns[w].stage = "INSERT" /\ MayBook(w) /\ UNCHANGED <<db, started, locks>>
      /\ GoesToCommit(w, Overlay(BookingAndClass(b, [student |-> st, status |-> "BOOKED"],
                                                    [slot |-> t, status |-> "SCHEDULED"]),
                                 OneRow(SlotRow(t), "BOOKED")))
  BY DEF InsertBooking
<1>2. b \in BookingIds /\ b \notin KeysInUse
  BY DEF InsertBooking
<1>3. /\ b \notin BookingsOf(db)
      /\ \A v \in Workers : b \notin BookingsOf(txns[v].writes)
  BY <1>2 DEF KeysInUse, BookingsOf
<1>4. st \in StudentIds /\ t \in SlotIds /\ locks[SlotRow(t)] = w
  BY <1>1, Facts DEF Placed
<1>5. LiveClassesOf(Overlay(txns[w].writes, db), t) = {}
  BY <1>1 DEF MayBook, NoActiveSessionForSlot, Seen
<1> HIDE DEF b, t, st
<1>6. PICK booking, class : /\ booking = [student |-> st, status |-> "BOOKED"]
                            /\ class = [slot |-> t, status |-> "SCHEDULED"]
  OBVIOUS
<1>7. /\ booking \in Booking /\ class \in Class /\ Agree(booking, class)
      /\ class.slot = t /\ class.status # "CANCELLED"
  BY <1>4, <1>6 DEF Booking, Class, Agree
<1>8. PICK pair, one : /\ pair = BookingAndClass(b, booking, class)
                       /\ one = OneRow(SlotRow(t), "BOOKED")
  OBVIOUS
<1>9. /\ IsTable(pair) /\ BookingsOf(pair) = {b}
      /\ DOMAIN pair = {BookingRow(b), ClassRow(b)} /\ pair[ClassRow(b)] = class
  BY <1>2, <1>7, <1>8, PairTable
<1>10. IsTable(one) /\ BookingsOf(one) = {} /\ DOMAIN one = {SlotRow(t)}
  <2>1. PICK status \in SlotStatuses : status = "BOOKED"
    BY DEF SlotStatuses, TakenStatuses
  <2>2. /\ IsTable(OneRow(SlotRow(t), status)) /\ BookingsOf(OneRow(SlotRow(t), status)) = {}
        /\ DOMAIN OneRow(SlotRow(t), status) = {SlotRow(t)}
    BY <1>4, SlotTable
  <2> QED
    BY <1>8, <2>1, <2>2
<1>11. PICK more : more = Overlay(pair, one)
  OBVIOUS
<1>12. /\ IsTable(more) /\ BookingsOf(more) = {b} /\ more[ClassRow(b)] = class
       /\ \A x \in SlotIds : SlotRow(x) \in DOMAIN more => x = t
  <2>1. /\ DOMAIN Overlay(pair, one) = DOMAIN one \cup DOMAIN pair
        /\ \A r \in DOMAIN pair : Overlay(pair, one)[r] = pair[r]
    BY Overlays
  <2>2. IsTable(Overlay(pair, one)) /\ BookingsOf(Overlay(pair, one)) = {b}
    BY <1>9, <1>10, OverlayTable
  <2> QED
    BY <1>9, <1>10, <1>11, <2>1, <2>2, RowsApart
<1>13. PICK txn \in Txn :
         /\ txns' = [txns EXCEPT ![w] = txn]
         /\ txn = [Request(txns[w].kind, "COMMIT") EXCEPT !.writes = Overlay(more, txns[w].writes)]
         /\ IsTable(txn.writes)
  <2>1. GoesToCommit(w, more)
    BY <1>1, <1>6, <1>8, <1>11
  <2> QED
    BY <1>12, <2>1, GoingToCommit
<1>14. /\ txn.writes = Overlay(more, txns[w].writes) /\ txn.stage = "COMMIT"
       /\ txn.kind = txns[w].kind /\ txn.begun = {} /\ txn.todo = {}
  BY <1>13 DEF Request, Idle
<1>15. /\ BookingsOf(txn.writes) = BookingsOf(txns[w].writes) \cup {b}
       /\ \A x \in BookingsOf(txns[w].writes) :
            txn.writes[ClassRow(x)] = txns[w].writes[ClassRow(x)]
       /\ DOMAIN txns[w].writes \subseteq DOMAIN txn.writes
       /\ Wrote(w, txn.writes)
  <2>1. IsTable(db) /\ IsTable(txns[w].writes) /\ Wrote(w, txns[w].writes)
    BY Facts
  <2>2. more[ClassRow(b)].slot = t /\ more[ClassRow(b)].status # "CANCELLED"
    BY <1>7, <1>12
  <2> QED
    BY <1>2, <1>3, <1>4, <1>5, <1>12, <1>14, <2>1, <2>2, WroteInserted
<1>16. Placed(w, txn)
  BY <1>14 DEF Placed
<1>17. GivesBack(w, txn)
  <2>1. ASSUME NEW x \in BookingsOf(txn.writes) \cap BookingsOf(db),
               txn.writes[ClassRow(x)].status = "CANCELLED", db[ClassRow(x)].status # "CANCELLED"
        PROVE  SlotSeenTo(w, txn, x)
    <3>1. SlotSeenTo(w, txns[w], x)
      BY <1>1, <1>3, <1>15, <2>1, Facts DEF GivesBack
    <3> QED
      BY <1>15, <3>1 DEF SlotSeenTo
  <2> QED
    BY <2>1 DEF GivesBack
<1>18. /\ TypeInv /\ WellFormed(db) /\ started \subseteq started'
       /\ \A r \in Rows : locks[r] = w => locks'[r] = w
       /\ locks' \in [Rows -> Workers \cup {None}]
  BY <1>1 DEF IInv, TypeInv
<1>19. Placed(w, txn)' /\ Wrote(w, txn.writes)' /\ GivesBack(w, txn)'
  BY <1>1, <1>13, <1>15, <1>16, <1>17, <1>18, AsBefore
<1>20. \A v \in Workers \ {w} :
         BookingsOf(txns[v].writes) \cap BookingsOf(txn.writes) \subseteq BookingsOf(db)
  BY <1>3, <1>15 DEF IInv, Apart
<1> QED
  BY <1>1, <1>13, <1>18, <1>19, <1>20, OwnStep

-----------------------------------------------------------------------------
(* The commit. *)

(* What is committed differs from what was only in rows that are locked and in
   classes that are new. *)
LEMMA Committed ==
  ASSUME IInv, NEW w \in Workers, Commit(w),
         NEW writes, writes = txns[w].writes, NEW new, new = Overlay(writes, db)
  PROVE  /\ db' = new /\ started' = started
         /\ IsTable(new) /\ BookingsOf(new) = BookingsOf(writes) \cup BookingsOf(db)
         /\ DOMAIN db \subseteq DOMAIN new
         /\ \A r \in DOMAIN db, v \in Workers \ {w} :
              locks[r] = v => r \notin DOMAIN writes /\ new[r] = db[r]
         /\ \A b \in BookingsOf(db) :
              /\ new[ClassRow(b)].slot = db[ClassRow(b)].slot
              /\ new[ClassRow(b)].status # "CANCELLED" => db[ClassRow(b)].status # "CANCELLED"
              /\ b \notin BookingsOf(writes) => new[ClassRow(b)] = db[ClassRow(b)]
         /\ \A b \in BookingsOf(writes) : new[ClassRow(b)] = writes[ClassRow(b)]
         /\ \A b \in BookingsOf(writes) \ BookingsOf(db) :
              /\ writes[ClassRow(b)].slot \in SlotIds
              /\ locks[SlotRow(writes[ClassRow(b)].slot)] = w
              /\ LiveClassesOf(new, writes[ClassRow(b)].slot) = {b}
         /\ \A t \in SlotIds :
              \/ SlotRow(t) \notin DOMAIN writes /\ new[SlotRow(t)] = db[SlotRow(t)]
              \/ SlotRow(t) \in DOMAIN writes /\ new[SlotRow(t)] = writes[SlotRow(t)]
<1>1. db' = new /\ started' = started
  BY DEF Commit, Seen
<1>2. /\ IsTable(db) /\ IsTable(writes) /\ Wrote(w, writes) /\ TypeInv
  BY Facts
<1>3. \A r \in DOMAIN writes \cap DOMAIN db : locks[r] = w
  BY DEF Commit, Flushed, Unflushed
<1>4. /\ DOMAIN new = DOMAIN db \cup DOMAIN writes
      /\ \A r \in DOMAIN writes : new[r] = writes[r]
      /\ \A r \in DOMAIN db \ DOMAIN writes : new[r] = db[r]
  BY DEF Overlay
<1>5. IsTable(new) /\ BookingsOf(new) = BookingsOf(writes) \cup BookingsOf(db)
  BY <1>2, OverlayTable
<1>6. \A r \in DOMAIN db, v \in Workers \ {w} :
        locks[r] = v => r \notin DOMAIN writes /\ new[r] = db[r]
  BY <1>3, <1>4
<1>7. /\ \A b \in BookingsOf(writes) : ClassRow(b) \in DOMAIN writes
      /\ \A b \in BookingsOf(db) \ BookingsOf(writes) : ClassRow(b) \in DOMAIN db \ DOMAIN writes
  BY <1>2 DEF BookingsOf, IsTable, WellFormed
<1>8. /\ \A b \in BookingsOf(writes) : new[ClassRow(b)] = writes[ClassRow(b)]
      /\ \A b \in BookingsOf(db) \ BookingsOf(writes) : new[ClassRow(b)] = db[ClassRow(b)]
  BY <1>4, <1>7
<1>9. \A b \in BookingsOf(db) :
        /\ new[ClassRow(b)].slot = db[ClassRow(b)].slot
        /\ new[ClassRow(b)].status # "CANCELLED" => db[ClassRow(b)].status # "CANCELLED"
  BY <1>2, <1>8 DEF Wrote
<1>10. ASSUME NEW b \in BookingsOf(writes) \ BookingsOf(db)
       PROVE  /\ writes[ClassRow(b)].slot \in SlotIds
              /\ locks[SlotRow(writes[ClassRow(b)].slot)] = w
              /\ LiveClassesOf(new, writes[ClassRow(b)].slot) = {b}
  <2>1. writes[ClassRow(b)].slot \in SlotIds
    BY <1>2 DEF BookingsOf, IsTable, WellFormed, Class
  <2>2. /\ writes[ClassRow(b)].status # "CANCELLED"
        /\ locks[SlotRow(writes[ClassRow(b)].slot)] = w
        /\ \A c \in LiveClassesOf(new, writes[ClassRow(b)].slot) : c = b
    BY <1>2 DEF Wrote
  <2>3. b \in LiveClassesOf(new, writes[ClassRow(b)].slot)
    BY <1>5, <1>8, <2>2 DEF LiveClassesOf
  <2> QED
    BY <2>1, <2>2, <2>3
<1>11. \A t \in SlotIds :
         \/ SlotRow(t) \notin DOMAIN writes /\ new[SlotRow(t)] = db[SlotRow(t)]
         \/ SlotRow(t) \in DOMAIN writes /\ new[SlotRow(t)] = writes[SlotRow(t)]
  BY <1>2, <1>4 DEF TypeInv
<1> QED
  BY <1>1, <1>4, <1>5, <1>6, <1>8, <1>9, <1>10, <1>11

(* What another transaction has behind it stays true. *)
LEMMA OthersKeep ==
  ASSUME IInv, NEW w \in Workers, Commit(w), NEW v \in Workers, v # w,
         NEW txn, txn = txns[v]
  PROVE  Placed(v, txn)' /\ Wrote(v, txn.writes)' /\ GivesBack(v, txn)'
<1>1. PICK writes, new : writes = txns[w].writes /\ new = Overlay(writes, db)
  OBVIOUS
<1>2. /\ db' = new /\ started' = started
      /\ IsTable(new) /\ BookingsOf(new) = BookingsOf(writes) \cup BookingsOf(db)
      /\ DOMAIN db \subseteq DOMAIN new
      /\ \A r \in DOMAIN db, u \in Workers \ {w} :
           locks[r] = u => r \notin DOMAIN writes /\ new[r] = db[r]
      /\ \A b \in BookingsOf(db) :
           /\ new[ClassRow(b)].slot = db[ClassRow(b)].slot
           /\ new[ClassRow(b)].status # "CANCELLED" => db[ClassRow(b)].status # "CANCELLED"
           /\ b \notin BookingsOf(writes) => new[ClassRow(b)] = db[ClassRow(b)]
      /\ \A b \in BookingsOf(writes) : new[ClassRow(b)] = writes[ClassRow(b)]
      /\ \A b \in BookingsOf(writes) \ BookingsOf(db) :
           /\ writes[ClassRow(b)].slot \in SlotIds
           /\ locks[SlotRow(writes[ClassRow(b)].slot)] = w
           /\ LiveClassesOf(new, writes[ClassRow(b)].slot) = {b}
      /\ \A t \in SlotIds :
           \/ SlotRow(t) \notin DOMAIN writes /\ new[SlotRow(t)] = db[SlotRow(t)]
           \/ SlotRow(t) \in DOMAIN writes /\ new[SlotRow(t)] = writes[SlotRow(t)]
  BY <1>1, Committed
<1>3. /\ TypeInv /\ IsTable(db) /\ IsTable(txn.writes) /\ IsTable(writes)
      /\ Placed(v, txn) /\ Wrote(v, txn.writes) /\ GivesBack(v, txn) /\ Wrote(w, writes)
  BY <1>1, Facts
<1>4. \A r \in Rows : locks[r] = v => locks'[r] = v
  BY DEF Commit, End
<1>5. \A b \in BookingsOf(db) : ClassRow(b) \in DOMAIN db /\ ClassRow(b) \in Rows
  BY <1>3, AreRows DEF BookingsOf, IsTable, WellFormed
<1>6. BookingsOf(txn.writes) \cap BookingsOf(new) = BookingsOf(txn.writes) \cap BookingsOf(db)
  BY <1>1, <1>2 DEF IInv, Apart
<1>7. Placed(v, txn)'
  <2>1. txn.stage \in {"CHANGE", "RELEASE"} => locks'[ClassRow(txn.booking)] = v
    BY <1>3, <1>4, <1>5 DEF Placed
  <2>2. txn.stage = "INSERT" => locks'[SlotRow(txn.slot)] = v
    BY <1>3, <1>4, AreRows DEF Placed
  <2> QED
    BY <1>2, <1>3, <2>1, <2>2 DEF Placed
<1>8. Wrote(v, txn.writes)'
  <2>1. \A b \in BookingsOf(txn.writes) \cap BookingsOf(new) :
          /\ txn.writes[ClassRow(b)].slot = new[ClassRow(b)].slot
          /\ txn.writes[ClassRow(b)].status # "CANCELLED" =>
               locks'[ClassRow(b)] = v /\ new[ClassRow(b)].status # "CANCELLED"
    BY <1>2, <1>3, <1>4, <1>5, <1>6 DEF Wrote
  <2>2. ASSUME NEW b \in BookingsOf(txn.writes) \ BookingsOf(new)
        PROVE  /\ txn.writes[ClassRow(b)].status # "CANCELLED"
               /\ locks'[SlotRow(txn.writes[ClassRow(b)].slot)] = v
               /\ \A c \in LiveClassesOf(Overlay(txn.writes, new), txn.writes[ClassRow(b)].slot) :
                    c = b
    <3> DEFINE t == txn.writes[ClassRow(b)].slot
    <3>1. /\ txn.writes[ClassRow(b)].status # "CANCELLED" /\ locks[SlotRow(t)] = v
          /\ \A c \in LiveClassesOf(Overlay(txn.writes, db), t) : c = b
      BY <1>2, <1>3 DEF Wrote
    <3>2. t \in SlotIds
      BY <1>3 DEF BookingsOf, IsTable, WellFormed, Class
    <3>3. locks'[SlotRow(t)] = v
      BY <1>4, <3>1, <3>2, AreRows
    <3> HIDE DEF t
    <3>4. ASSUME NEW c \in LiveClassesOf(Overlay(txn.writes, new), t) PROVE c = b
      <4>1. \/ /\ c \in BookingsOf(txn.writes)
               /\ txn.writes[ClassRow(c)].slot = t /\ txn.writes[ClassRow(c)].status # "CANCELLED"
            \/ /\ c \in BookingsOf(new) \ BookingsOf(txn.writes)
               /\ new[ClassRow(c)].slot = t /\ new[ClassRow(c)].status # "CANCELLED"
        BY <1>2, <1>3, LiveInOverlay
      <4>2. CASE c \in BookingsOf(txn.writes) \/ c \in BookingsOf(db)
        <5>1. c \in LiveClassesOf(Overlay(txn.writes, db), t)
          BY <1>2, <1>3, <4>1, <4>2, LiveInOverlay
        <5> QED
          BY <3>1, <5>1
      <4>3. CASE c \in BookingsOf(writes) \ BookingsOf(db) /\ c \notin BookingsOf(txn.writes)
        BY <1>2, <3>1, <4>1, <4>3
      <4> QED
        BY <1>2, <4>1, <4>2, <4>3
    <3> QED
      BY <3>1, <3>3, <3>4 DEF t
  <2>3. \A t \in SlotIds :
          SlotRow(t) \in DOMAIN txn.writes /\ txn.writes[SlotRow(t)] = "BOOKED" =>
            \E b \in BookingsOf(txn.writes) \ BookingsOf(new) : txn.writes[ClassRow(b)].slot = t
    BY <1>3, <1>6 DEF Wrote
  <2> QED
    BY <1>2, <2>1, <2>2, <2>3 DEF Wrote
<1>9. GivesBack(v, txn)'
  <2>1. ASSUME NEW b \in BookingsOf(txn.writes) \cap BookingsOf(new),
               txn.writes[ClassRow(b)].status = "CANCELLED", new[ClassRow(b)].status # "CANCELLED",
               ~(txn.stage \in {"RELEASE", "GIVE_BACK"} /\ txn.booking = b)
        PROVE  SlotSeenTo(v, txn, b)'
    <3> DEFINE t == db[ClassRow(b)].slot
    <3>1. b \in BookingsOf(db) /\ db[ClassRow(b)].status # "CANCELLED" /\ t \in SlotIds
      BY <1>2, <1>6, <2>1, Facts DEF Class
    <3>2. SlotSeenTo(v, txn, b)
      BY <1>3, <2>1, <3>1 DEF GivesBack
    <3>3. locks[ClassRow(b)] = v /\ locks'[ClassRow(b)] = v
      BY <1>4, <1>5, <3>1, <3>2 DEF SlotSeenTo
    <3>4. new[ClassRow(b)] = db[ClassRow(b)] /\ b \notin BookingsOf(writes)
      BY <1>2, <1>3, <1>5, <3>1, <3>3 DEF BookingsOf, IsTable, WellFormed
    <3>5. new[SlotRow(t)] = "BOOKED" => db[SlotRow(t)] = "BOOKED"
      <4> SUFFICES ASSUME new[SlotRow(t)] = "BOOKED", SlotRow(t) \in DOMAIN writes PROVE FALSE
        BY <1>2, <3>1
      <4>1. PICK c \in BookingsOf(writes) \ BookingsOf(db) : writes[ClassRow(c)].slot = t
        BY <1>2, <1>3, <3>1 DEF Wrote
      <4>2. b \in LiveClassesOf(new, t)
        BY <1>2, <2>1, <3>1, <3>4 DEF LiveClassesOf
      <4> QED
        BY <1>2, <3>1, <4>1, <4>2
    <3> QED
      BY <1>2, <3>2, <3>3, <3>4, <3>5 DEF SlotSeenTo
  <2> QED
    BY <1>2, <2>1 DEF GivesBack
<1> QED
  BY <1>7, <1>8, <1>9

LEMMA CommitStep ==
  ASSUME IInv, NEW w \in Workers, Commit(w)
  PROVE  IInv'
<1>1. PICK writes, new : writes = txns[w].writes /\ new = Overlay(writes, db)
  OBVIOUS
<1>2. /\ db' = new /\ started' = started
      /\ IsTable(new) /\ BookingsOf(new) = BookingsOf(writes) \cup BookingsOf(db)
      /\ DOMAIN db \subseteq DOMAIN new
      /\ \A b \in BookingsOf(db) :
           /\ new[ClassRow(b)].slot = db[ClassRow(b)].slot
           /\ new[ClassRow(b)].status # "CANCELLED" => db[ClassRow(b)].status # "CANCELLED"
           /\ b \notin BookingsOf(writes) => new[ClassRow(b)] = db[ClassRow(b)]
      /\ \A b \in BookingsOf(writes) : new[ClassRow(b)] = writes[ClassRow(b)]
      /\ \A b \in BookingsOf(writes) \ BookingsOf(db) :
           /\ writes[ClassRow(b)].slot \in SlotIds
           /\ LiveClassesOf(new, writes[ClassRow(b)].slot) = {b}
      /\ \A t \in SlotIds :
           \/ SlotRow(t) \notin DOMAIN writes /\ new[SlotRow(t)] = db[SlotRow(t)]
           \/ SlotRow(t) \in DOMAIN writes /\ new[SlotRow(t)] = writes[SlotRow(t)]
  BY <1>1, Committed
<1>3. /\ TypeInv /\ IsTable(db) /\ OneClassPerSlot(db) /\ NoSlotStranded
      /\ Wrote(w, writes) /\ GivesBack(w, txns[w])
  BY <1>1, Facts
<1>4. txns' = [txns EXCEPT ![w] = Idle] /\ txns[w].stage = "COMMIT"
  BY DEF Commit, End
<1>5. /\ locks' \in [Rows -> Workers \cup {None}]
      /\ txns' \in [Workers -> Txn]
      /\ txns'[w] = Idle /\ \A v \in Workers \ {w} : txns'[v] = txns[v]
  BY <1>3, <1>4, IdleIsTxn DEF Commit, End, TypeInv
<1>6. TypeInv'
  BY <1>2, <1>3, <1>5 DEF TypeInv, IsTable
<1>7. \A b \in BookingsOf(db) : \A t \in SlotIds :
        b \in LiveClassesOf(new, t) => b \in LiveClassesOf(db, t)
  BY <1>2 DEF LiveClassesOf
<1>8. OneClassPerSlot(new)
  <2> SUFFICES ASSUME NEW t \in SlotIds, NEW b \in LiveClassesOf(new, t),
                      NEW c \in LiveClassesOf(new, t)
               PROVE  b = c
    BY DEF OneClassPerSlot
  <2>1. /\ b \in BookingsOf(new) /\ new[ClassRow(b)].slot = t
        /\ c \in BookingsOf(new) /\ new[ClassRow(c)].slot = t
    BY DEF LiveClassesOf
  <2>2. CASE b \notin BookingsOf(db)
    BY <1>2, <2>1, <2>2
  <2>3. CASE c \notin BookingsOf(db)
    BY <1>2, <2>1, <2>3
  <2>4. CASE b \in BookingsOf(db) /\ c \in BookingsOf(db)
    BY <1>3, <1>7, <2>4 DEF OneClassPerSlot
  <2> QED
    BY <2>2, <2>3, <2>4
<1>9. NoSlotStranded'
  <2> SUFFICES ASSUME NEW t \in SlotIds \ started, new[SlotRow(t)] = "BOOKED",
                      LiveClassesOf(new, t) = {}
               PROVE  FALSE
    BY <1>2 DEF NoSlotStranded
  <2>1. CASE SlotRow(t) \in DOMAIN writes /\ writes[SlotRow(t)] = "BOOKED"
    <3>1. PICK b \in BookingsOf(writes) \ BookingsOf(db) : writes[ClassRow(b)].slot = t
      BY <1>3, <2>1 DEF Wrote
    <3> QED
      BY <1>2, <3>1
  <2>2. CASE SlotRow(t) \notin DOMAIN writes /\ db[SlotRow(t)] = "BOOKED"
    <3>1. PICK b \in LiveClassesOf(db, t) : TRUE
      BY <1>3, <2>2 DEF NoSlotStranded
    <3>2. /\ b \in BookingsOf(db) /\ db[ClassRow(b)].slot = t
          /\ db[ClassRow(b)].status # "CANCELLED"
      BY DEF LiveClassesOf
    <3>3. new[ClassRow(b)].status = "CANCELLED"
      BY <1>2, <3>2 DEF LiveClassesOf
    <3>4. b \in BookingsOf(writes) /\ writes[ClassRow(b)].status = "CANCELLED"
      BY <1>2, <3>2, <3>3
    <3>5. SlotSeenTo(w, txns[w], b)
      BY <1>1, <1>3, <1>4, <3>2, <3>4 DEF GivesBack
    <3> QED
      BY <1>1, <2>2, <3>2, <3>5 DEF SlotSeenTo
  <2> QED
    BY <1>2, <2>1, <2>2
<1>10. Apart'
  <2> SUFFICES ASSUME NEW u \in Workers, NEW v \in Workers, u # v
               PROVE  BookingsOf(txns'[u].writes) \cap BookingsOf(txns'[v].writes)
                        \subseteq BookingsOf(new)
    BY <1>2 DEF Apart
  <2>1. BookingsOf(txns'[w].writes) = {}
    BY <1>5, IdleIsTxn, EmptyIsTable
  <2>2. CASE u # w /\ v # w
    BY <1>2, <1>5, <2>2 DEF IInv, Apart
  <2> QED
    BY <2>1, <2>2
<1>11. ASSUME NEW v \in Workers PROVE Keeps(v, txns[v])'
  <2>1. CASE v = w
    <3>1. PICK txn : txn = Idle
      OBVIOUS
    <3>2. /\ txn.stage = "IDLE" /\ txn.kind = "NONE" /\ txn.begun = {} /\ txn.todo = {}
          /\ IsTable(txn.writes) /\ BookingsOf(txn.writes) = {} /\ DOMAIN txn.writes = {}
      BY <3>1, IdleIsTxn, EmptyIsTable
    <3>3. Placed(w, txn)' /\ Wrote(w, txn.writes)' /\ GivesBack(w, txn)'
      BY <3>2 DEF Placed, Moves, Wrote, GivesBack
    <3>4. txn = txns'[w]
      BY <1>5, <3>1
    <3> QED
      BY <2>1, <3>2, <3>3, <3>4 DEF Keeps
  <2>2. CASE v # w
    <3>1. PICK txn : txn = txns[v]
      OBVIOUS
    <3>2. Placed(v, txn)' /\ Wrote(v, txn.writes)' /\ GivesBack(v, txn)'
      BY <2>2, <3>1, OthersKeep
    <3>3. txn = txns'[v] /\ IsTable(txn.writes)
      BY <1>5, <2>2, <3>1, Facts
    <3> QED
      BY <3>2, <3>3 DEF Keeps
  <2> QED
    BY <2>1, <2>2
<1> QED
  BY <1>2, <1>6, <1>8, <1>9, <1>10, <1>11 DEF IInv, IsTable

-----------------------------------------------------------------------------
(* Every step, and the theorems. *)

LEMMA SlotsInit ==
  ASSUME Init
  PROVE  IInv
<1> DEFINE students == [r \in {StudentRow(st) : st \in StudentIds} |-> "ONE_ON_ONE"]
           slots == [r \in {SlotRow(t) : t \in SlotIds} |-> "AVAILABLE"]
<1>1. /\ DOMAIN db = {SlotRow(t) : t \in SlotIds} \cup {StudentRow(st) : st \in StudentIds}
      /\ \A st \in StudentIds : db[StudentRow(st)] = "ONE_ON_ONE"
      /\ \A t \in SlotIds : db[SlotRow(t)] = "AVAILABLE"
      /\ db = [r \in DOMAIN db |-> db[r]]
  <2>1. db = Overlay(students, slots)
    BY DEF Init
  <2>2. /\ DOMAIN students = {StudentRow(st) : st \in StudentIds}
        /\ DOMAIN slots = {SlotRow(t) : t \in SlotIds}
        /\ \A r \in DOMAIN students : students[r] = "ONE_ON_ONE"
        /\ \A r \in DOMAIN slots : slots[r] = "AVAILABLE"
    OBVIOUS
  <2>3. \A st, t : StudentRow(st) # SlotRow(t)
    BY RowsApart
  <2> HIDE DEF students, slots
  <2> QED
    BY <2>1, <2>2, <2>3 DEF Overlay
<1> HIDE DEF students, slots
<1>2. \A b : BookingRow(b) \notin DOMAIN db /\ ClassRow(b) \notin DOMAIN db
  BY <1>1, RowsApart
<1>3. db \in Table
  <2>1. \A r \in DOMAIN db : r \in Rows /\ db[r] \in Values
    BY <1>1, AreRows DEF Values, Programs, SlotStatuses
  <2> QED
    BY <1>1, <2>1, Tables
<1>4. WellFormed(db)
  BY <1>1, <1>2 DEF WellFormed, Programs, SlotStatuses
<1>5. /\ started = {} /\ locks = [r \in Rows |-> None]
      /\ \A w \in Workers : txns[w] = Idle /\ txns \in [Workers -> Txn]
  BY IdleIsTxn DEF Init
<1>6. TypeInv
  <2>1. txns \in [Workers -> Txn] /\ locks \in [Rows -> Workers \cup {None}]
    BY IdleIsTxn DEF Init
  <2> QED
    BY <1>1, <1>3, <1>5, <2>1 DEF TypeInv
<1>7. OneClassPerSlot(db) /\ NoSlotStranded
  <2>1. BookingsOf(db) = {}
    BY <1>2 DEF BookingsOf
  <2> QED
    BY <1>1, <2>1 DEF OneClassPerSlot, NoSlotStranded, LiveClassesOf
<1>8. Apart
  BY <1>5, IdleIsTxn, EmptyIsTable DEF Apart
<1>9. ASSUME NEW w \in Workers PROVE Keeps(w, txns[w])
  BY <1>5, IdleIsTxn, EmptyIsTable DEF Keeps, Placed, Moves, Wrote, GivesBack
<1> QED
  BY <1>4, <1>6, <1>7, <1>8, <1>9 DEF IInv

LEMMA SlotsStep ==
  ASSUME IInv, [Next]_vars
  PROVE  IInv'
<1>1. ASSUME NEW w \in Workers, Execute(w) PROVE IInv'
  <2>1. CASE Refuse(w)
    BY <2>1, RollbackStep DEF Refuse
  <2> QED
    BY <1>1, <2>1, CheckStudentStep, LockSlotStep, InsertBookingStep, LockBookingStep,
       LockClassStep, CancelBookingStep, ReleaseSlotStep, MarkAttendanceStep,
       FindFutureBookingsStep, WithdrawBookingStep, GiveSlotBackStep, AllWithdrawnStep,
       FlushRowStep, CommitStep DEF Execute
<1>2. ASSUME NEW w \in Workers, LoseConnection(w) \/ AbortDeadlocked(w) PROVE IInv'
  BY <1>2, RollbackStep DEF LoseConnection, AbortDeadlocked
<1>3. CASE UNCHANGED vars
  <2>1. UNCHANGED <<db, started, locks, txns>>
    BY <1>3 DEF vars
  <2>2. TypeInv' /\ WellFormed(db)' /\ OneClassPerSlot(db)' /\ NoSlotStranded' /\ Apart'
    BY <2>1 DEF IInv, TypeInv, WellFormed, OneClassPerSlot, NoSlotStranded, Apart
  <2>3. \A v \in Workers : Keeps(v, txns[v])'
    BY <2>1, TxnsStay
  <2> QED
    BY <2>2, <2>3 DEF IInv
<1> QED
  BY <1>1, <1>2, <1>3, BeginBookingStep, BeginChangeStep, BeginReschedulingStep, BeginSwitchStep,
     ChangeSlotStep, StartSlotStep DEF Next

(* However requests about slots are interleaved, the rows written and the rows
   committed keep together what the invariant says of them. *)
THEOREM SlotsKept == Spec => []IInv
<1> QED
  BY SlotsInit, SlotsStep, PTL DEF Spec

LEMMA NoSecondClass ==
  ASSUME IInv, NEW t \in SlotIds, NEW w \in Workers
  PROVE  Cardinality(LiveClassesOf(Seen(w), t)) <= 1
<1>1. PICK writes : writes = txns[w].writes
  OBVIOUS
<1>2. IsTable(writes) /\ Wrote(w, writes) /\ IsTable(db) /\ OneClassPerSlot(db)
  BY <1>1, Facts
<1>3. PICK live : live = LiveClassesOf(Overlay(writes, db), t)
  OBVIOUS
<1>4. ASSUME NEW b \in live, NEW c \in live PROVE b = c
  <2>1. ASSUME NEW x \in live
        PROVE  \/ /\ x \in BookingsOf(writes) /\ writes[ClassRow(x)].slot = t
                  /\ writes[ClassRow(x)].status # "CANCELLED"
               \/ /\ x \in BookingsOf(db) \ BookingsOf(writes)
                  /\ db[ClassRow(x)].slot = t /\ db[ClassRow(x)].status # "CANCELLED"
    BY <1>2, <1>3, LiveInOverlay
  <2>2. ASSUME NEW x \in live, x \notin BookingsOf(db), NEW y \in live PROVE y = x
    BY <1>2, <1>3, <2>1, <2>2 DEF Wrote
  <2>3. ASSUME NEW x \in live, x \in BookingsOf(db) PROVE x \in LiveClassesOf(db, t)
    BY <1>2, <2>1, <2>3 DEF Wrote, LiveClassesOf
  <2> QED
    BY <1>2, <2>2, <2>3 DEF OneClassPerSlot
<1>5. Cardinality(live) <= 1
  <2>1. CASE live = {}
    BY <2>1, FS_EmptySet
  <2>2. CASE live # {}
    <3>1. PICK b \in live : live = {b}
      BY <1>4, <2>2
    <3> QED
      BY <3>1, FS_Singleton
  <2> QED
    BY <2>1, <2>2
<1> QED
  BY <1>1, <1>3, <1>5 DEF Seen

(* Of the requests that find a slot available only one gets it: no insert of
   book_one_on_one meets another live class of its slot, for any number of
   requests, students, slots and bookings (OneLiveClassPerSlot). *)
THEOREM OneRequestGetsTheSlot == Spec => []OneLiveClassPerSlot
<1>1. IInv => OneLiveClassPerSlot
  BY NoSecondClass DEF OneLiveClassPerSlot
<1> QED
  BY <1>1, SlotsKept, PTL

(* A cancellation, a rescheduling and a program switch cancel a class together
   with its booking, whatever overtakes them (CancelledWithItsBooking). *)
THEOREM ClassGoesWithItsBooking == Spec => []CancelledWithItsBooking
<1>1. IInv => CancelledWithItsBooking
  BY DEF IInv, WellFormed, Agree, CancelledWithItsBooking, BookingsOf
<1> QED
  BY <1>1, SlotsKept, PTL

(* A coming slot does not stay booked when its class is gone: a booked slot could
   not be edited, deleted or booked any more (NoSlotStranded). *)
THEOREM NoComingSlotIsStranded == Spec => []NoSlotStranded
<1>1. IInv => NoSlotStranded
  BY DEF IInv
<1> QED
  BY <1>1, SlotsKept, PTL

-----------------------------------------------------------------------------
(* The diary. *)

StudentOf(rows, b) == rows[BookingRow(b)].student

(* A transaction acts for one student: whatever it writes into bookings is that
   student's, it inserts one at most, and then cancels one at most. *)
ActsForOne(txn) ==
  LET written == BookingsOf(txn.writes)
      old == written \cap BookingsOf(db)
      new == written \ BookingsOf(db)
  IN /\ \A b \in old : StudentOf(txn.writes, b) = StudentOf(db, b)
     /\ \A b, c \in written : StudentOf(txn.writes, b) = StudentOf(txn.writes, c)
     /\ \A b, c \in new : b = c
     /\ \A b \in new : \A c, d \in old : c = d

(* What its stage has behind it. *)
Meant(txn) ==
  /\ txn.stage # "COMMIT" => BookingsOf(txn.writes) \subseteq BookingsOf(db)
  /\ txn.stage \in {"STUDENT", "SLOT", "INSERT", "RELEASE"} =>
       \A b, c \in BookingsOf(txn.writes) : b = c
  /\ txn.student # None =>
       \A b \in BookingsOf(txn.writes) : StudentOf(txn.writes, b) = txn.student
  /\ txn.stage \in {"BOOKING", "CLASS", "CHANGE"} /\ txn.student # None =>
       StudentOf(db, txn.booking) = txn.student
  /\ \A b \in txn.todo : StudentOf(db, b) = txn.student

Acts(txn) == ActsForOne(txn) /\ Meant(txn)

DInv == \A w \in Workers : Acts(txns[w])

LEMMA WhoseRows ==
  ASSUME NEW more, IsTable(more), NEW rows, IsTable(rows), NEW new, new = Overlay(more, rows)
  PROVE  /\ BookingsOf(new) = BookingsOf(more) \cup BookingsOf(rows)
         /\ \A b \in BookingsOf(more) : StudentOf(new, b) = StudentOf(more, b)
         /\ \A b \in BookingsOf(rows) \ BookingsOf(more) : StudentOf(new, b) = StudentOf(rows, b)
<1>1. /\ \A r \in DOMAIN more : new[r] = more[r]
      /\ \A r \in DOMAIN rows \ DOMAIN more : new[r] = rows[r]
  <2>1. /\ \A r \in DOMAIN more : Overlay(more, rows)[r] = more[r]
        /\ \A r \in DOMAIN rows \ DOMAIN more : Overlay(more, rows)[r] = rows[r]
    BY Overlays
  <2> QED
    BY <2>1
<1>2. BookingsOf(new) = BookingsOf(more) \cup BookingsOf(rows)
  BY OverlayTable
<1> QED
  BY <1>1, <1>2 DEF BookingsOf, StudentOf

(* A transaction that has written no booking. *)
LEMMA ActsFresh ==
  ASSUME NEW txn, BookingsOf(txn.writes) = {}, txn.todo = {},
         txn.stage \in {"BOOKING", "CLASS", "CHANGE"} /\ txn.student # None =>
           StudentOf(db, txn.booking) = txn.student
  PROVE  Acts(txn)
BY DEF Acts, ActsForOne, Meant

(* A step that writes no booking. *)
LEMMA ActsOn ==
  ASSUME NEW old, Acts(old), NEW txn, NEW more, IsTable(more), IsTable(old.writes),
         BookingsOf(more) = {}, txn.writes = Overlay(more, old.writes),
         txn.student \in {None, old.student}, txn.todo \subseteq old.todo,
         txn.todo # {} => txn.student = old.student,
         txn.stage # "COMMIT" => old.stage # "COMMIT",
         txn.stage \in {"STUDENT", "SLOT", "INSERT", "RELEASE"} =>
           old.stage \in {"STUDENT", "SLOT", "INSERT", "RELEASE"},
         txn.stage \in {"BOOKING", "CLASS", "CHANGE"} =>
           old.stage \in {"BOOKING", "CLASS", "CHANGE"} /\ txn.booking = old.booking
  PROVE  Acts(txn)
<1>1. /\ BookingsOf(txn.writes) = BookingsOf(old.writes)
      /\ \A b \in BookingsOf(old.writes) : StudentOf(txn.writes, b) = StudentOf(old.writes, b)
  BY WhoseRows
<1>2. ActsForOne(txn)
  BY <1>1 DEF Acts, ActsForOne
<1>3. Meant(txn)
  BY <1>1 DEF Acts, Meant
<1> QED
  BY <1>2, <1>3 DEF Acts

LEMMA ActsStep ==
  ASSUME IInv, DInv, NEW w \in Workers, NEW txn, Acts(txn), db' = db,
         txns' = [txns EXCEPT ![w] = txn]
  PROVE  DInv'
<1>1. \A v \in Workers : txns'[v] = IF v = w THEN txn ELSE txns[v]
  BY DEF IInv, TypeInv
<1>2. ASSUME NEW v \in Workers PROVE Acts(txns[v])'
  <2>1. PICK own : own = (IF v = w THEN txn ELSE txns[v])
    OBVIOUS
  <2>2. Acts(own)
    BY <2>1 DEF DInv
  <2>3. Acts(own)'
    BY <2>2 DEF Acts, ActsForOne, Meant
  <2> QED
    BY <1>1, <2>1, <2>3
<1> QED
  BY <1>2 DEF DInv

LEMMA CheckStudentActs ==
  ASSUME IInv, DInv, NEW w \in Workers, CheckStudent(w) \/ LockSlot(w) \/ LockBooking(w)
  PROVE  DInv'
<1>1. PICK next :
        /\ next = IF txns[w].stage = "STUDENT" THEN "SLOT"
                  ELSE IF txns[w].stage = "SLOT" THEN "INSERT" ELSE "CLASS"
  OBVIOUS
<1>2. /\ txns[w].stage \in {"STUDENT", "SLOT", "BOOKING"} /\ next \in Stages
      /\ Goes(w, next, EmptyTable) /\ db' = db
      /\ next \in {"SLOT", "INSERT"} => txns[w].stage \in {"STUDENT", "SLOT"}
      /\ next = "CLASS" => txns[w].stage = "BOOKING"
      /\ next \in {"SLOT", "INSERT", "CLASS"}
  BY <1>1 DEF CheckStudent, LockSlot, LockBooking, Stages
<1>3. PICK txn \in Txn :
        /\ txns' = [txns EXCEPT ![w] = txn]
        /\ txn = [txns[w] EXCEPT !.stage = next, !.writes = Overlay(EmptyTable, txns[w].writes)]
        /\ IsTable(txn.writes)
  BY <1>2, EmptyIsTable, Going
<1>4. /\ txn.stage = next /\ txn.writes = Overlay(EmptyTable, txns[w].writes)
      /\ txn.todo = txns[w].todo /\ txn.student = txns[w].student
      /\ txn.booking = txns[w].booking
  BY <1>3, Facts DEF Txn
<1>5. Acts(txns[w]) /\ IsTable(txns[w].writes)
  BY Facts DEF DInv
<1>6. Acts(txn)
  BY <1>2, <1>4, <1>5, EmptyIsTable, ActsOn
<1> QED
  BY <1>2, <1>3, <1>6, ActsStep

LEMMA LockClassActs ==
  ASSUME IInv, DInv, NEW w \in Workers, LockClass(w)
  PROVE  DInv'
<1>1. PICK txn : txn = [txns[w] EXCEPT !.stage = "CHANGE", !.begun = started]
  OBVIOUS
<1>2. txns' = [txns EXCEPT ![w] = txn] /\ db' = db /\ txns[w].stage = "CLASS"
  BY <1>1 DEF LockClass
<1>3. /\ txn.stage = "CHANGE" /\ txn.writes = Overlay(EmptyTable, txns[w].writes)
      /\ txn.todo = txns[w].todo /\ txn.student = txns[w].student
      /\ txn.booking = txns[w].booking
  BY <1>1, Facts, NothingWritten DEF Txn
<1>4. Acts(txns[w]) /\ IsTable(txns[w].writes)
  BY Facts DEF DInv
<1>5. Acts(txn)
  BY <1>2, <1>3, <1>4, EmptyIsTable, ActsOn
<1> QED
  BY <1>2, <1>5, ActsStep

(* A booking that is cancelled or attended stays its student's. *)
LEMMA WroteBookings ==
  ASSUME IInv, NEW w \in Workers, NEW b \in BookingsOf(db), NEW booking, NEW class,
         booking \in Booking, class \in Class, Agree(booking, class),
         booking.student = StudentOf(db, b),
         NEW writes, writes = Overlay(BookingAndClass(b, booking, class), txns[w].writes)
  PROVE  /\ IsTable(writes) /\ BookingsOf(writes) = BookingsOf(txns[w].writes) \cup {b}
         /\ StudentOf(writes, b) = StudentOf(db, b)
         /\ \A c \in BookingsOf(txns[w].writes) \ {b} :
              StudentOf(writes, c) = StudentOf(txns[w].writes, c)
<1>1. PICK pair : pair = BookingAndClass(b, booking, class)
  OBVIOUS
<1>2. b \in BookingIds
  BY DEF BookingsOf
<1>3. IsTable(pair) /\ BookingsOf(pair) = {b}
  BY <1>1, <1>2, PairTable
<1>4. StudentOf(pair, b) = booking.student
  BY <1>1 DEF StudentOf, BookingAndClass
<1>5. /\ BookingsOf(writes) = BookingsOf(pair) \cup BookingsOf(txns[w].writes)
      /\ \A c \in BookingsOf(pair) : StudentOf(writes, c) = StudentOf(pair, c)
      /\ \A c \in BookingsOf(txns[w].writes) \ BookingsOf(pair) :
           StudentOf(writes, c) = StudentOf(txns[w].writes, c)
  <2>1. IsTable(txns[w].writes) /\ writes = Overlay(pair, txns[w].writes)
    BY <1>1, Facts
  <2> QED
    BY <1>3, <2>1, WhoseRows
<1>6. IsTable(writes)
  BY <1>1, <1>3, Facts, OverlayTable
<1> QED
  BY <1>3, <1>4, <1>5, <1>6

LEMMA CancelBookingActs ==
  ASSUME IInv, DInv, NEW w \in Workers, CancelBooking(w)
  PROVE  DInv'
<1> DEFINE b == txns[w].booking
<1>1. /\ txns[w].stage = "CHANGE" /\ MayCancel(w) /\ db' = db
      /\ Goes(w, "RELEASE", BookingAndClass(b, [db[BookingRow(b)] EXCEPT !.status = "CANCELLED"],
                                               CancelledClass(w)))
  BY DEF CancelBooking, BookingSeen
<1>2. /\ b \in BookingsOf(db)
      /\ db[BookingRow(b)] \in Booking /\ db[ClassRow(b)] \in Class
      /\ Agree(db[BookingRow(b)], db[ClassRow(b)])
      /\ DOMAIN txns[w].writes = {}
  BY <1>1, Facts DEF Placed
<1>3. CancelledClass(w) = [db[ClassRow(b)] EXCEPT !.status = "CANCELLED"]
  BY <1>1, <1>2 DEF CancelledClass, ClassSeen, MayCancel, BookingSeen, Agree, Class
<1>4. PICK booking, class :
        /\ booking = [db[BookingRow(b)] EXCEPT !.status = "CANCELLED"]
        /\ class = [db[ClassRow(b)] EXCEPT !.status = "CANCELLED"]
  OBVIOUS
<1>5. /\ booking \in Booking /\ class \in Class /\ Agree(booking, class)
      /\ booking.student = StudentOf(db, b)
  BY <1>2, <1>4 DEF Booking, Class, Agree, StudentOf
<1> HIDE DEF b
<1>6. PICK more, stage :
        /\ more = BookingAndClass(b, booking, class) /\ stage = "RELEASE"
  OBVIOUS
<1>7. /\ Goes(w, stage, more) /\ stage \in Stages
      /\ IsTable(more)
  <2>1. b \in BookingIds
    BY <1>2 DEF BookingsOf
  <2> QED
    BY <1>1, <1>3, <1>4, <1>5, <1>6, <2>1, PairTable DEF Stages
<1>8. PICK txn \in Txn :
        /\ txns' = [txns EXCEPT ![w] = txn]
        /\ txn = [txns[w] EXCEPT !.stage = stage, !.writes = Overlay(more, txns[w].writes)]
        /\ IsTable(txn.writes)
  BY <1>7, Going
<1>9. /\ txn.stage = "RELEASE" /\ txn.writes = Overlay(more, txns[w].writes)
      /\ txn.todo = txns[w].todo /\ txn.student = txns[w].student
  BY <1>6, <1>8, Facts DEF Txn
<1>10. BookingsOf(txn.writes) = {b} /\ StudentOf(txn.writes, b) = StudentOf(db, b)
  <2>1. BookingsOf(txns[w].writes) = {}
    BY <1>2 DEF BookingsOf
  <2> QED
    BY <1>2, <1>5, <1>6, <1>9, <2>1, WroteBookings
<1>11. Meant(txns[w])
  BY DEF DInv, Acts
<1>12. ActsForOne(txn)
  BY <1>2, <1>10 DEF ActsForOne
<1>13. Meant(txn)
  BY <1>1, <1>2, <1>9, <1>10, <1>11 DEF Meant, b
<1> QED
  BY <1>1, <1>8, <1>12, <1>13, ActsStep DEF Acts

LEMMA MarkAttendanceActs ==
  ASSUME IInv, DInv, NEW w \in Workers, MarkAttendance(w)
  PROVE  DInv'
<1> DEFINE b == txns[w].booking
<1>1. /\ txns[w].stage = "CHANGE" /\ db' = db
      /\ GoesToCommit(w, BookingAndClass(b, [db[BookingRow(b)] EXCEPT !.status = "ATTENDED"],
                                            [db[ClassRow(b)] EXCEPT !.status = "COMPLETED"]))
  BY DEF MarkAttendance, BookingSeen, ClassSeen
<1>2. /\ b \in BookingsOf(db)
      /\ db[BookingRow(b)] \in Booking /\ db[ClassRow(b)] \in Class
      /\ DOMAIN txns[w].writes = {}
  BY <1>1, Facts DEF Placed
<1>3. PICK booking, class :
        /\ booking = [db[BookingRow(b)] EXCEPT !.status = "ATTENDED"]
        /\ class = [db[ClassRow(b)] EXCEPT !.status = "COMPLETED"]
  OBVIOUS
<1>4. /\ booking \in Booking /\ class \in Class /\ Agree(booking, class)
      /\ booking.student = StudentOf(db, b)
  BY <1>2, <1>3 DEF Booking, Class, Agree, StudentOf
<1> HIDE DEF b
<1>5. PICK more : more = BookingAndClass(b, booking, class)
  OBVIOUS
<1>6. GoesToCommit(w, more) /\ IsTable(more)
  <2>1. b \in BookingIds
    BY <1>2 DEF BookingsOf
  <2> QED
    BY <1>1, <1>3, <1>4, <1>5, <2>1, PairTable
<1>7. PICK txn \in Txn :
        /\ txns' = [txns EXCEPT ![w] = txn]
        /\ txn = [Request(txns[w].kind, "COMMIT") EXCEPT !.writes = Overlay(more, txns[w].writes)]
  BY <1>6, GoingToCommit
<1>8. /\ txn.stage = "COMMIT" /\ txn.writes = Overlay(more, txns[w].writes)
      /\ txn.todo = {} /\ txn.student = None
  BY <1>7 DEF Request, Idle
<1>9. BookingsOf(txn.writes) = {b} /\ StudentOf(txn.writes, b) = StudentOf(db, b)
  <2>1. BookingsOf(txns[w].writes) = {}
    BY <1>2 DEF BookingsOf
  <2> QED
    BY <1>2, <1>4, <1>5, <1>8, <2>1, WroteBookings
<1>10. Acts(txn)
  BY <1>2, <1>8, <1>9 DEF Acts, ActsForOne, Meant
<1> QED
  BY <1>1, <1>7, <1>10, ActsStep

LEMMA ReleaseSlotActs ==
  ASSUME IInv, DInv, NEW w \in Workers, ReleaseSlot(w)
  PROVE  DInv'
<1>1. /\ txns[w].stage = "RELEASE" /\ db' = db
      /\ \/ Goes(w, "STUDENT", SlotReleased(w))
         \/ GoesToCommit(w, SlotReleased(w))
  BY DEF ReleaseSlot
<1>2. db[ClassRow(txns[w].booking)].slot \in SlotIds
  BY <1>1, Facts DEF Placed, Class
<1>3. PICK more : more = SlotReleased(w)
  OBVIOUS
<1>4. IsTable(more) /\ BookingsOf(more) = {}
  BY <1>2, <1>3, EmptyIsTable, GivenBackTable DEF SlotReleased, ClassSeen
<1>5. Acts(txns[w]) /\ IsTable(txns[w].writes)
  BY Facts DEF DInv
<1>6. CASE Goes(w, "STUDENT", more)
  <2>1. PICK stage \in Stages : stage = "STUDENT"
    BY DEF Stages
  <2>2. Goes(w, stage, more)
    BY <1>6, <2>1
  <2>3. PICK txn \in Txn :
          /\ txns' = [txns EXCEPT ![w] = txn]
          /\ txn = [txns[w] EXCEPT !.stage = stage, !.writes = Overlay(more, txns[w].writes)]
          /\ IsTable(txn.writes)
    BY <1>4, <2>2, Going
  <2>4. /\ txn.stage = "STUDENT" /\ txn.writes = Overlay(more, txns[w].writes)
        /\ txn.todo = txns[w].todo /\ txn.student = txns[w].student
    BY <2>1, <2>3, Facts DEF Txn
  <2>5. Acts(txn)
    BY <1>1, <1>4, <1>5, <2>4, ActsOn
  <2> QED
    BY <1>1, <2>3, <2>5, ActsStep
<1>7. CASE GoesToCommit(w, more)
  <2>1. PICK txn \in Txn :
          /\ txns' = [txns EXCEPT ![w] = txn]
          /\ txn = [Request(txns[w].kind, "COMMIT") EXCEPT !.writes = Overlay(more, txns[w].writes)]
    BY <1>4, <1>7, GoingToCommit
  <2>2. /\ txn.stage = "COMMIT" /\ txn.writes = Overlay(more, txns[w].writes)
        /\ txn.todo = {} /\ txn.student = None
    BY <2>1 DEF Request, Idle
  <2>3. Acts(txn)
    BY <1>4, <1>5, <2>2, ActsOn
  <2> QED
    BY <1>1, <2>1, <2>3, ActsStep
<1> QED
  BY <1>1, <1>3, <1>6, <1>7

LEMMA AllWithdrawnActs ==
  ASSUME IInv, DInv, NEW w \in Workers, AllWithdrawn(w)
  PROVE  DInv'
<1>1. GoesToCommit(w, EmptyTable) /\ db' = db
  BY DEF AllWithdrawn
<1>2. PICK txn \in Txn :
        /\ txns' = [txns EXCEPT ![w] = txn]
        /\ txn = [Request(txns[w].kind, "COMMIT") EXCEPT !.writes = Overlay(EmptyTable, txns[w].writes)]
  BY <1>1, EmptyIsTable, GoingToCommit
<1>3. /\ txn.stage = "COMMIT" /\ txn.writes = Overlay(EmptyTable, txns[w].writes)
      /\ txn.todo = {} /\ txn.student = None
  BY <1>2 DEF Request, Idle
<1>4. Acts(txns[w]) /\ IsTable(txns[w].writes)
  BY Facts DEF DInv
<1>5. Acts(txn)
  BY <1>3, <1>4, EmptyIsTable, ActsOn
<1> QED
  BY <1>1, <1>2, <1>5, ActsStep

LEMMA FindFutureBookingsActs ==
  ASSUME IInv, DInv, NEW w \in Workers, FindFutureBookings(w)
  PROVE  DInv'
<1>1. PICK found :
        found = {b \in BookingsOf(db) :
                   /\ db[BookingRow(b)] = [student |-> txns[w].student, status |-> "BOOKED"]
                   /\ db[ClassRow(b)].slot \notin txns[w].begun}
  OBVIOUS
<1>2. \A b \in found : StudentOf(db, b) = txns[w].student
  BY <1>1 DEF StudentOf
<1>3. PICK txn : txn = [txns[w] EXCEPT !.stage = "WITHDRAW", !.todo = found]
  OBVIOUS
<1>4. txns' = [txns EXCEPT ![w] = txn] /\ db' = db /\ txns[w].stage = "FIND"
  BY <1>1, <1>3 DEF FindFutureBookings
<1>5. /\ txn.stage = "WITHDRAW" /\ txn.writes = txns[w].writes
      /\ txn.todo = found /\ txn.student = txns[w].student
  BY <1>3, Facts DEF Txn
<1>6. ActsForOne(txns[w]) /\ Meant(txns[w])
  BY DEF DInv, Acts
<1>7. ActsForOne(txn)
  BY <1>5, <1>6 DEF ActsForOne
<1>8. Meant(txn)
  BY <1>2, <1>4, <1>5, <1>6 DEF Meant
<1> QED
  BY <1>4, <1>7, <1>8, ActsStep DEF Acts

LEMMA WithdrawBookingActs ==
  ASSUME IInv, DInv, NEW w \in Workers, WithdrawBooking(w)
  PROVE  DInv'
<1>1. PICK b \in txns[w].todo :
        /\ txns[w].stage = "WITHDRAW" /\ db' = db
        /\ txns' = [txns EXCEPT ![w].stage = "GIVE_BACK", ![w].booking = b, ![w].writes =
             Overlay(BookingAndClass(b, [db[BookingRow(b)] EXCEPT !.status = "CANCELLED"],
                                        [db[ClassRow(b)] EXCEPT !.status = "CANCELLED"]), @)]
  BY DEF WithdrawBooking
<1>2. /\ b \in BookingsOf(db)
      /\ db[BookingRow(b)] \in Booking /\ db[ClassRow(b)] \in Class
  BY <1>1, Facts DEF Placed
<1>3. PICK booking, class :
        /\ booking = [db[BookingRow(b)] EXCEPT !.status = "CANCELLED"]
        /\ class = [db[ClassRow(b)] EXCEPT !.status = "CANCELLED"]
  OBVIOUS
<1>4. /\ booking \in Booking /\ class \in Class /\ Agree(booking, class)
      /\ booking.student = StudentOf(db, b)
  BY <1>2, <1>3 DEF Booking, Class, Agree, StudentOf
<1>5. PICK more : more = BookingAndClass(b, booking, class)
  OBVIOUS
<1>6. PICK txn : txn = [txns[w] EXCEPT !.stage = "GIVE_BACK", !.booking = b,
                                      !.writes = Overlay(more, @)]
  OBVIOUS
<1>7. txns' = [txns EXCEPT ![w] = txn]
  BY <1>1, <1>3, <1>5, <1>6
<1>8. /\ txn.stage = "GIVE_BACK" /\ txn.writes = Overlay(more, txns[w].writes)
      /\ txn.todo = txns[w].todo /\ txn.student = txns[w].student
  BY <1>6, Facts DEF Txn
<1>9. /\ BookingsOf(txn.writes) = BookingsOf(txns[w].writes) \cup {b}
      /\ StudentOf(txn.writes, b) = StudentOf(db, b)
      /\ \A c \in BookingsOf(txns[w].writes) \ {b} :
           StudentOf(txn.writes, c) = StudentOf(txns[w].writes, c)
  BY <1>2, <1>4, <1>5, <1>8, WroteBookings
<1>10. ActsForOne(txns[w]) /\ Meant(txns[w])
  BY DEF DInv, Acts
<1>11. StudentOf(db, b) = txns[w].student /\ txns[w].student # None
  BY <1>1, <1>2, <1>10, SlotSeatsAssumption DEF Meant, StudentOf, Booking
<1>12. BookingsOf(txns[w].writes) \subseteq BookingsOf(db)
  BY <1>1, <1>10 DEF Meant
<1>13. \A c \in BookingsOf(txn.writes) : StudentOf(txn.writes, c) = txns[w].student
  BY <1>9, <1>10, <1>11 DEF Meant
<1>14. ActsForOne(txn)
  BY <1>2, <1>9, <1>10, <1>12, <1>13 DEF ActsForOne
<1>15. Meant(txn)
  BY <1>1, <1>2, <1>8, <1>9, <1>10, <1>12, <1>13 DEF Meant
<1> QED
  BY <1>1, <1>7, <1>14, <1>15, ActsStep DEF Acts

LEMMA GiveSlotBackActs ==
  ASSUME IInv, DInv, NEW w \in Workers, GiveSlotBack(w)
  PROVE  DInv'
<1>1. PICK b, t, more : /\ b = txns[w].booking /\ t = db[ClassRow(b)].slot
                        /\ more = GivenBack(t)
  OBVIOUS
<1>2. /\ txns[w].stage = "GIVE_BACK" /\ db' = db
      /\ txns' = [txns EXCEPT ![w].stage = "WITHDRAW", ![w].todo = @ \ {b},
                     ![w].writes = Overlay(more, @)]
  BY <1>1 DEF GiveSlotBack
<1>3. t \in SlotIds
  BY <1>1, <1>2, Facts DEF Placed, Class
<1>4. IsTable(more) /\ BookingsOf(more) = {}
  BY <1>1, <1>3, GivenBackTable
<1>5. PICK txn : txn = [txns[w] EXCEPT !.stage = "WITHDRAW", !.todo = @ \ {b},
                                      !.writes = Overlay(more, @)]
  OBVIOUS
<1>6. txns' = [txns EXCEPT ![w] = txn]
  BY <1>2, <1>5
<1>7. /\ txn.stage = "WITHDRAW" /\ txn.writes = Overlay(more, txns[w].writes)
      /\ txn.todo = txns[w].todo \ {b} /\ txn.student = txns[w].student
  BY <1>5, Facts DEF Txn
<1>8. Acts(txns[w]) /\ IsTable(txns[w].writes)
  BY Facts DEF DInv
<1>9. Acts(txn)
  BY <1>2, <1>4, <1>7, <1>8, ActsOn
<1> QED
  BY <1>2, <1>6, <1>9, ActsStep

(* The new booking is the student's whose old one may have been cancelled. *)
LEMMA InsertBookingActs ==
  ASSUME IInv, DInv, NEW w \in Workers, InsertBooking(w)
  PROVE  DInv'
<1>1. PICK b, t, st : /\ b = (CHOOSE x \in BookingIds : x \notin KeysInUse)
                      /\ t = txns[w].slot /\ st = txns[w].student
  OBVIOUS
<1>2. /\ txns[w].stage = "INSERT" /\ db' = db /\ b \in BookingIds /\ b \notin KeysInUse
      /\ GoesToCommit(w, Overlay(BookingAndClass(b, [student |-> st, status |-> "BOOKED"],
                                                    [slot |-> t, status |-> "SCHEDULED"]),
                                 OneRow(SlotRow(t), "BOOKED")))
  BY <1>1 DEF InsertBooking
<1>3. b \notin BookingsOf(db) /\ b \notin BookingsOf(txns[w].writes)
  BY <1>2 DEF KeysInUse, BookingsOf
<1>4. st \in StudentIds /\ t \in SlotIds /\ st # None
  BY <1>1, <1>2, Facts, SlotSeatsAssumption DEF Placed
<1>5. PICK booking, class : /\ booking = [student |-> st, status |-> "BOOKED"]
                            /\ class = [slot |-> t, status |-> "SCHEDULED"]
  OBVIOUS
<1>6. PICK pair, one, more : /\ pair = BookingAndClass(b, booking, class)
                             /\ one = OneRow(SlotRow(t), "BOOKED")
                             /\ more = Overlay(pair, one)
  OBVIOUS
<1>7. IsTable(pair) /\ BookingsOf(pair) = {b} /\ StudentOf(pair, b) = st
  <2>1. booking \in Booking /\ class \in Class /\ Agree(booking, class)
    BY <1>4, <1>5 DEF Booking, Class, Agree
  <2>2. IsTable(pair) /\ BookingsOf(pair) = {b}
    BY <1>2, <1>6, <2>1, PairTable
  <2> QED
    BY <1>5, <1>6, <2>2 DEF StudentOf, BookingAndClass
<1>8. IsTable(one) /\ BookingsOf(one) = {}
  BY <1>4, <1>6, SlotTable DEF SlotStatuses, TakenStatuses
<1>9. IsTable(more) /\ BookingsOf(more) = {b} /\ StudentOf(more, b) = st
  <2>1. IsTable(Overlay(pair, one)) /\ BookingsOf(Overlay(pair, one)) = {b}
    BY <1>7, <1>8, OverlayTable
  <2>2. StudentOf(more, b) = StudentOf(pair, b)
    BY <1>6, <1>7, <1>8, WhoseRows
  <2> QED
    BY <1>6, <1>7, <2>1, <2>2
<1>10. PICK txn \in Txn :
         /\ txns' = [txns EXCEPT ![w] = txn]
         /\ txn = [Request(txns[w].kind, "COMMIT") EXCEPT !.writes = Overlay(more, txns[w].writes)]
  <2>1. GoesToCommit(w, more)
    BY <1>2, <1>5, <1>6
  <2> QED
    BY <1>9, <2>1, GoingToCommit
<1>11. /\ txn.stage = "COMMIT" /\ txn.writes = Overlay(more, txns[w].writes)
       /\ txn.todo = {} /\ txn.student = None
  BY <1>10 DEF Request, Idle
<1>12. PICK old : old = txns[w].writes
  OBVIOUS
<1>13. /\ BookingsOf(txn.writes) = BookingsOf(old) \cup {b}
       /\ StudentOf(txn.writes, b) = st
       /\ \A c \in BookingsOf(old) : StudentOf(txn.writes, c) = StudentOf(old, c)
  <2>1. IsTable(old) /\ txn.writes = Overlay(more, old)
    BY <1>11, <1>12, Facts
  <2> QED
    BY <1>3, <1>9, <1>12, <2>1, WhoseRows
<1>14. /\ BookingsOf(old) \subseteq BookingsOf(db)
       /\ \A c, d \in BookingsOf(old) : c = d
       /\ \A c \in BookingsOf(old) : StudentOf(old, c) = st /\ StudentOf(db, c) = st
  BY <1>1, <1>2, <1>4, <1>12 DEF DInv, Acts, ActsForOne, Meant
<1>15. ActsForOne(txn)
  BY <1>3, <1>13, <1>14 DEF ActsForOne
<1>16. Meant(txn)
  BY <1>11 DEF Meant
<1> QED
  BY <1>2, <1>10, <1>15, <1>16, ActsStep DEF Acts

(* A transaction begins. *)
LEMMA BeginActs ==
  ASSUME IInv, DInv, NEW w \in Workers,
         \/ BeginBooking(w) \/ BeginChange(w) \/ BeginRescheduling(w)
         \/ BeginSwitch(w) \/ ChangeSlot(w)
  PROVE  DInv'
<1>1. ASSUME NEW txn, Begin(w, txn), BookingsOf(txn.writes) = {}, txn.todo = {},
             txn.stage \in {"BOOKING", "CLASS", "CHANGE"} /\ txn.student # None =>
               StudentOf(db, txn.booking) = txn.student
      PROVE  DInv'
  <2>1. txns' = [txns EXCEPT ![w] = txn] /\ db' = db
    BY <1>1 DEF Begin
  <2>2. Acts(txn)
    BY <1>1, ActsFresh
  <2> QED
    BY <2>1, <2>2, ActsStep
<1>2. CASE BeginBooking(w)
  <2>1. PICK st \in StudentIds, t \in SlotIds :
          Begin(w, [Request("BOOK", "STUDENT") EXCEPT !.student = st, !.slot = t, !.begun = started])
    BY <1>2 DEF BeginBooking
  <2>2. PICK txn :
          txn = [Request("BOOK", "STUDENT") EXCEPT !.student = st, !.slot = t, !.begun = started]
    OBVIOUS
  <2>3. txn.stage = "STUDENT" /\ txn.writes = EmptyTable /\ txn.todo = {}
    BY <2>2 DEF Request, Idle
  <2> QED
    BY <1>1, <2>1, <2>2, <2>3, EmptyIsTable
<1>3. CASE BeginChange(w)
  <2>1. PICK b \in BookingsOf(db), kind \in {"CANCEL", "ADMIN_CANCEL", "MARK"} :
          Begin(w, [Request(kind, "BOOKING") EXCEPT !.booking = b])
    BY <1>3 DEF BeginChange
  <2>2. PICK txn : txn = [Request(kind, "BOOKING") EXCEPT !.booking = b]
    OBVIOUS
  <2>3. txn.student = None /\ txn.writes = EmptyTable /\ txn.todo = {}
    BY <2>2 DEF Request, Idle
  <2> QED
    BY <1>1, <2>1, <2>2, <2>3, EmptyIsTable
<1>4. CASE BeginRescheduling(w)
  <2>1. PICK b \in BookingsOf(db), t \in SlotIds, kind \in {"RESCHEDULE", "ADMIN_RESCHEDULE"} :
          Begin(w, [Request(kind, "BOOKING") EXCEPT
                      !.booking = b, !.student = db[BookingRow(b)].student, !.slot = t])
    BY <1>4 DEF BeginRescheduling
  <2>2. PICK txn : txn = [Request(kind, "BOOKING") EXCEPT
                            !.booking = b, !.student = db[BookingRow(b)].student, !.slot = t]
    OBVIOUS
  <2>3. /\ txn.student = StudentOf(db, b) /\ txn.booking = b
        /\ txn.writes = EmptyTable /\ txn.todo = {}
    BY <2>2 DEF Request, Idle, StudentOf
  <2> QED
    BY <1>1, <2>1, <2>2, <2>3, EmptyIsTable
<1>5. CASE BeginSwitch(w)
  <2>1. PICK st \in StudentIds, program \in Programs :
          Begin(w, [Request("SWITCH", "FIND") EXCEPT
                      !.student = st, !.begun = started,
                      !.writes = OneRow(StudentRow(st), program)])
    BY <1>5 DEF BeginSwitch
  <2>2. PICK txn : txn = [Request("SWITCH", "FIND") EXCEPT
                            !.student = st, !.begun = started,
                            !.writes = OneRow(StudentRow(st), program)]
    OBVIOUS
  <2>3. txn.stage = "FIND" /\ txn.writes = OneRow(StudentRow(st), program) /\ txn.todo = {}
    BY <2>2 DEF Request, Idle
  <2> QED
    BY <1>1, <2>1, <2>2, <2>3, StudentTable
<1>6. CASE ChangeSlot(w)
  <2>1. PICK t \in SlotIds, kind \in {"UPDATE_SLOT", "DELETE_SLOT"},
             status \in SlotStatuses \ {"BOOKED"} :
          Begin(w, [Request(kind, "COMMIT") EXCEPT !.writes = OneRow(SlotRow(t), status)])
    BY <1>6 DEF ChangeSlot
  <2>2. PICK txn : txn = [Request(kind, "COMMIT") EXCEPT !.writes = OneRow(SlotRow(t), status)]
    OBVIOUS
  <2>3. txn.stage = "COMMIT" /\ txn.writes = OneRow(SlotRow(t), status) /\ txn.todo = {}
    BY <2>2 DEF Request, Idle
  <2>4. BookingsOf(OneRow(SlotRow(t), status)) = {}
    BY SlotTable DEF SlotStatuses
  <2> QED
    BY <1>1, <2>1, <2>2, <2>3, <2>4
<1> QED
  BY <1>2, <1>3, <1>4, <1>5, <1>6

LEMMA RollbackActs ==
  ASSUME IInv, DInv, NEW w \in Workers, Rollback(w)
  PROVE  DInv'
<1>1. PICK txn : txn = Idle
  OBVIOUS
<1>2. Acts(txn)
  BY <1>1, EmptyIsTable, ActsFresh DEF Idle
<1>3. txns' = [txns EXCEPT ![w] = txn] /\ db' = db
  BY <1>1 DEF Rollback, End
<1> QED
  BY <1>2, <1>3, ActsStep

(* A commit leaves the bookings it finds to their students. *)
LEMMA CommittedBookings ==
  ASSUME IInv, DInv, NEW w \in Workers, Commit(w),
         NEW writes, writes = txns[w].writes, NEW new, new = Overlay(writes, db)
  PROVE  /\ \A b \in BookingsOf(db) : StudentOf(new, b) = StudentOf(db, b)
         /\ \A b \in BookingsOf(writes) : StudentOf(new, b) = StudentOf(writes, b)
<1>1. IsTable(db) /\ IsTable(writes)
  BY Facts
<1>2. /\ \A b \in BookingsOf(writes) : StudentOf(new, b) = StudentOf(writes, b)
      /\ \A b \in BookingsOf(db) \ BookingsOf(writes) : StudentOf(new, b) = StudentOf(db, b)
  BY <1>1, WhoseRows
<1>3. \A b \in BookingsOf(writes) \cap BookingsOf(db) : StudentOf(writes, b) = StudentOf(db, b)
  BY DEF DInv, Acts, ActsForOne
<1> QED
  BY <1>2, <1>3

LEMMA CommitActs ==
  ASSUME IInv, DInv, NEW w \in Workers, Commit(w)
  PROVE  DInv'
<1>1. PICK writes, new : writes = txns[w].writes /\ new = Overlay(writes, db)
  OBVIOUS
<1>2. db' = new /\ BookingsOf(new) = BookingsOf(writes) \cup BookingsOf(db)
  BY <1>1, Committed
<1>3. \A b \in BookingsOf(db) : StudentOf(new, b) = StudentOf(db, b)
  BY <1>1, CommittedBookings
<1>4. txns' = [txns EXCEPT ![w] = Idle]
  BY DEF Commit, End
<1>5. ASSUME NEW v \in Workers PROVE Acts(txns[v])'
  <2>1. CASE v = w
    <3>1. PICK txn : txn = Idle
      OBVIOUS
    <3>2. BookingsOf(txn.writes) = {} /\ txn.todo = {} /\ txn.student = None
      BY <3>1, EmptyIsTable DEF Idle
    <3>3. Acts(txn)'
      BY <3>2 DEF Acts, ActsForOne, Meant
    <3>4. txns'[v] = txn
      BY <1>4, <2>1, <3>1 DEF IInv, TypeInv
    <3> QED
      BY <3>3, <3>4
  <2>2. CASE v # w
    <3>1. PICK txn : txn = txns[v]
      OBVIOUS
    <3>2. ActsForOne(txn) /\ Meant(txn) /\ Placed(v, txn)
      BY <3>1, Facts DEF DInv, Acts
    <3>3. BookingsOf(txn.writes) \cap BookingsOf(new) = BookingsOf(txn.writes) \cap BookingsOf(db)
      BY <1>1, <1>2, <2>2, <3>1 DEF IInv, Apart
    <3>4. BookingsOf(txn.writes) \ BookingsOf(new) = BookingsOf(txn.writes) \ BookingsOf(db)
      BY <3>3
    <3>5. ActsForOne(txn)'
      BY <1>2, <1>3, <3>2, <3>3, <3>4 DEF ActsForOne
    <3>6. Meant(txn)'
      BY <1>2, <1>3, <3>2 DEF Meant, Placed
    <3>7. txns'[v] = txn
      BY <1>4, <2>2, <3>1 DEF IInv, TypeInv
    <3> QED
      BY <3>5, <3>6, <3>7 DEF Acts
  <2> QED
    BY <2>1, <2>2
<1> QED
  BY <1>5 DEF DInv

(* Whatever is interleaved with it, a transaction acts for one student. *)
LEMMA DiaryInvStep ==
  ASSUME IInv, DInv, [Next]_vars
  PROVE  DInv'
<1>1. ASSUME NEW w \in Workers, Execute(w) PROVE DInv'
  <2>1. CASE Refuse(w)
    BY <2>1, RollbackActs DEF Refuse
  <2>2. CASE FlushRow(w)
    BY <2>2 DEF FlushRow, DInv, Acts, ActsForOne, Meant
  <2> QED
    BY <1>1, <2>1, <2>2, CheckStudentActs, InsertBookingActs, LockClassActs, CancelBookingActs,
       ReleaseSlotActs, MarkAttendanceActs, FindFutureBookingsActs, WithdrawBookingActs,
       GiveSlotBackActs, AllWithdrawnActs, CommitActs DEF Execute
<1>2. ASSUME NEW w \in Workers, LoseConnection(w) \/ AbortDeadlocked(w) PROVE DInv'
  BY <1>2, RollbackActs DEF LoseConnection, AbortDeadlocked
<1>3. CASE UNCHANGED <<db, txns>>
  BY <1>3 DEF DInv, Acts, ActsForOne, Meant
<1> QED
  BY <1>1, <1>2, <1>3, BeginActs DEF Next, StartSlot, vars

LEMMA DiaryInvInit == Init => DInv
<1> SUFFICES ASSUME Init, NEW w \in Workers PROVE Acts(txns[w])
  BY DEF DInv
<1>1. PICK txn : txn = Idle
  OBVIOUS
<1>2. Acts(txn)
  BY <1>1, EmptyIsTable, ActsFresh DEF Idle
<1> QED
  BY <1>1, <1>2 DEF Init

-----------------------------------------------------------------------------
(* The commit is the step of the diary. *)

Holders(rows, t) == {StudentOf(rows, b) : b \in LiveClassesOf(rows, t)}
DiaryView == [t \in SlotIds |-> {db[BookingRow(b)].student : b \in LiveClassesOf(db, t)}]

(* The slots a commit takes a class from. *)
Left(old, new) == {t \in SlotIds : \E c \in LiveClassesOf(old, t) : c \notin LiveClassesOf(new, t)}

LEMMA CommittedClasses ==
  ASSUME IInv, DInv, NEW w \in Workers, Commit(w),
         NEW writes, writes = txns[w].writes, NEW new, new = Overlay(writes, db)
  PROVE  /\ db' = new
         /\ \A t \in SlotIds : \A b \in LiveClassesOf(new, t) :
              \/ b \in LiveClassesOf(db, t)
              \/ /\ b \in BookingsOf(writes) \ BookingsOf(db)
                 /\ t = writes[ClassRow(b)].slot
         /\ \A t \in SlotIds : \A b \in LiveClassesOf(db, t) \ LiveClassesOf(new, t) :
              b \in BookingsOf(writes) \cap BookingsOf(db)
         /\ \A b \in BookingsOf(writes) \ BookingsOf(db) :
              /\ writes[ClassRow(b)].slot \in SlotIds
              /\ LiveClassesOf(new, writes[ClassRow(b)].slot) = {b}
         /\ \A t \in SlotIds : \A b \in LiveClassesOf(db, t) :
              b \in BookingsOf(db) /\ db[ClassRow(b)].slot = t
<1>1. /\ db' = new /\ BookingsOf(new) = BookingsOf(writes) \cup BookingsOf(db)
      /\ \A b \in BookingsOf(db) :
           /\ new[ClassRow(b)].slot = db[ClassRow(b)].slot
           /\ new[ClassRow(b)].status # "CANCELLED" => db[ClassRow(b)].status # "CANCELLED"
           /\ b \notin BookingsOf(writes) => new[ClassRow(b)] = db[ClassRow(b)]
      /\ \A b \in BookingsOf(writes) : new[ClassRow(b)] = writes[ClassRow(b)]
      /\ \A b \in BookingsOf(writes) \ BookingsOf(db) :
           /\ writes[ClassRow(b)].slot \in SlotIds
           /\ LiveClassesOf(new, writes[ClassRow(b)].slot) = {b}
  BY Committed
<1> QED
  BY <1>1 DEF LiveClassesOf

(* What a commit leaves in the diary, besides the class it inserts. *)
LEMMA Withdrawing ==
  ASSUME IInv, DInv, NEW w \in Workers, Commit(w),
         NEW writes, writes = txns[w].writes, NEW new, new = Overlay(writes, db)
  PROVE  /\ \A t \in SlotIds \ Left(db, new) :
              ~(\E b \in BookingsOf(writes) \ BookingsOf(db) : t = writes[ClassRow(b)].slot)
                => Holders(new, t) = Holders(db, t)
         /\ \A t \in Left(db, new) :
              ~(\E b \in BookingsOf(writes) \ BookingsOf(db) : t = writes[ClassRow(b)].slot)
                => Holders(new, t) = {}
         /\ \A t \in Left(db, new) : \E b \in BookingsOf(writes) \cap BookingsOf(db) :
              b \in LiveClassesOf(db, t) /\ Holders(db, t) = {StudentOf(writes, b)}
<1>1. /\ \A t \in SlotIds : \A b \in LiveClassesOf(new, t) :
           \/ b \in LiveClassesOf(db, t)
           \/ /\ b \in BookingsOf(writes) \ BookingsOf(db)
              /\ t = writes[ClassRow(b)].slot
      /\ \A t \in SlotIds : \A b \in LiveClassesOf(db, t) \ LiveClassesOf(new, t) :
           b \in BookingsOf(writes) \cap BookingsOf(db)
      /\ \A t \in SlotIds : \A b \in LiveClassesOf(db, t) : b \in BookingsOf(db)
  BY CommittedClasses
<1>2. /\ \A b \in BookingsOf(db) : StudentOf(new, b) = StudentOf(db, b)
      /\ \A b \in BookingsOf(writes) : StudentOf(new, b) = StudentOf(writes, b)
  BY CommittedBookings
<1>3. \A t \in SlotIds : \A b, c \in LiveClassesOf(db, t) : b = c
  BY DEF IInv, OneClassPerSlot
<1>4. ASSUME NEW t \in SlotIds \ Left(db, new),
             ~(\E b \in BookingsOf(writes) \ BookingsOf(db) : t = writes[ClassRow(b)].slot)
      PROVE  Holders(new, t) = Holders(db, t)
  <2>1. LiveClassesOf(new, t) = LiveClassesOf(db, t)
    BY <1>1, <1>4 DEF Left
  <2>2. \A b \in LiveClassesOf(db, t) : StudentOf(new, b) = StudentOf(db, b)
    BY <1>1, <1>2
  <2> QED
    BY <2>1, <2>2 DEF Holders
<1>5. ASSUME NEW t \in Left(db, new)
      PROVE  /\ ~(\E b \in BookingsOf(writes) \ BookingsOf(db) : t = writes[ClassRow(b)].slot)
                => Holders(new, t) = {}
             /\ \E b \in BookingsOf(writes) \cap BookingsOf(db) :
                  b \in LiveClassesOf(db, t) /\ Holders(db, t) = {StudentOf(writes, b)}
  <2>1. PICK b \in LiveClassesOf(db, t) : t \in SlotIds /\ b \notin LiveClassesOf(new, t)
    BY DEF Left
  <2>2. b \in BookingsOf(writes) \cap BookingsOf(db)
    BY <1>1, <2>1
  <2>3. LiveClassesOf(db, t) = {b}
    BY <1>3, <2>1
  <2>4. Holders(db, t) = {StudentOf(writes, b)}
    <3>1. StudentOf(db, b) = StudentOf(writes, b)
      BY <1>2, <2>2
    <3> QED
      BY <2>3, <3>1 DEF Holders
  <2>5. ~(\E x \in BookingsOf(writes) \ BookingsOf(db) : t = writes[ClassRow(x)].slot)
          => LiveClassesOf(new, t) = {}
    BY <1>1, <2>1, <2>3
  <2> QED
    BY <2>2, <2>4, <2>5 DEF Holders
<1> QED
  BY <1>4, <1>5 DEF Left

LEMMA CommitIsDiaryStep ==
  ASSUME IInv, DInv, NEW w \in Workers, Commit(w)
  PROVE  [Diary!DiaryNext]_DiaryView
<1>1. PICK writes, new, left :
        /\ writes = txns[w].writes /\ new = Overlay(writes, db) /\ left = Left(db, new)
  OBVIOUS
<1>2. PICK old, own : /\ old = BookingsOf(writes) \cap BookingsOf(db)
                      /\ own = BookingsOf(writes) \ BookingsOf(db)
  OBVIOUS
<1>3. PICK view, after : view = DiaryView /\ after = DiaryView'
  OBVIOUS
<1>4. db' = new
  BY <1>1, CommittedClasses
<1>5. /\ view = [t \in SlotIds |-> Holders(db, t)]
      /\ after = [t \in SlotIds |-> Holders(new, t)]
  BY <1>3, <1>4 DEF DiaryView, Holders, StudentOf
<1>6. /\ left \subseteq SlotIds
      /\ \A t \in SlotIds \ left :
           ~(\E b \in own : t = writes[ClassRow(b)].slot) => after[t] = view[t]
      /\ \A t \in left : ~(\E b \in own : t = writes[ClassRow(b)].slot) => after[t] = {}
      /\ \A t \in left : \E b \in old :
           b \in LiveClassesOf(db, t) /\ view[t] = {StudentOf(writes, b)}
  <2>1. left \subseteq SlotIds
    BY <1>1 DEF Left
  <2>2. /\ \A t \in SlotIds \ left :
             ~(\E b \in own : t = writes[ClassRow(b)].slot) => Holders(new, t) = Holders(db, t)
        /\ \A t \in left : ~(\E b \in own : t = writes[ClassRow(b)].slot) => Holders(new, t) = {}
        /\ \A t \in left : \E b \in old :
             b \in LiveClassesOf(db, t) /\ Holders(db, t) = {StudentOf(writes, b)}
    BY <1>1, <1>2, Withdrawing
  <2> QED
    BY <1>5, <2>1, <2>2
<1>7. /\ \A b, c \in old \cup own : StudentOf(writes, b) = StudentOf(writes, c)
      /\ \A b, c \in own : b = c
      /\ \A b \in own : \A c, d \in old : c = d
  BY <1>1, <1>2 DEF DInv, Acts, ActsForOne
<1>8. \A b \in old \cup own : StudentOf(writes, b) \in StudentIds
  BY <1>1, <1>2, Facts DEF IsTable, WellFormed, Booking, BookingsOf, StudentOf
<1>9. CASE own = {} /\ left = {}
  BY <1>3, <1>5, <1>6, <1>9
<1>10. CASE own = {} /\ left # {}
  <2>1. PICK s \in left, b \in old : TRUE
    BY <1>6, <1>10
  <2>2. PICK st \in StudentIds : st = StudentOf(writes, b)
    BY <1>8
  <2>3. \A t \in left : view[t] = {st}
    BY <1>6, <1>7, <2>2
  <2>4. left \subseteq Diary!HeldBy(st)
    BY <1>3, <1>6, <2>3 DEF Diary!HeldBy, DiaryView
  <2>5. after = Diary!Freed(left)
    BY <1>3, <1>5, <1>6, <1>10 DEF Diary!Freed, DiaryView
  <2>6. Diary!GiveUp(st, left)
    BY <1>3, <2>4, <2>5 DEF Diary!GiveUp, DiaryView
  <2> QED
    BY <1>6, <2>2, <2>6 DEF Diary!DiaryNext
<1>11. CASE own # {}
  <2>1. PICK b \in own : own = {b}
    BY <1>7, <1>11
  <2>2. PICK st \in StudentIds : st = StudentOf(writes, b)
    BY <1>8
  <2>3. PICK to : to = writes[ClassRow(b)].slot
    OBVIOUS
  <2>4. to \in SlotIds /\ LiveClassesOf(new, to) = {b}
    BY <1>1, <1>2, <2>3, CommittedClasses
  <2>5. after[to] = {st}
    <3>1. StudentOf(new, b) = StudentOf(writes, b)
      BY <1>1, <1>2, CommittedBookings
    <3> QED
      BY <1>5, <2>2, <2>4, <3>1 DEF Holders
  <2>6. /\ \A t \in SlotIds \ (left \cup {to}) : after[t] = view[t]
        /\ \A t \in left \ {to} : after[t] = {}
        /\ \A t \in left : view[t] = {st}
    BY <1>6, <1>7, <2>1, <2>2, <2>3
  <2>7. \A s, t \in left : s = t
    <3> SUFFICES ASSUME NEW s \in left, NEW t \in left PROVE s = t
      OBVIOUS
    <3>1. PICK c \in old : c \in LiveClassesOf(db, s)
      BY <1>6
    <3>2. PICK d \in old : d \in LiveClassesOf(db, t)
      BY <1>6
    <3> QED
      BY <1>7, <2>1, <3>1, <3>2 DEF LiveClassesOf
  <2>8. view[to] = {} \/ to \in left
    <3>1. SUFFICES ASSUME NEW c \in LiveClassesOf(db, to) PROVE to \in left
      BY <1>5, <2>4 DEF Holders
    <3>2. c # b
      BY <1>2 DEF LiveClassesOf
    <3> QED
      BY <1>1, <2>4, <3>2 DEF Left
  <2>9. CASE to \in left
    <3>1. \A t \in SlotIds : after[t] = view[t]
      BY <2>5, <2>6, <2>7, <2>9
    <3>2. after = view
      BY <1>5, <3>1
    <3> QED
      BY <1>3, <3>2
  <2>10. CASE to \notin left /\ left = {}
    <3>1. after = [view EXCEPT ![to] = {st}]
      BY <1>5, <2>4, <2>5, <2>6, <2>10
    <3>2. Diary!Take(st, to)
      BY <1>3, <2>8, <2>10, <3>1 DEF Diary!Take, DiaryView
    <3> QED
      BY <2>2, <2>4, <3>2 DEF Diary!DiaryNext
  <2>11. CASE to \notin left /\ left # {}
    <3>1. PICK from \in left : left = {from}
      BY <2>7, <2>11
    <3>2. from \in Diary!HeldBy(st)
      BY <1>3, <1>6, <2>6 DEF Diary!HeldBy, DiaryView
    <3>3. PICK freed : freed = Diary!Freed({from})
      OBVIOUS
    <3>4. freed = [t \in SlotIds |-> IF t = from THEN {} ELSE view[t]]
      BY <1>3, <3>3 DEF Diary!Freed, DiaryView
    <3>5. after = [freed EXCEPT ![to] = {st}]
      BY <1>5, <2>4, <2>5, <2>6, <2>11, <3>1, <3>4
    <3>6. Diary!Move(st, from, to)
      BY <1>3, <2>8, <2>11, <3>2, <3>3, <3>5 DEF Diary!Move, DiaryView
    <3> QED
      BY <1>6, <2>2, <2>4, <3>6 DEF Diary!DiaryNext
  <2> QED
    BY <2>9, <2>10, <2>11
<1> QED
  BY <1>9, <1>10, <1>11

LEMMA InitDiary == Init => Diary!DiaryInit
<1> SUFFICES ASSUME Init PROVE Diary!DiaryInit
  OBVIOUS
<1>1. BookingsOf(db) = {}
  <2>1. DOMAIN db = {SlotRow(t) : t \in SlotIds} \cup {StudentRow(st) : st \in StudentIds}
    BY DEF Init, Overlay
  <2> QED
    BY <2>1, RowsApart DEF BookingsOf
<1> QED
  BY <1>1 DEF Diary!DiaryInit, LiveClassesOf

LEMMA StepIsDiaryStep ==
  ASSUME IInv, DInv, [Next]_vars
  PROVE  [Diary!DiaryNext]_DiaryView
<1>1. CASE db' = db
  BY <1>1 DEF DiaryView, LiveClassesOf, BookingsOf
<1>2. ASSUME NEW w \in Workers, Execute(w), db' # db PROVE Commit(w)
  BY <1>2 DEF Execute, CheckStudent, LockSlot, InsertBooking, LockBooking, LockClass,
     CancelBooking, ReleaseSlot, MarkAttendance, FindFutureBookings, WithdrawBooking,
     GiveSlotBack, AllWithdrawn, FlushRow, Refuse, Rollback
<1>3. ASSUME NEW w \in Workers, db' # db,
             \/ BeginBooking(w) \/ BeginChange(w) \/ BeginRescheduling(w) \/ BeginSwitch(w)
             \/ ChangeSlot(w) \/ LoseConnection(w) \/ AbortDeadlocked(w)
      PROVE  FALSE
  BY <1>3 DEF BeginBooking, BeginChange, BeginRescheduling, BeginSwitch, ChangeSlot, Begin,
     LoseConnection, AbortDeadlocked, Rollback
<1>4. CASE \E w \in Workers : Commit(w)
  BY <1>4, CommitIsDiaryStep
<1> QED
  BY <1>1, <1>2, <1>3, <1>4 DEF Next, StartSlot, vars

(* However the statements and the flushes of requests about slots interleave,
   their effect on the teachers' time is that of the abstract diary: a commit of
   book_one_on_one, of a cancellation, a rescheduling or a switch is one step of
   it, and nothing else changes it (ImplementsDiary). *)
THEOREM DiaryPromiseKept == Spec => ImplementsDiary
<1>1. Init => Diary!DiaryInit
  BY InitDiary
<1>2. IInv /\ DInv /\ [Next]_vars => [Diary!DiaryNext]_DiaryView
  BY StepIsDiaryStep
<1>3. IInv /\ DInv /\ [Next]_vars => DInv'
  BY DiaryInvStep
<1> QED
  BY <1>1, <1>2, <1>3, DiaryInvInit, SlotsKept, PTL
  DEF Spec, ImplementsDiary, Diary!DiarySpec, DiaryView

-----------------------------------------------------------------------------
(* The order of the locks.  Whoever is not switching a program locks a booking,
   its class and its slot in this order; a rescheduling locks a second slot. *)

(* The written rows that a flush has still to lock. *)
Unsent(w, writes) == {r \in DOMAIN writes \cap DOMAIN db : locks[r] # w}

HoldsNothing(w) == \A r \in Rows : locks[r] # w
HoldsNoSlot(w) == \A t \in SlotIds : locks[SlotRow(t)] # w

(* What is locked, and what is left to lock, at a stage of a request. *)
InOrder(w, txn) ==
  /\ txn.stage \notin {"FIND", "WITHDRAW", "GIVE_BACK"}
  /\ txn.stage = "BOOKING" => HoldsNothing(w)
  /\ txn.stage \in {"STUDENT", "SLOT"} /\ txn.kind \notin Moves =>
       HoldsNothing(w) /\ Unsent(w, txn.writes) = {}
  /\ txn.stage \in {"SLOT", "INSERT"} => Unsent(w, txn.writes) = {}
  /\ txn.stage = "CLASS" => \A r \in Rows : locks[r] = w => r = BookingRow(txn.booking)
  /\ txn.stage \in {"CLASS", "CHANGE", "RELEASE"} => locks[BookingRow(txn.booking)] = w
  /\ txn.stage \in {"CHANGE", "RELEASE"} => HoldsNoSlot(w)
  /\ txn.stage = "RELEASE" =>
       DOMAIN txn.writes \subseteq {BookingRow(txn.booking), ClassRow(txn.booking)}
  /\ txn.stage \in {"STUDENT", "COMMIT"} =>
       \A r, q \in Unsent(w, txn.writes) :
         r = q /\ r \in {SlotRow(t) : t \in SlotIds} /\ HoldsNoSlot(w)

Ordered(w, txn) ==
  /\ txn.stage = "IDLE" => HoldsNothing(w)
  /\ txn.kind # "SWITCH" => InOrder(w, txn)

LockOrder == \A w \in Workers : Ordered(w, txns[w])

(* What the locks are of worker w's transaction, the others need not know. *)
LEMMA OrderStep ==
  ASSUME IInv, LockOrder, NEW w \in Workers, NEW txn, db' = db,
         txns' = [txns EXCEPT ![w] = txn],
         \A v \in Workers \ {w} : \A r \in Rows : locks'[r] = v <=> locks[r] = v,
         Ordered(w, txn)'
  PROVE  LockOrder'
<1>1. \A v \in Workers : txns'[v] = IF v = w THEN txn ELSE txns[v]
  BY DEF IInv, TypeInv
<1>2. ASSUME NEW v \in Workers PROVE Ordered(v, txns[v])'
  <2>1. CASE v = w
    <3>1. txns'[v] = txn
      BY <1>1, <2>1
    <3> QED
      BY <2>1, <3>1 DEF Ordered, InOrder
  <2>2. CASE v # w
    <3>1. PICK own : own = txns[v]
      OBVIOUS
    <3>2. Ordered(v, own) /\ IsTable(own.writes) /\ Placed(v, own) /\ txns'[v] = own
      BY <1>1, <2>2, <3>1, Facts DEF LockOrder
    <3>3. \A r \in Rows : locks'[r] = v <=> locks[r] = v
      BY <2>2
    <3>4. /\ Unsent(v, own.writes)' = Unsent(v, own.writes)
          /\ HoldsNothing(v)' = HoldsNothing(v) /\ HoldsNoSlot(v)' = HoldsNoSlot(v)
      BY <3>2, <3>3, AreRows, Tables DEF Unsent, HoldsNothing, HoldsNoSlot, IsTable
    <3>5. own.stage \in {"CLASS", "CHANGE", "RELEASE"} => BookingRow(own.booking) \in Rows
      BY <3>2, AreRows DEF Placed, BookingsOf
    <3>6. Ordered(v, own)'
      BY <3>2, <3>3, <3>4, <3>5 DEF Ordered, InOrder
    <3> QED
      BY <3>2, <3>6 DEF Ordered, InOrder
  <2> QED
    BY <2>1, <2>2
<1> QED
  BY <1>2 DEF LockOrder

(* A step that takes no lock. *)
LEMMA OrderKept ==
  ASSUME IInv, LockOrder, NEW w \in Workers, NEW txn, db' = db, locks' = locks,
         txns' = [txns EXCEPT ![w] = txn], Ordered(w, txn)
  PROVE  LockOrder'
<1>1. Ordered(w, txn)'
  BY DEF Ordered, InOrder, HoldsNothing, HoldsNoSlot, Unsent
<1> QED
  BY <1>1, OrderStep

LEMMA TakesOne ==
  ASSUME IInv, NEW w \in Workers, NEW r \in Rows, Takes(w, r)
  PROVE  /\ \A v \in Workers \ {w} : \A x \in Rows : locks'[x] = v <=> locks[x] = v
         /\ \A x \in Rows : locks'[x] = w <=> x = r \/ locks[x] = w
         /\ db' = db => \A writes : DOMAIN writes \subseteq Rows =>
              Unsent(w, writes)' = Unsent(w, writes) \ {r}
<1>1. \A x \in Rows : locks'[x] = IF x = r THEN w ELSE locks[x]
  BY DEF IInv, TypeInv, Takes
<1>2. locks[r] \in {None, w} /\ None \notin Workers
  BY SlotSeatsAssumption DEF Takes
<1>3. \A x \in Rows : locks'[x] = w <=> x = r \/ locks[x] = w
  BY <1>1
<1> QED
  BY <1>1, <1>2, <1>3 DEF Unsent

(* Nothing is left to lock of what a transaction has locked. *)
LEMMA UnsentOf ==
  ASSUME NEW w, NEW more, NEW writes, NEW new, new = Overlay(more, writes)
  PROVE  Unsent(w, new) \subseteq Unsent(w, more) \cup Unsent(w, writes)
<1>1. DOMAIN new = DOMAIN writes \cup DOMAIN more
  BY Overlays
<1> QED
  BY <1>1 DEF Unsent

(* A transaction goes on to a stage, with more rows written. *)
LEMMA GoesOn ==
  ASSUME IInv, NEW w \in Workers, NEW stage, NEW more, Goes(w, stage, more)
  PROVE  \E txn :
           /\ txns' = [txns EXCEPT ![w] = txn]
           /\ txn.stage = stage /\ txn.kind = txns[w].kind /\ txn.booking = txns[w].booking
           /\ txn.writes = Overlay(more, txns[w].writes)
<1> DEFINE txn == [txns[w] EXCEPT !.stage = stage, !.writes = Overlay(more, txns[w].writes)]
<1>1. txns' = [txns EXCEPT ![w] = txn]
  BY DEF Goes
<1>2. /\ txn.stage = stage /\ txn.kind = txns[w].kind /\ txn.booking = txns[w].booking
      /\ txn.writes = Overlay(more, txns[w].writes)
  BY Facts DEF Txn
<1> QED
  BY <1>1, <1>2

LEMMA CommitsNext ==
  ASSUME IInv, NEW w \in Workers, NEW more, GoesToCommit(w, more)
  PROVE  \E txn :
           /\ txns' = [txns EXCEPT ![w] = txn]
           /\ txn.stage = "COMMIT" /\ txn.kind = txns[w].kind
           /\ txn.writes = Overlay(more, txns[w].writes)
<1> DEFINE txn == [Request(txns[w].kind, "COMMIT") EXCEPT
                     !.writes = Overlay(more, txns[w].writes)]
<1>1. txns' = [txns EXCEPT ![w] = txn]
  BY DEF GoesToCommit
<1>2. /\ txn.stage = "COMMIT" /\ txn.kind = txns[w].kind
      /\ txn.writes = Overlay(more, txns[w].writes)
  BY DEF Request, Idle
<1> QED
  BY <1>1, <1>2

LEMMA InsertBookingOrder ==
  ASSUME IInv, LockOrder, NEW w \in Workers, InsertBooking(w)
  PROVE  LockOrder'
<1> DEFINE b == CHOOSE x \in BookingIds : x \notin KeysInUse
           pair == BookingAndClass(b, [student |-> txns[w].student, status |-> "BOOKED"],
                                      [slot |-> txns[w].slot, status |-> "SCHEDULED"])
           one == OneRow(SlotRow(txns[w].slot), "BOOKED")
<1>1. /\ txns[w].stage = "INSERT" /\ GoesToCommit(w, Overlay(pair, one))
      /\ b \in BookingIds /\ b \notin KeysInUse /\ UNCHANGED <<db, started, locks>>
  BY DEF InsertBooking
<1>2. BookingRow(b) \notin DOMAIN db /\ ClassRow(b) \notin DOMAIN db
  BY <1>1, Facts DEF KeysInUse, IsTable, WellFormed
<1>3. locks[SlotRow(txns[w].slot)] = w
  BY <1>1, Facts DEF Placed
<1>4. DOMAIN pair = {BookingRow(b), ClassRow(b)} /\ DOMAIN one = {SlotRow(txns[w].slot)}
  BY DEF BookingAndClass, OneRow
<1> HIDE DEF b, pair, one
<1>5. PICK more : more = Overlay(pair, one)
  OBVIOUS
<1>6. Unsent(w, more) = {}
  <2>1. Unsent(w, pair) = {} /\ Unsent(w, one) = {}
    BY <1>2, <1>3, <1>4 DEF Unsent
  <2> QED
    BY <1>5, <2>1, UnsentOf
<1>7. PICK txn :
        /\ txns' = [txns EXCEPT ![w] = txn]
        /\ txn.stage = "COMMIT" /\ txn.kind = txns[w].kind
        /\ txn.writes = Overlay(more, txns[w].writes)
  BY <1>1, <1>5, CommitsNext
<1>8. txns[w].kind # "SWITCH" => Unsent(w, txns[w].writes) = {}
  BY <1>1 DEF LockOrder, Ordered, InOrder
<1>9. txns[w].kind # "SWITCH" => Unsent(w, txn.writes) = {}
  BY <1>6, <1>7, <1>8, UnsentOf
<1>10. Ordered(w, txn)
  BY <1>7, <1>9 DEF Ordered, InOrder
<1> QED
  BY <1>1, <1>7, <1>10, OrderKept

LEMMA CheckStudentOrder ==
  ASSUME IInv, LockOrder, NEW w \in Workers, CheckStudent(w)
  PROVE  LockOrder'
<1>1. /\ txns[w].stage = "STUDENT" /\ Unsent(w, txns[w].writes) = {}
      /\ Goes(w, "SLOT", EmptyTable) /\ UNCHANGED <<db, started, locks>>
  BY DEF CheckStudent, Flushed, Unflushed, Unsent
<1>2. PICK txn :
        /\ txns' = [txns EXCEPT ![w] = txn]
        /\ txn.stage = "SLOT" /\ txn.kind = txns[w].kind /\ txn.booking = txns[w].booking
        /\ txn.writes = Overlay(EmptyTable, txns[w].writes)
  BY <1>1, GoesOn
<1>3. txn.writes = txns[w].writes
  BY <1>2, Facts, NothingWritten
<1>4. Ordered(w, txns[w])
  BY DEF LockOrder
<1>5. Ordered(w, txn)
  BY <1>1, <1>2, <1>3, <1>4 DEF Ordered, InOrder
<1> QED
  BY <1>1, <1>2, <1>5, OrderKept

LEMMA CancelBookingOrder ==
  ASSUME IInv, LockOrder, NEW w \in Workers, CancelBooking(w)
  PROVE  LockOrder'
<1> DEFINE b == txns[w].booking
           more == BookingAndClass(b, [BookingSeen(w) EXCEPT !.status = "CANCELLED"],
                                      CancelledClass(w))
<1>1. /\ txns[w].stage = "CHANGE" /\ Goes(w, "RELEASE", more) /\ UNCHANGED <<db, started, locks>>
  BY DEF CancelBooking
<1>2. DOMAIN more = {BookingRow(b), ClassRow(b)}
  BY DEF BookingAndClass
<1>3. DOMAIN txns[w].writes = {}
  BY <1>1, Facts DEF Placed
<1> HIDE DEF b, more
<1>4. PICK txn :
        /\ txns' = [txns EXCEPT ![w] = txn]
        /\ txn.stage = "RELEASE" /\ txn.kind = txns[w].kind /\ txn.booking = b
        /\ txn.writes = Overlay(more, txns[w].writes)
  BY <1>1, GoesOn DEF b
<1>5. DOMAIN Overlay(more, txns[w].writes) = DOMAIN txns[w].writes \cup DOMAIN more
  BY Overlays
<1>6. DOMAIN txn.writes \subseteq {BookingRow(b), ClassRow(b)}
  BY <1>2, <1>3, <1>4, <1>5
<1>7. Ordered(w, txns[w])
  BY DEF LockOrder
<1>8. Ordered(w, txn)
  BY <1>1, <1>4, <1>6, <1>7 DEF Ordered, InOrder, b
<1> QED
  BY <1>1, <1>4, <1>8, OrderKept

LEMMA ReleaseSlotOrder ==
  ASSUME IInv, LockOrder, NEW w \in Workers, ReleaseSlot(w)
  PROVE  LockOrder'
<1> DEFINE b == txns[w].booking
<1>1. /\ txns[w].stage = "RELEASE" /\ UNCHANGED <<db, started, locks>>
      /\ \/ Rescheduling(w) /\ Goes(w, "STUDENT", SlotReleased(w))
         \/ GoesToCommit(w, SlotReleased(w))
  BY DEF ReleaseSlot
<1>2. b \in BookingsOf(db) /\ locks[ClassRow(b)] = w /\ db[ClassRow(b)].slot \in SlotIds
  BY <1>1, Facts DEF Placed, Class
<1>3. PICK more : more = SlotReleased(w)
  OBVIOUS
<1>4. DOMAIN more \subseteq {SlotRow(db[ClassRow(b)].slot)}
  BY <1>3, EmptyIsTable DEF SlotReleased, GivenBack, ClassSeen, OneRow
<1>5. PICK t \in SlotIds : DOMAIN more \subseteq {SlotRow(t)}
  BY <1>2, <1>4
<1> HIDE DEF b
<1>6. PICK txn :
        /\ txns' = [txns EXCEPT ![w] = txn]
        /\ \/ txn.stage = "STUDENT" /\ txn.kind \in Moves
           \/ txn.stage = "COMMIT"
        /\ txn.kind = txns[w].kind /\ txn.writes = Overlay(more, txns[w].writes)
  BY <1>1, <1>3, GoesOn, CommitsNext DEF Rescheduling, Moves
<1>7. Ordered(w, txns[w])
  BY DEF LockOrder
<1>8. ASSUME txns[w].kind # "SWITCH"
      PROVE  Unsent(w, txn.writes) \subseteq {SlotRow(t)} /\ HoldsNoSlot(w)
  <2>1. /\ locks[BookingRow(b)] = w /\ HoldsNoSlot(w)
        /\ DOMAIN txns[w].writes \subseteq {BookingRow(b), ClassRow(b)}
    BY <1>1, <1>7, <1>8 DEF Ordered, InOrder, b
  <2>2. Unsent(w, txns[w].writes) = {} /\ Unsent(w, more) \subseteq {SlotRow(t)}
    BY <1>2, <1>5, <2>1 DEF Unsent
  <2> QED
    BY <1>6, <2>1, <2>2, UnsentOf
<1>9. Ordered(w, txn)
  BY <1>6, <1>8 DEF Ordered, InOrder
<1> QED
  BY <1>1, <1>6, <1>9, OrderKept

LEMMA MarkAttendanceOrder ==
  ASSUME IInv, LockOrder, NEW w \in Workers, MarkAttendance(w)
  PROVE  LockOrder'
<1> DEFINE b == txns[w].booking
           more == BookingAndClass(b, [BookingSeen(w) EXCEPT !.status = "ATTENDED"],
                                      [ClassSeen(w) EXCEPT !.status = "COMPLETED"])
<1>1. /\ txns[w].stage = "CHANGE" /\ GoesToCommit(w, more) /\ UNCHANGED <<db, started, locks>>
  BY DEF MarkAttendance
<1>2. DOMAIN more = {BookingRow(b), ClassRow(b)}
  BY DEF BookingAndClass
<1>3. DOMAIN txns[w].writes = {} /\ locks[ClassRow(b)] = w
  BY <1>1, Facts DEF Placed
<1> HIDE DEF b, more
<1>4. PICK txn :
        /\ txns' = [txns EXCEPT ![w] = txn]
        /\ txn.stage = "COMMIT" /\ txn.kind = txns[w].kind
        /\ txn.writes = Overlay(more, txns[w].writes)
  BY <1>1, CommitsNext
<1>5. txns[w].kind # "SWITCH" => locks[BookingRow(b)] = w
  BY <1>1 DEF LockOrder, Ordered, InOrder, b
<1>6. txns[w].kind # "SWITCH" => Unsent(w, txn.writes) = {}
  <2>1. Unsent(w, txns[w].writes) = {}
    BY <1>3 DEF Unsent
  <2>2. txns[w].kind # "SWITCH" => Unsent(w, more) = {}
    BY <1>2, <1>3, <1>5 DEF Unsent
  <2> QED
    BY <1>4, <2>1, <2>2, UnsentOf
<1>7. Ordered(w, txn)
  BY <1>4, <1>6 DEF Ordered, InOrder
<1> QED
  BY <1>1, <1>4, <1>7, OrderKept

(* A switch may lock in any order. *)
LEMMA SwitchOrder ==
  ASSUME IInv, LockOrder, NEW w \in Workers,
         FindFutureBookings(w) \/ WithdrawBooking(w) \/ GiveSlotBack(w) \/ AllWithdrawn(w)
  PROVE  LockOrder'
<1>1. txns[w].stage \in {"FIND", "WITHDRAW", "GIVE_BACK"} /\ UNCHANGED <<db, started, locks>>
  BY DEF FindFutureBookings, WithdrawBooking, GiveSlotBack, AllWithdrawn
<1>2. txns[w].kind = "SWITCH"
  BY <1>1 DEF LockOrder, Ordered, InOrder
<1>3. \E txn : /\ txns' = [txns EXCEPT ![w] = txn]
               /\ txn.kind = "SWITCH" /\ txn.stage # "IDLE"
  <2>1. CASE FindFutureBookings(w)
    <3>1. PICK todo : txns' = [txns EXCEPT ![w].stage = "WITHDRAW", ![w].todo = todo]
      BY <2>1 DEF FindFutureBookings
    <3>2. PICK txn : txn = [txns[w] EXCEPT !.stage = "WITHDRAW", !.todo = todo]
      OBVIOUS
    <3>3. txns' = [txns EXCEPT ![w] = txn] /\ txn.kind = "SWITCH" /\ txn.stage = "WITHDRAW"
      BY <1>2, <3>1, <3>2, Facts DEF Txn
    <3> QED
      BY <3>3
  <2>2. CASE WithdrawBooking(w)
    <3>1. PICK b, more :
            txns' = [txns EXCEPT ![w].stage = "GIVE_BACK", ![w].booking = b,
                                 ![w].writes = Overlay(more, @)]
      BY <2>2 DEF WithdrawBooking
    <3>2. PICK txn : txn = [txns[w] EXCEPT !.stage = "GIVE_BACK", !.booking = b,
                                           !.writes = Overlay(more, @)]
      OBVIOUS
    <3>3. txns' = [txns EXCEPT ![w] = txn] /\ txn.kind = "SWITCH" /\ txn.stage = "GIVE_BACK"
      BY <1>2, <3>1, <3>2, Facts DEF Txn
    <3> QED
      BY <3>3
  <2>3. CASE GiveSlotBack(w)
    <3>1. PICK b, more :
            txns' = [txns EXCEPT ![w].stage = "WITHDRAW", ![w].todo = @ \ {b},
                                 ![w].writes = Overlay(more, @)]
      BY <2>3 DEF GiveSlotBack
    <3>2. PICK txn : txn = [txns[w] EXCEPT !.stage = "WITHDRAW", !.todo = @ \ {b},
                                           !.writes = Overlay(more, @)]
      OBVIOUS
    <3>3. txns' = [txns EXCEPT ![w] = txn] /\ txn.kind = "SWITCH" /\ txn.stage = "WITHDRAW"
      BY <1>2, <3>1, <3>2, Facts DEF Txn
    <3> QED
      BY <3>3
  <2>4. CASE AllWithdrawn(w)
    BY <1>2, <2>4, CommitsNext DEF AllWithdrawn
  <2> QED
    BY <2>1, <2>2, <2>3, <2>4
<1>4. PICK txn : /\ txns' = [txns EXCEPT ![w] = txn]
                 /\ txn.kind = "SWITCH" /\ txn.stage # "IDLE"
  BY <1>3
<1>5. Ordered(w, txn)
  BY <1>4 DEF Ordered
<1> QED
  BY <1>1, <1>4, <1>5, OrderKept

LEMMA LockSlotOrder ==
  ASSUME IInv, LockOrder, NEW w \in Workers, LockSlot(w)
  PROVE  LockOrder'
<1>1. /\ txns[w].stage = "SLOT" /\ Takes(w, SlotRow(txns[w].slot)) /\ SlotRow(txns[w].slot) \in Rows
      /\ Goes(w, "INSERT", EmptyTable) /\ db' = db
  BY Facts, AreRows DEF LockSlot, Placed
<1>2. PICK txn :
        /\ txns' = [txns EXCEPT ![w] = txn]
        /\ txn.stage = "INSERT" /\ txn.kind = txns[w].kind /\ txn.booking = txns[w].booking
        /\ txn.writes = Overlay(EmptyTable, txns[w].writes)
  BY <1>1, GoesOn
<1>3. txn.writes = txns[w].writes /\ DOMAIN txn.writes \subseteq Rows
  BY <1>2, Facts, NothingWritten, Tables DEF IsTable
<1>4. /\ \A v \in Workers \ {w} : \A x \in Rows : locks'[x] = v <=> locks[x] = v
      /\ Unsent(w, txn.writes)' = Unsent(w, txn.writes) \ {SlotRow(txns[w].slot)}
  BY <1>1, <1>3, TakesOne
<1>5. txns[w].kind # "SWITCH" => Unsent(w, txns[w].writes) = {}
  BY <1>1 DEF LockOrder, Ordered, InOrder
<1>6. Ordered(w, txn)'
  BY <1>2, <1>3, <1>4, <1>5 DEF Ordered, InOrder
<1> QED
  BY <1>1, <1>2, <1>4, <1>6, OrderStep

LEMMA LockBookingOrder ==
  ASSUME IInv, LockOrder, NEW w \in Workers, LockBooking(w)
  PROVE  LockOrder'
<1>1. /\ txns[w].stage = "BOOKING" /\ Goes(w, "CLASS", EmptyTable) /\ db' = db
      /\ Takes(w, BookingRow(txns[w].booking)) /\ BookingRow(txns[w].booking) \in Rows
  BY Facts, AreRows DEF LockBooking, Placed
<1>2. PICK txn :
        /\ txns' = [txns EXCEPT ![w] = txn]
        /\ txn.stage = "CLASS" /\ txn.kind = txns[w].kind /\ txn.booking = txns[w].booking
        /\ txn.writes = Overlay(EmptyTable, txns[w].writes)
  BY <1>1, GoesOn
<1>3. /\ \A v \in Workers \ {w} : \A x \in Rows : locks'[x] = v <=> locks[x] = v
      /\ \A x \in Rows : locks'[x] = w <=> x = BookingRow(txns[w].booking) \/ locks[x] = w
  BY <1>1, TakesOne
<1>4. txns[w].kind # "SWITCH" => HoldsNothing(w)
  BY <1>1 DEF LockOrder, Ordered, InOrder
<1>5. Ordered(w, txn)'
  BY <1>1, <1>2, <1>3, <1>4 DEF Ordered, InOrder, HoldsNothing
<1> QED
  BY <1>1, <1>2, <1>3, <1>5, OrderStep

LEMMA LockClassOrder ==
  ASSUME IInv, LockOrder, NEW w \in Workers, LockClass(w)
  PROVE  LockOrder'
<1> DEFINE b == txns[w].booking
<1>1. /\ txns[w].stage = "CLASS" /\ db' = db
      /\ txns' = [txns EXCEPT ![w].stage = "CHANGE", ![w].begun = started]
      /\ Takes(w, ClassRow(b)) /\ ClassRow(b) \in Rows /\ BookingRow(b) \in Rows
  BY Facts, AreRows DEF LockClass, Placed
<1> HIDE DEF b
<1>2. PICK txn : txn = [txns[w] EXCEPT !.stage = "CHANGE", !.begun = started]
  OBVIOUS
<1>3. /\ txns' = [txns EXCEPT ![w] = txn]
      /\ txn.stage = "CHANGE" /\ txn.kind = txns[w].kind /\ txn.booking = b
  BY <1>1, <1>2, Facts DEF Txn, b
<1>4. /\ \A v \in Workers \ {w} : \A x \in Rows : locks'[x] = v <=> locks[x] = v
      /\ \A x \in Rows : locks'[x] = w <=> x = ClassRow(b) \/ locks[x] = w
  BY <1>1, TakesOne
<1>5. txns[w].kind # "SWITCH" =>
        /\ \A r \in Rows : locks[r] = w => r = BookingRow(b)
        /\ locks[BookingRow(b)] = w
  BY <1>1 DEF LockOrder, Ordered, InOrder, b
<1>6. txns[w].kind # "SWITCH" => HoldsNoSlot(w)' /\ locks'[BookingRow(b)] = w
  BY <1>1, <1>4, <1>5, AreRows, RowsApart DEF HoldsNoSlot
<1>7. Ordered(w, txn)'
  BY <1>3, <1>6 DEF Ordered, InOrder
<1> QED
  BY <1>1, <1>3, <1>4, <1>7, OrderStep

LEMMA FlushRowOrder ==
  ASSUME IInv, LockOrder, NEW w \in Workers, FlushRow(w)
  PROVE  LockOrder'
<1>1. PICK r \in Unflushed(w) : Takes(w, r)
  BY DEF FlushRow
<1>2. PICK txn : txn = txns[w]
  OBVIOUS
<1>3. /\ txn.stage \in FlushStages /\ txn.stage # "IDLE" /\ db' = db
      /\ txns' = [txns EXCEPT ![w] = txn]
  BY <1>2 DEF FlushRow, FlushStages, IInv, TypeInv
<1>4. DOMAIN txn.writes \subseteq Rows /\ r \in Rows /\ r \in Unsent(w, txn.writes)
  BY <1>1, <1>2, Facts, Tables DEF Unflushed, Unsent, IsTable
<1>5. /\ \A v \in Workers \ {w} : \A x \in Rows : locks'[x] = v <=> locks[x] = v
      /\ Unsent(w, txn.writes)' = Unsent(w, txn.writes) \ {r}
  BY <1>1, <1>3, <1>4, TakesOne
<1>6. Ordered(w, txn)'
  <2>1. Ordered(w, txn)
    BY <1>2 DEF LockOrder
  <2>2. CASE txn.kind # "SWITCH"
    <3>1. Unsent(w, txn.writes)' = {}
      BY <1>3, <1>4, <1>5, <2>1, <2>2 DEF Ordered, InOrder, FlushStages
    <3>2. txn.stage \in {"STUDENT", "COMMIT"} /\ (txn.stage = "STUDENT" => txn.kind \in Moves)
      BY <1>3, <1>4, <2>1, <2>2 DEF Ordered, InOrder, FlushStages
    <3> QED
      BY <3>1, <3>2 DEF Ordered, InOrder
  <2>3. CASE txn.kind = "SWITCH"
    BY <1>3, <2>3 DEF Ordered
  <2> QED
    BY <2>2, <2>3
<1> QED
  BY <1>3, <1>5, <1>6, OrderStep

LEMMA BeginOrder ==
  ASSUME IInv, LockOrder, NEW w \in Workers,
         \/ BeginBooking(w) \/ BeginChange(w) \/ BeginRescheduling(w)
         \/ BeginSwitch(w) \/ ChangeSlot(w)
  PROVE  LockOrder'
<1>1. ASSUME NEW txn, Begin(w, txn), txn.stage # "IDLE",
             \/ txn.kind = "SWITCH"
             \/ txn.stage \in {"STUDENT", "BOOKING"} /\ txn.writes = EmptyTable
             \/ \E t \in SlotIds : txn.stage = "COMMIT" /\ DOMAIN txn.writes = {SlotRow(t)}
      PROVE  LockOrder'
  <2>1. txns' = [txns EXCEPT ![w] = txn] /\ UNCHANGED <<db, locks>> /\ txns[w].stage = "IDLE"
    BY <1>1 DEF Begin
  <2>2. HoldsNothing(w)
    BY <2>1 DEF LockOrder, Ordered
  <2>3. HoldsNoSlot(w)
    BY <2>2, AreRows DEF HoldsNothing, HoldsNoSlot
  <2>4. CASE txn.kind = "SWITCH"
    BY <1>1, <2>1, <2>4, OrderKept DEF Ordered
  <2>5. CASE txn.stage \in {"STUDENT", "BOOKING"} /\ txn.writes = EmptyTable
    <3>1. Unsent(w, txn.writes) = {}
      BY <2>5, EmptyIsTable DEF Unsent
    <3>2. Ordered(w, txn)
      BY <2>2, <2>5, <3>1 DEF Ordered, InOrder
    <3> QED
      BY <2>1, <3>2, OrderKept
  <2>6. ASSUME NEW t \in SlotIds, txn.stage = "COMMIT", DOMAIN txn.writes = {SlotRow(t)}
        PROVE  LockOrder'
    <3>1. Unsent(w, txn.writes) \subseteq {SlotRow(t)}
      BY <2>6 DEF Unsent
    <3>2. Ordered(w, txn)
      BY <2>3, <2>6, <3>1 DEF Ordered, InOrder
    <3> QED
      BY <2>1, <3>2, OrderKept
  <2> QED
    BY <1>1, <2>4, <2>5, <2>6
<1>2. CASE BeginBooking(w)
  <2>1. PICK st \in StudentIds, t \in SlotIds : \E txn :
          /\ Begin(w, txn)
          /\ txn = [Request("BOOK", "STUDENT") EXCEPT !.student = st, !.slot = t, !.begun = started]
    BY <1>2 DEF BeginBooking
  <2>2. PICK txn : Begin(w, txn) /\ txn.stage = "STUDENT" /\ txn.writes = EmptyTable
    BY <2>1 DEF Request, Idle
  <2> QED
    BY <1>1, <2>2
<1>3. CASE BeginChange(w)
  <2>1. PICK b \in BookingsOf(db), kind \in {"CANCEL", "ADMIN_CANCEL", "MARK"} : \E txn :
          Begin(w, txn) /\ txn = [Request(kind, "BOOKING") EXCEPT !.booking = b]
    BY <1>3 DEF BeginChange
  <2>2. PICK txn : Begin(w, txn) /\ txn.stage = "BOOKING" /\ txn.writes = EmptyTable
    BY <2>1 DEF Request, Idle
  <2> QED
    BY <1>1, <2>2
<1>4. CASE BeginRescheduling(w)
  <2>1. PICK b \in BookingsOf(db), t \in SlotIds, kind \in {"RESCHEDULE", "ADMIN_RESCHEDULE"} :
          \E txn :
            /\ Begin(w, txn)
            /\ txn = [Request(kind, "BOOKING") EXCEPT
                        !.booking = b, !.student = db[BookingRow(b)].student, !.slot = t]
    BY <1>4 DEF BeginRescheduling
  <2>2. PICK txn :
          /\ Begin(w, txn)
          /\ txn = [Request(kind, "BOOKING") EXCEPT
                      !.booking = b, !.student = db[BookingRow(b)].student, !.slot = t]
    BY <2>1
  <2>3. PICK st : st = db[BookingRow(b)].student
    OBVIOUS
  <2>4. txn = [Request(kind, "BOOKING") EXCEPT !.booking = b, !.student = st, !.slot = t]
    BY <2>2, <2>3
  <2>5. txn.stage = "BOOKING" /\ txn.writes = EmptyTable
    BY <2>4 DEF Request, Idle
  <2> QED
    BY <1>1, <2>2, <2>5
<1>5. CASE BeginSwitch(w)
  <2>1. PICK st \in StudentIds, program \in Programs : \E txn :
          /\ Begin(w, txn)
          /\ txn = [Request("SWITCH", "FIND") EXCEPT
                      !.student = st, !.begun = started, !.writes = OneRow(StudentRow(st), program)]
    BY <1>5 DEF BeginSwitch
  <2>2. PICK txn : Begin(w, txn) /\ txn.stage = "FIND" /\ txn.kind = "SWITCH"
    BY <2>1 DEF Request, Idle
  <2> QED
    BY <1>1, <2>2
<1>6. CASE ChangeSlot(w)
  <2>1. PICK t \in SlotIds, kind \in {"UPDATE_SLOT", "DELETE_SLOT"},
             status \in SlotStatuses \ {"BOOKED"} : \E txn :
          /\ Begin(w, txn)
          /\ txn = [Request(kind, "COMMIT") EXCEPT !.writes = OneRow(SlotRow(t), status)]
    BY <1>6 DEF ChangeSlot
  <2>2. PICK txn : Begin(w, txn) /\ txn.stage = "COMMIT" /\ DOMAIN txn.writes = {SlotRow(t)}
    BY <2>1 DEF Request, Idle, OneRow
  <2> QED
    BY <1>1, <2>2
<1> QED
  BY <1>2, <1>3, <1>4, <1>5, <1>6

(* A commit writes no row that another transaction is going to insert. *)
LEMMA CommittedRows ==
  ASSUME IInv, NEW w \in Workers, NEW v \in Workers \ {w}, db' = Seen(w)
  PROVE  DOMAIN txns[v].writes \cap DOMAIN db' = DOMAIN txns[v].writes \cap DOMAIN db
<1>1. PICK own, more : own = txns[v].writes /\ more = txns[w].writes
  OBVIOUS
<1>2. DOMAIN db' = DOMAIN db \cup DOMAIN more
  BY <1>1, Overlays DEF Seen
<1>3. ASSUME NEW r \in DOMAIN own \cap DOMAIN more PROVE r \in DOMAIN db
  <2>1. IsTable(own) /\ IsTable(more) /\ IsTable(db) /\ r \in Rows
    BY <1>1, <1>3, Facts, Tables DEF IsTable
  <2>2. CASE \E st \in StudentIds : r = StudentRow(st)
    BY <2>2 DEF IInv, TypeInv
  <2>3. CASE \E t \in SlotIds : r = SlotRow(t)
    BY <2>3 DEF IInv, TypeInv
  <2>4. ASSUME NEW b \in BookingIds, r \in {BookingRow(b), ClassRow(b)} PROVE r \in DOMAIN db
    <3>1. b \in BookingsOf(own) \cap BookingsOf(more)
      BY <1>3, <2>1, <2>4 DEF IsTable, WellFormed, BookingsOf
    <3>2. b \in BookingsOf(db)
      BY <1>1, <3>1 DEF IInv, Apart
    <3> QED
      BY <2>4, <3>2, Facts
  <2> QED
    BY <2>1, <2>2, <2>3, <2>4 DEF Rows
<1> QED
  BY <1>1, <1>2, <1>3

LEMMA EndOrder ==
  ASSUME IInv, LockOrder, NEW w \in Workers, End(w),
         db' = db \/ db' = Seen(w)
  PROVE  LockOrder'
<1>1. /\ \A v \in Workers : txns'[v] = IF v = w THEN Idle ELSE txns[v]
      /\ \A x \in Rows : locks'[x] = IF locks[x] = w THEN None ELSE locks[x]
      /\ None \notin Workers
  BY SlotSeatsAssumption DEF End, IInv, TypeInv
<1>2. ASSUME NEW v \in Workers PROVE Ordered(v, txns[v])'
  <2>1. CASE v = w
    <3>1. txns'[v].stage = "IDLE" /\ txns'[v].kind = "NONE" /\ txns'[v].writes = EmptyTable
      BY <1>1, <2>1, IdleIsTxn
    <3>2. HoldsNothing(v)'
      BY <1>1, <2>1 DEF HoldsNothing
    <3> QED
      BY <3>1, <3>2 DEF Ordered, InOrder
  <2>2. CASE v # w
    <3>1. PICK own : own = txns[v]
      OBVIOUS
    <3>2. Ordered(v, own) /\ IsTable(own.writes) /\ Placed(v, own) /\ txns'[v] = own
      BY <1>1, <2>2, <3>1, Facts DEF LockOrder
    <3>3. \A r \in Rows : locks'[r] = v <=> locks[r] = v
      BY <1>1, <2>2
    <3>4. DOMAIN own.writes \cap DOMAIN db' = DOMAIN own.writes \cap DOMAIN db
      BY <2>2, <3>1, CommittedRows
    <3>5. /\ Unsent(v, own.writes)' = Unsent(v, own.writes)
          /\ HoldsNothing(v)' = HoldsNothing(v) /\ HoldsNoSlot(v)' = HoldsNoSlot(v)
      BY <3>2, <3>3, <3>4, AreRows, Tables DEF Unsent, HoldsNothing, HoldsNoSlot, IsTable
    <3>6. own.stage \in {"CLASS", "CHANGE", "RELEASE"} => BookingRow(own.booking) \in Rows
      BY <3>2, AreRows DEF Placed, BookingsOf
    <3>7. Ordered(v, own)'
      BY <3>2, <3>3, <3>5, <3>6 DEF Ordered, InOrder
    <3> QED
      BY <3>2, <3>7 DEF Ordered, InOrder
  <2> QED
    BY <2>1, <2>2
<1> QED
  BY <1>2 DEF LockOrder

LEMMA LockOrderStep ==
  ASSUME IInv, LockOrder, [Next]_vars
  PROVE  LockOrder'
<1>1. ASSUME NEW w \in Workers, Execute(w)
      PROVE  LockOrder'
  <2>1. CASE CheckStudent(w) \/ LockSlot(w) \/ InsertBooking(w)
    BY <2>1, CheckStudentOrder, LockSlotOrder, InsertBookingOrder
  <2>2. CASE LockBooking(w) \/ LockClass(w) \/ CancelBooking(w) \/ ReleaseSlot(w)
    BY <2>2, LockBookingOrder, LockClassOrder, CancelBookingOrder, ReleaseSlotOrder
  <2>3. CASE MarkAttendance(w) \/ FlushRow(w)
    BY <2>3, MarkAttendanceOrder, FlushRowOrder
  <2>4. CASE FindFutureBookings(w) \/ WithdrawBooking(w) \/ GiveSlotBack(w) \/ AllWithdrawn(w)
    BY <2>4, SwitchOrder
  <2>5. CASE Commit(w) \/ Refuse(w)
    BY <2>5, EndOrder DEF Commit, Refuse, Rollback
  <2> QED
    BY <1>1, <2>1, <2>2, <2>3, <2>4, <2>5 DEF Execute
<1>2. ASSUME NEW w \in Workers,
             \/ BeginBooking(w) \/ BeginChange(w) \/ BeginRescheduling(w)
             \/ BeginSwitch(w) \/ ChangeSlot(w)
      PROVE  LockOrder'
  BY <1>2, BeginOrder
<1>3. ASSUME NEW w \in Workers, LoseConnection(w) \/ AbortDeadlocked(w)
      PROVE  LockOrder'
  BY <1>3, EndOrder DEF LoseConnection, AbortDeadlocked, Rollback
<1>4. CASE UNCHANGED <<db, locks, txns>>
  BY <1>4 DEF LockOrder, Ordered, InOrder, HoldsNothing, HoldsNoSlot, Unsent
<1> QED
  BY <1>1, <1>2, <1>3, <1>4 DEF Next, StartSlot, vars

LEMMA WantedAreRows ==
  ASSUME IInv, NEW w \in Workers
  PROVE  Wanted(w) \subseteq Rows
<1>1. Unflushed(w) \subseteq Rows
  BY Facts, Tables DEF Unflushed, IsTable
<1>2. /\ txns[w].stage = "SLOT" => SlotRow(txns[w].slot) \in Rows
      /\ txns[w].stage \in {"BOOKING", "CLASS"} =>
           BookingRow(txns[w].booking) \in Rows /\ ClassRow(txns[w].booking) \in Rows
  BY Facts, AreRows DEF Placed
<1> QED
  BY <1>1, <1>2 DEF Wanted

(* Who waits, and is neither switching a program nor moving to another slot,
   holds only rows that come before the one it waits for. *)
LEMMA WaitsInOrder ==
  ASSUME IInv, NEW w \in Workers, Ordered(w, txns[w]), txns[w].kind # "SWITCH",
         Wanted(w) # {}
  PROVE  \/ Wanted(w) = {BookingRow(txns[w].booking)} /\ HoldsNothing(w)
         \/ /\ Wanted(w) = {ClassRow(txns[w].booking)}
            /\ \A r \in Rows : locks[r] = w => r = BookingRow(txns[w].booking)
         \/ /\ \E t \in SlotIds : SlotRow(t) \in Wanted(w)
            /\ HoldsNoSlot(w) \/ (txns[w].kind \in Moves /\ txns[w].stage = "SLOT")
<1>1. PICK txn : txn = txns[w]
  OBVIOUS
<1>2. /\ Ordered(w, txn) /\ txn.kind # "SWITCH" /\ Placed(w, txn)
      /\ Unflushed(w) = Unsent(w, txn.writes)
  BY <1>1, Facts DEF Unflushed, Unsent
<1>3. CASE txn.stage = "SLOT"
  <2>1. txn.slot \in SlotIds /\ Wanted(w) = {SlotRow(txn.slot)}
    BY <1>1, <1>2, <1>3 DEF Placed, Wanted
  <2>2. HoldsNothing(w) => HoldsNoSlot(w)
    BY AreRows DEF HoldsNothing, HoldsNoSlot
  <2> QED
    BY <1>1, <1>2, <1>3, <2>1, <2>2 DEF Ordered, InOrder
<1>4. CASE txn.stage = "BOOKING"
  BY <1>1, <1>2, <1>4 DEF Ordered, InOrder, Wanted
<1>5. CASE txn.stage = "CLASS"
  BY <1>1, <1>2, <1>5 DEF Ordered, InOrder, Wanted
<1>6. CASE txn.stage \in FlushStages
  <2>1. Wanted(w) = Unsent(w, txn.writes)
    BY <1>1, <1>2, <1>6 DEF Wanted, FlushStages
  <2>2. txn.stage \in {"STUDENT", "COMMIT"}
    BY <1>2, <1>6 DEF Ordered, InOrder, FlushStages
  <2> QED
    BY <1>2, <2>1, <2>2 DEF Ordered, InOrder
<1> QED
  BY <1>1, <1>3, <1>4, <1>5, <1>6 DEF Wanted

(* Bookings, cancellations, attendance and edits of slots never deadlock among
   themselves, however many of them meet: they lock a booking, its class and its
   slot in this order (_get_booking_for_update, _get_class_session_for_update and
   the flush of the slot).  Every deadlock has a switch in it, or two
   reschedulings that want each a slot while they hold another
   (DeadlocksHaveACause). *)
THEOREM DeadlockCauses == Spec => []DeadlocksHaveACause
<1>1. Init => LockOrder
  <2> SUFFICES ASSUME Init, NEW w \in Workers PROVE Ordered(w, txns[w])
    BY DEF LockOrder
  <2>1. txns[w] = Idle /\ HoldsNothing(w)
    BY SlotSeatsAssumption DEF Init, HoldsNothing
  <2> QED
    BY <2>1, IdleIsTxn DEF Ordered, InOrder
<1>2. IInv /\ LockOrder => DeadlocksHaveACause
  <2> SUFFICES ASSUME IInv, LockOrder, NEW set \in (SUBSET Workers) \ {{}}, Deadlocked(set),
                      \A w \in set : txns[w].kind # "SWITCH"
               PROVE  \E v, w \in set :
                        v # w /\ \A u \in {v, w} : Rescheduling(u) /\ txns[u].stage = "SLOT"
    BY DEF DeadlocksHaveACause
  <2> DEFINE Moving(w) == txns[w].kind \in Moves /\ txns[w].stage = "SLOT"
  <2>1. ASSUME NEW w \in set
        PROVE  /\ \A r \in Wanted(w) : locks[r] \in set \ {w} /\ r \in Rows
               /\ \/ Wanted(w) = {BookingRow(txns[w].booking)} /\ HoldsNothing(w)
                  \/ /\ Wanted(w) = {ClassRow(txns[w].booking)}
                     /\ \A r \in Rows : locks[r] = w => r = BookingRow(txns[w].booking)
                  \/ /\ \E t \in SlotIds : SlotRow(t) \in Wanted(w)
                     /\ HoldsNoSlot(w) \/ Moving(w)
    BY <2>1, WantedAreRows, WaitsInOrder DEF Deadlocked, LockOrder
  <2>2. ASSUME NEW w \in set, NEW t \in SlotIds, SlotRow(t) \in Wanted(w)
        PROVE  \E v \in set \ {w} : Moving(v)
    <3>1. PICK v \in set \ {w} : v = locks[SlotRow(t)]
      BY <2>1, <2>2
    <3>2. ~HoldsNoSlot(v) /\ ~HoldsNothing(v)
      BY <3>1, AreRows DEF HoldsNoSlot, HoldsNothing
    <3>3. SlotRow(t) # BookingRow(txns[v].booking)
      BY RowsApart
    <3> QED
      BY <2>1, <3>1, <3>2, <3>3, AreRows
  <2>3. ASSUME NEW w \in set, Wanted(w) = {ClassRow(txns[w].booking)}
        PROVE  \E v \in set : \E t \in SlotIds : SlotRow(t) \in Wanted(v)
    <3>1. PICK v \in set : v = locks[ClassRow(txns[w].booking)] /\ ClassRow(txns[w].booking) \in Rows
      BY <2>1, <2>3
    <3>2. ~HoldsNothing(v) /\ ClassRow(txns[w].booking) # BookingRow(txns[v].booking)
      BY <3>1, RowsApart DEF HoldsNothing
    <3> QED
      BY <2>1, <3>1, <3>2
  <2>4. ASSUME NEW w \in set, Wanted(w) = {BookingRow(txns[w].booking)}
        PROVE  \E v \in set : \/ Wanted(v) = {ClassRow(txns[v].booking)}
                              \/ \E t \in SlotIds : SlotRow(t) \in Wanted(v)
    <3>1. PICK v \in set :
            v = locks[BookingRow(txns[w].booking)] /\ BookingRow(txns[w].booking) \in Rows
      BY <2>1, <2>4
    <3>2. ~HoldsNothing(v)
      BY <3>1 DEF HoldsNothing
    <3> QED
      BY <2>1, <3>1, <3>2
  <2>5. PICK w \in set : \E t \in SlotIds : SlotRow(t) \in Wanted(w)
    BY <2>1, <2>3, <2>4
  <2>6. PICK v \in set : Moving(v)
    BY <2>2, <2>5
  <2>7. \E t \in SlotIds : SlotRow(t) \in Wanted(v)
    BY <2>6, Facts DEF Wanted, Placed
  <2>8. PICK u \in set \ {v} : Moving(u)
    BY <2>2, <2>7
  <2> QED
    BY <2>6, <2>8 DEF Rescheduling, Moves
<1>3. IInv /\ LockOrder /\ [Next]_vars => LockOrder'
  BY LockOrderStep
<1> QED
  BY <1>1, <1>2, <1>3, SlotsKept, PTL DEF Spec

=============================================================================
