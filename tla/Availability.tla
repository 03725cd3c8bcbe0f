---------------------------- MODULE Availability ----------------------------
(***************************************************************************)
(* A teacher's availability: TeacherAvailabilityService, the generation of   *)
(* slots from weekly rules, and the bookings that claim the slots.           *)
(*                                                                         *)
(* Requests and the periodic command overlap: each reads without locks,       *)
(* decides, and writes the columns it has changed when it commits.  A change *)
(* of a rule is one transaction and the generation that follows it another,   *)
(* with a connection that may be lost before either commit.                  *)
(*                                                                         *)
(* Teachers share nothing, so there is one.  Time is counted in hours from    *)
(* a Monday's midnight; the minutes of the code are hours here.              *)
(***************************************************************************)
EXTENDS SequencesExt

CONSTANTS
  Workers,       \* the requests being served
  RuleIds, SlotIds,
  RuleShapes,    \* the rules requests ask for
  Windows,       \* the times requests give a slot
  Statuses,      \* the statuses requests give a slot
  Instants,      \* the clock's values
  Kinds,         \* the kinds of request made
  MaxClasses,    \* bound: the classes at once
  None           \* SQL null

SLOT_GENERATION_DAYS == 14
DAY == 24
Day(t) == t \div DAY

SlotStatuses == {"AVAILABLE", "BOOKED", "CANCELLED", "BLOCKED"}
Rule == [day: 0 .. 6, start: 0 .. DAY, end: 0 .. DAY, duration: Nat \ {0}, active: BOOLEAN]
Window == [startsAt: Nat, endsAt: Nat]
Slot == [rule: RuleIds \cup {None}, startsAt: Nat, endsAt: Nat, status: SlotStatuses]

ASSUME AvailabilityAssumption ==
  /\ RuleShapes \subseteq Rule
  /\ \A rule \in RuleShapes : rule.start < rule.end
  /\ Windows \subseteq Window
  /\ \A window \in Windows : window.startsAt < window.endsAt
  /\ Statuses \subseteq SlotStatuses
  /\ Instants \subseteq Nat
  /\ MaxClasses \in Nat
  /\ IsFiniteSet(RuleIds)

VARIABLES
  now,       \* utc_now()
  rules,     \* weekly rules
  slots,     \* source is "rule" exactly when a slot has a rule
  classes,   \* the start of the class that holds each slot, or None
  requests,  \* the transaction of each worker
  cancels,   \* the cancellations of classes under way
  revived    \* history: the slots put back on offer by one after they were withdrawn

vars == <<now, rules, slots, classes, requests, cancels, revived>>

EmptyTable == [k \in {} |-> None]

-----------------------------------------------------------------------------
(* The slots a rule asks for. *)

Overlap(a, b) == a.startsAt < b.endsAt /\ a.endsAt > b.startsAt

SlotsForDate(rule, date, t) ==
  LET start(k) == DAY * date + rule.start + k * rule.duration IN
    {[startsAt |-> start(k), endsAt |-> start(k + 1)] :
       k \in {i \in 0 .. rule.end - rule.start : start(i + 1) <= DAY * date + rule.end /\ start(i) > t}}

ExpectedRuleSlots(rule, t) ==
  UNION {SlotsForDate(rule, date, t) :
           date \in {d \in Day(t) .. Day(t) + SLOT_GENERATION_DAYS : d % 7 = rule.day}}

InGenerationWindow(slot, t) ==
  slot.startsAt >= t /\ Day(slot.startsAt) <= Day(t) + SLOT_GENERATION_DAYS

Expected(rule, t) == IF rule.active THEN ExpectedRuleSlots(rule, t) ELSE {}

WindowOf(slot) == [startsAt |-> slot.startsAt, endsAt |-> slot.endsAt]

GeneratedSlots(r, t) ==
  {k \in DOMAIN slots : slots[k].rule = r /\ InGenerationWindow(slots[k], t)}

(* A generated slot that the rule no longer asks for and nobody has booked. *)
Obsolete(slot, rule, t) ==
  slot.status = "AVAILABLE" /\ WindowOf(slot) \notin Expected(rule, t)

(* The slots that the rule asks for, where the teacher has the time; taken is the
   set of the teacher's coming slots that are not cancelled. *)
MissingSlots(taken, rule, t) ==
  {window \in Expected(rule, t) : \A slot \in taken : ~Overlap(window, slot)}

ActiveSlots(rows) == {row \in rows : row.status # "CANCELLED"}
ComingSlots(rows, t) == {row \in rows : InGenerationWindow(row, t)}
RowsOf(table) == {table[k] : k \in DOMAIN table}

(* The rows of a table, under the ones written over them. *)
Overlay(written, table) ==
  [k \in DOMAIN table \cup DOMAIN written |->
     IF k \in DOMAIN written THEN written[k] ELSE table[k]]

NewSlot(r, window, status) ==
  [rule |-> r, startsAt |-> window.startsAt, endsAt |-> window.endsAt, status |-> status]

-----------------------------------------------------------------------------
(* Transactions. *)

(* kind: the request; stage: what its transaction does next; at: its reading of the clock; rules:
   the rules it read and has still to generate slots from; changes: the slots it
   works on, as read and as changed; flushed: those it has updated, whose rows
   stay locked until it ends; inserts: its new slots. *)
Idle ==
  [kind |-> "NONE", stage |-> "IDLE", at |-> 0, rules |-> << >>, changes |-> EmptyTable,
   flushed |-> {}, inserts |-> {}]

MayBegin(w, kind) == requests[w].stage = "IDLE" /\ kind \in Kinds
Begin(w, request) == requests' = [requests EXCEPT ![w] = request]

Locked(k) == \E w \in Workers : k \in requests[w].flushed
LockedByOther(w, k) == \E x \in Workers \ {w} : k \in requests[x].flushed

Changed(changes) == {k \in DOMAIN changes : changes[k].row # changes[k].read}

(* The UPDATEs set the columns whose value is not the one that was read. *)
Updated(table, changes) ==
  [k \in DOMAIN table |->
     IF k \in DOMAIN changes
     THEN [column \in DOMAIN table[k] |->
             IF changes[k].row[column] # changes[k].read[column]
             THEN changes[k].row[column] ELSE table[k][column]]
     ELSE table[k]]

(* The unique index uq_active_teacher_availability_slot_time. *)
Unique(table) ==
  \A j, k \in DOMAIN table :
    /\ j # k
    /\ table[j].status # "CANCELLED" /\ table[k].status # "CANCELLED"
    => WindowOf(table[j]) # WindowOf(table[k])

(* The keys of new slots: which free key a slot gets is irrelevant. *)
Keyed(rows) ==
  LET keysOf == CHOOSE f \in Injection(rows, SlotIds \ DOMAIN slots) : TRUE IN
    [k \in {keysOf[row] : row \in rows} |-> CHOOSE row \in rows : keysOf[row] = k]

(* An UPDATE waits for the rows that others have updated; a write that breaks
   the unique index fails, and LoseConnection is the rollback. *)
Commit(w) ==
  LET request == requests[w]
      table == Overlay(Keyed(request.inserts), Updated(slots, request.changes)) IN
    /\ request.stage = "COMMIT"
    /\ \A k \in Changed(request.changes) : ~LockedByOther(w, k)
    /\ ExistsInjection(request.inserts, SlotIds \ DOMAIN slots)
    /\ Unique(table)
    /\ slots' = table
    /\ requests' = [requests EXCEPT ![w] = Idle]
    /\ revived' = {k \in revived : table[k].status # "CANCELLED"}
    /\ UNCHANGED <<now, rules, classes, cancels>>

(* The connection is lost, a check fails or the database refuses: rollback. *)
LoseConnection(w) ==
  /\ requests[w].stage # "IDLE"
  /\ requests' = [requests EXCEPT ![w] = Idle]
  /\ UNCHANGED <<now, rules, slots, classes, cancels, revived>>

-----------------------------------------------------------------------------
(* sync_teacher_availability_slots. *)

Generation(kind, rs) ==
  [Idle EXCEPT !.kind = kind, !.stage = IF rs = << >> THEN "COMMIT" ELSE "GENERATED",
               !.at = now, !.rules = rs]

(* Mutant: the command takes a rule that has slots for a generated one. *)
ActiveRulesWithoutSlots ==
  {r \in DOMAIN rules : rules[r].active /\ \A k \in DOMAIN slots : slots[k].rule # r}

(* The command that generates slots reads the active rules, in any order. *)
ActiveRules == {r \in DOMAIN rules : rules[r].active}

GenerateTeacherSlots(w) ==
  /\ MayBegin(w, "GENERATE")
  /\ \E rs \in SetToSeqs(ActiveRules) :
       Begin(w, Generation("GENERATE", [i \in DOMAIN rs |-> [id |-> rs[i], rule |-> rules[rs[i]]]]))
  /\ UNCHANGED <<now, rules, slots, classes, cancels, revived>>

(* The generated slots of the next rule are read and the obsolete ones marked. *)
ReadGeneratedSlots(w) ==
  LET request == requests[w]
      next == Head(request.rules)
      row(k) == IF Obsolete(slots[k], next.rule, request.at)
                THEN [slots[k] EXCEPT !.status = "CANCELLED"] ELSE slots[k]
  IN /\ request.stage = "GENERATED"
     /\ requests' = [requests EXCEPT
          ![w].stage = "ACTIVE",
          ![w].changes = Overlay(request.changes,
             [k \in GeneratedSlots(next.id, request.at) |-> [read |-> slots[k], row |-> row(k)]])]
     /\ UNCHANGED <<now, rules, slots, classes, cancels, revived>>

(* The changes are flushed and the teacher's active slots read, the slots read
   before as they were then; the missing ones are added. *)
ReadActiveSlots(w) ==
  LET request == requests[w]
      next == Head(request.rules)
      changed == Changed(request.changes)
      table == Updated(slots, request.changes)
      seen(k) == IF k \in DOMAIN request.changes THEN request.changes[k].row ELSE table[k]
      active == {k \in DOMAIN table : table[k].status # "CANCELLED"
                                        /\ InGenerationWindow(table[k], request.at)}
      taken == {seen(k) : k \in active}
                 \cup ComingSlots(ActiveSlots(request.inserts), request.at)
  IN /\ request.stage = "ACTIVE"
     /\ \A k \in changed : ~LockedByOther(w, k)
     /\ requests' = [requests EXCEPT
          ![w].stage = IF Len(request.rules) = 1 THEN "COMMIT" ELSE "GENERATED",
          ![w].rules = Tail(request.rules),
          ![w].changes = [k \in changed |-> request.changes[k]],
          ![w].flushed = changed,
          ![w].inserts = request.inserts \cup
             {NewSlot(next.id, window, "AVAILABLE") :
                window \in MissingSlots(taken, next.rule, request.at)}]
     /\ UNCHANGED <<now, rules, slots, classes, cancels, revived>>

-----------------------------------------------------------------------------
(* Rules.  A change is committed, then the slots are generated from it in a
   second transaction. *)

SetRule(w, kind, r, rule) ==
  /\ rules' = [k \in DOMAIN rules \cup {r} |-> IF k = r THEN rule ELSE rules[k]]
  /\ Begin(w, Generation(kind, <<[id |-> r, rule |-> rule]>>))
  /\ UNCHANGED <<now, slots, classes, cancels, revived>>

CreateTeacherAvailabilityRule(w) ==
  /\ MayBegin(w, "CREATE_RULE")
  /\ \E r \in RuleIds \ DOMAIN rules, rule \in RuleShapes : SetRule(w, "CREATE_RULE", r, rule)

UpdateTeacherAvailabilityRule(w) ==
  /\ MayBegin(w, "UPDATE_RULE")
  /\ \E r \in DOMAIN rules, rule \in RuleShapes : SetRule(w, "UPDATE_RULE", r, rule)

DeleteTeacherAvailabilityRule(w) ==
  /\ MayBegin(w, "DELETE_RULE")
  /\ \E r \in DOMAIN rules : SetRule(w, "DELETE_RULE", r, [rules[r] EXCEPT !.active = FALSE])

-----------------------------------------------------------------------------
(* Slots. *)

(* Mutant: only a slot that may be booked is in the way. *)
NoAvailableSlotOverlaps(table, row) ==
  row.status # "CANCELLED" =>
    \A other \in {s \in RowsOf(table) : s.status = "AVAILABLE"} : ~Overlap(row, other)

NoSlotOverlaps(table, row) ==
  row.status # "CANCELLED" => \A other \in ActiveSlots(RowsOf(table)) : ~Overlap(row, other)

Except(table, slot) == [k \in DOMAIN table \ {slot} |-> table[k]]

(* One slot, several manual ones, or a block. *)
CreateTeacherAvailabilitySlots(w) ==
  /\ MayBegin(w, "CREATE_SLOT")
  /\ \E r \in DOMAIN rules \cup {None}, status \in Statuses, windows \in (SUBSET Windows) \ {{}} :
       LET rows == {NewSlot(r, window, status) : window \in windows} IN
         /\ Cardinality(rows) > 1 => r = None
         /\ \A a, b \in ActiveSlots(rows) : a # b => ~Overlap(a, b)
         /\ \A row \in rows : NoSlotOverlaps(slots, row)
         /\ Begin(w, [Idle EXCEPT !.kind = "CREATE_SLOT", !.stage = "COMMIT", !.inserts = rows])
  /\ UNCHANGED <<now, rules, slots, classes, cancels, revived>>

(* A PATCH names any of the columns; the others keep the value read. *)
SlotUpdates(slot) ==
  [rule: {slot.rule},
   startsAt: {slot.startsAt} \cup {window.startsAt : window \in Windows},
   endsAt: {slot.endsAt} \cup {window.endsAt : window \in Windows},
   status: {slot.status} \cup Statuses]

ChangeSlot(w, kind, slot, row) ==
  /\ slots[slot].status # "BOOKED"
  /\ Begin(w, [Idle EXCEPT !.kind = kind, !.stage = "COMMIT",
       !.changes = [k \in {slot} |-> [read |-> slots[slot], row |-> row]]])
  /\ UNCHANGED <<now, rules, slots, classes, cancels, revived>>

UpdateTeacherAvailabilitySlot(w) ==
  /\ MayBegin(w, "UPDATE_SLOT")
  /\ \E slot \in DOMAIN slots : \E row \in SlotUpdates(slots[slot]) :
       /\ row.startsAt < row.endsAt
       /\ NoSlotOverlaps(Except(slots, slot), row)
       /\ ChangeSlot(w, "UPDATE_SLOT", slot, row)

DeleteTeacherAvailabilitySlot(w) ==
  /\ MayBegin(w, "DELETE_SLOT")
  /\ \E slot \in DOMAIN slots :
       ChangeSlot(w, "DELETE_SLOT", slot, [slots[slot] EXCEPT !.status = "CANCELLED"])

-----------------------------------------------------------------------------
(* BookingService: a booking locks the slot before it reads it, a cancellation reads
   it without a lock and writes it when it commits. *)

BookOneOnOne(slot) ==
  /\ "BOOK" \in Kinds
  /\ ~Locked(slot)
  /\ slots[slot].status = "AVAILABLE"
  /\ slots[slot].startsAt > now
  /\ classes[slot] = None
  /\ Cardinality({k \in SlotIds : classes[k] # None}) < MaxClasses
  /\ slots' = [slots EXCEPT ![slot].status = "BOOKED"]
  /\ classes' = [classes EXCEPT ![slot] = slots[slot].startsAt]
  /\ UNCHANGED <<now, rules, requests, cancels, revived>>

(* CANCEL: a booking is cancelled or rescheduled, with its row locked.  SWITCH: the
   student's program is, with no lock on the bookings to come, which it withdraws.
   Bound: one of each at a time for a slot. *)
Cancellation == [slot: SlotIds, kind: {"CANCEL", "SWITCH"}, releases: BOOLEAN, live: BOOLEAN]

(* live: the class it has read is still there when it commits. *)
ReadSlotOfClass(slot, kind) ==
  /\ kind \in Kinds
  /\ classes[slot] # None
  /\ kind = "SWITCH" => classes[slot] > now
  /\ \A cancel \in cancels : cancel.slot = slot => cancel.kind # kind
  /\ cancels' = cancels \cup
       {[slot |-> slot, kind |-> kind, live |-> TRUE,
         releases |-> slots[slot].status = "BOOKED" /\ classes[slot] > now]}
  /\ UNCHANGED <<now, rules, slots, classes, requests, revived>>

(* A switch waits for the row of a booking that is being cancelled. *)
CancelClass(cancel) ==
  LET slot == cancel.slot
      table == IF cancel.releases THEN [slots EXCEPT ![slot].status = "AVAILABLE"] ELSE slots
  IN /\ cancel.kind = "SWITCH" /\ cancel.live =>
          \A other \in cancels : other.slot = slot => other.kind # "CANCEL"
     /\ cancel.releases => ~Locked(slot)
     /\ Unique(table)
     /\ slots' = table
     /\ classes' = IF cancel.live THEN [classes EXCEPT ![slot] = None] ELSE classes
     /\ cancels' = {[other EXCEPT !.live = @ /\ ~(cancel.live /\ other.slot = slot)] :
                      other \in cancels \ {cancel}}
     /\ revived' = IF slots'[slot].status # slots[slot].status /\ slots[slot].status = "CANCELLED"
                   THEN revived \cup {slot} ELSE revived
     /\ UNCHANGED <<now, rules, requests>>

LoseCancellation(cancel) ==
  /\ cancels' = cancels \ {cancel}
  /\ UNCHANGED <<now, rules, slots, classes, requests, revived>>

Tick ==
  /\ now' \in {t \in Instants : t > now}
  /\ UNCHANGED <<rules, slots, classes, requests, cancels, revived>>

-----------------------------------------------------------------------------

Init ==
  /\ now \in Instants
  /\ rules = EmptyTable
  /\ slots = EmptyTable
  /\ classes = [slot \in SlotIds |-> None]
  /\ requests = [w \in Workers |-> Idle]
  /\ cancels = {}
  /\ revived = {}

ScheduleRequest(w) ==
  \/ CreateTeacherAvailabilityRule(w)
  \/ UpdateTeacherAvailabilityRule(w)
  \/ DeleteTeacherAvailabilityRule(w)
  \/ GenerateTeacherSlots(w)
  \/ CreateTeacherAvailabilitySlots(w)
  \/ UpdateTeacherAvailabilitySlot(w)
  \/ DeleteTeacherAvailabilitySlot(w)

Proceed(w) ==
  LoseConnection(w) \/ ReadGeneratedSlots(w) \/ ReadActiveSlots(w) \/ Commit(w)

Next ==
  \/ \E w \in Workers :
       \/ ScheduleRequest(w)
       \/ Proceed(w)
  \/ \E slot \in DOMAIN slots :
       \/ BookOneOnOne(slot)
       \/ \E kind \in {"CANCEL", "SWITCH"} : ReadSlotOfClass(slot, kind)
  \/ \E cancel \in cancels : CancelClass(cancel) \/ LoseCancellation(cancel)
  \/ Tick

Spec == Init /\ [][Next]_vars

(* A request ends.  The command runs again and again, and of the runs that get
   as far as a step some take it: the connection is not always lost at the same
   place. *)
FairSpec ==
  /\ Spec
  /\ \A w \in Workers :
       LET Command(A, n) ==
             requests[w].kind = "GENERATE" /\ Len(requests[w].rules) = n /\ A
       IN /\ WF_vars(Proceed(w))
          /\ SF_vars(GenerateTeacherSlots(w))
          /\ SF_vars(Command(Commit(w), 0))
          /\ \A n \in 1 .. Cardinality(RuleIds) :
               /\ SF_vars(Command(ReadGeneratedSlots(w), n))
               /\ SF_vars(Command(ReadActiveSlots(w), n))

-----------------------------------------------------------------------------
(* Properties. *)

ActiveOverlap(j, k) ==
  /\ j # k
  /\ slots[j].status # "CANCELLED" /\ slots[k].status # "CANCELLED"
  /\ Overlap(slots[j], slots[k])

(* "Teacher already has an overlapping active slot": rules, edits, generations and
   bookings give a teacher no two slots, offered, booked or blocked, at the same
   time.  Only a cancellation may, when it puts a slot back on offer that it has
   read booked and that has been withdrawn since, its time perhaps given to another.
   Generation does not look at slots that have started. *)
OnlyRevivedSlotsOverlap ==
  \A j, k \in {x \in DOMAIN slots \ revived : slots[x].startsAt >= now} : ~ActiveOverlap(j, k)

(* The bound on keys is reached: not enough are left for the slots that the rules
   ask for and do not have. *)
OutOfKeys ==
  LET had == {WindowOf(slot) : slot \in ActiveSlots(RowsOf(slots))} IN
    Cardinality(SlotIds \ DOMAIN slots) <
      Cardinality(UNION {Expected(rules[r], now) : r \in DOMAIN rules} \ had)

(* The time at which an active rule asks for a slot does not stay empty: the
   slot is made, or the teacher is found busy, although the transaction that
   follows the change of the rule may be lost. *)
Covered(r) ==
  r \in DOMAIN rules => MissingSlots(ActiveSlots(RowsOf(slots)), rules[r], now) = {}

RuleEventuallyCovered == \A r \in RuleIds : ~Covered(r) ~> Covered(r) \/ OutOfKeys

(* A slot that its active rule no longer asks for does not stay on offer, even
   when it was booked at the time the rule changed. *)
Stale(k) ==
  /\ k \in DOMAIN slots
  /\ slots[k].rule # None /\ rules[slots[k].rule].active
  /\ InGenerationWindow(slots[k], now)
  /\ Obsolete(slots[k], rules[slots[k].rule], now)

StaleSlotsWithdrawn == \A k \in SlotIds : Stale(k) ~> ~Stale(k) \/ OutOfKeys

=============================================================================
