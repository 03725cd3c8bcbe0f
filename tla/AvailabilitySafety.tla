------------------------- MODULE AvailabilitySafety -------------------------
(***************************************************************************)
(* Served one request at a time, with bookings, cancellations and days in     *)
(* between, a teacher has two coming slots at the same time only when a        *)
(* cancellation has put one of them back on offer that had been withdrawn.     *)
(*                                                                         *)
(* A request decides on what it has read, and its slots may be booked and     *)
(* given back before it commits.  Neither moves a slot, and neither changes    *)
(* whether it is withdrawn unless it revives it, so the argument is about the  *)
(* slots that are not revived, as the request will leave them.                *)
(***************************************************************************)
EXTENDS Availability, FiniteSetTheorems, TLAPS

-----------------------------------------------------------------------------
(* The inductive invariant. *)

Change == [read: Slot, row: Slot]
Generated == [id: RuleIds, rule: Rule]

Request ==
  [kind: Kinds \cup {"NONE"}, stage: {"IDLE", "GENERATED", "ACTIVE", "COMMIT"}, at: Nat,
   rules: Seq(Generated), changes: UNION {[keys -> Change] : keys \in SUBSET SlotIds},
   flushed: SUBSET SlotIds, inserts: SUBSET Slot]

TypeInv ==
  /\ now \in Nat
  /\ rules \in UNION {[keys -> Rule] : keys \in SUBSET RuleIds}
  /\ slots \in UNION {[keys -> Slot] : keys \in SUBSET SlotIds}
  /\ requests \in [Workers -> Request]
  /\ revived \subseteq DOMAIN slots
  /\ cancels \subseteq Cancellation
  /\ \A cancel \in cancels : cancel.slot \in DOMAIN slots

Active(slot) == slot.status # "CANCELLED"

(* The slots that no cancellation has put back after they were withdrawn. *)
Steady == DOMAIN slots \ revived

(* A booking leaves this alone, and a cancellation that revives no slot. *)
SameTime(a, b) == WindowOf(a) = WindowOf(b) /\ (Active(a) <=> Active(b))

Clash(a, b) == Active(a) /\ Active(b) /\ Overlap(a, b)

(* A slot as a request will leave it, except for its being booked. *)
Target(request, k) ==
  IF k \in DOMAIN request.changes THEN request.changes[k].row ELSE slots[k]

ReadAsIs(request) ==
  \A k \in DOMAIN request.changes :
    /\ k \in DOMAIN slots
    /\ k \notin revived => SameTime(slots[k], request.changes[k].read)

TargetsDisjoint(request) ==
  \A j, k \in Steady :
    LET a == Target(request, j)
        b == Target(request, k)
    IN j # k /\ a.startsAt >= now /\ b.startsAt >= now => ~Clash(a, b)

InsertsDisjoint(request) ==
  /\ \A a, b \in request.inserts : a # b => ~Clash(a, b)
  /\ \A a \in request.inserts : \A k \in Steady :
       Target(request, k).startsAt >= request.at => ~Clash(a, Target(request, k))

Generates(request) ==
  request.stage \in {"GENERATED", "ACTIVE"} =>
    /\ request.rules # << >>
    /\ \A a \in request.inserts : Active(a) /\ InGenerationWindow(a, request.at)

Coherent(request) ==
  /\ request.at <= now
  /\ ReadAsIs(request)
  /\ TargetsDisjoint(request)
  /\ InsertsDisjoint(request)
  /\ Generates(request)

IInv ==
  /\ TypeInv
  /\ OnlyRevivedSlotsOverlap
  /\ \A w \in Workers : Coherent(requests[w])

-----------------------------------------------------------------------------
(* Tables, and slots that stay where they are. *)

LEMMA Tables ==
  ASSUME NEW K, NEW V, NEW table
  PROVE  table \in UNION {[keys -> V] : keys \in SUBSET K} <=>
           /\ table = [k \in DOMAIN table |-> table[k]]
           /\ DOMAIN table \subseteq K
           /\ \A k \in DOMAIN table : table[k] \in V
OBVIOUS

LEMMA Clashes ==
  /\ \A a, b \in Slot : Clash(a, b) <=> Clash(b, a)
  /\ \A a, b, c \in Slot : SameTime(a, b) => (Clash(a, c) <=> Clash(b, c))
  /\ \A a, b \in Slot : SameTime(a, b) => a.startsAt = b.startsAt
BY DEF Clash, Overlap, SameTime, WindowOf, Slot

LEMMA SameTimes ==
  /\ \A a : SameTime(a, a)
  /\ \A a, b : SameTime(a, b) => SameTime(b, a)
  /\ \A a, b, c : SameTime(a, b) /\ SameTime(b, c) => SameTime(a, c)
BY DEF SameTime

LEMMA Disjoint ==
  ASSUME TypeInv
  PROVE  OnlyRevivedSlotsOverlap <=>
           \A j, k \in Steady :
             j # k /\ slots[j].startsAt >= now /\ slots[k].startsAt >= now
               => ~Clash(slots[j], slots[k])
BY DEF OnlyRevivedSlotsOverlap, ActiveOverlap, Clash, Active, Steady, TypeInv

(* The slots of a table are slots. *)
LEMMA SlotsOf ==
  ASSUME TypeInv
  PROVE  /\ \A k \in DOMAIN slots : slots[k] \in Slot /\ k \in SlotIds
         /\ \A w \in Workers :
              /\ requests[w] \in Request
              /\ DOMAIN requests[w].changes \subseteq SlotIds
              /\ \A k \in DOMAIN requests[w].changes : requests[w].changes[k] \in Change
              /\ \A k \in DOMAIN slots : Target(requests[w], k) \in Slot
<1>1. \A k \in DOMAIN slots : slots[k] \in Slot /\ k \in SlotIds
  BY DEF TypeInv
<1>2. ASSUME NEW w \in Workers
      PROVE  /\ requests[w] \in Request
             /\ DOMAIN requests[w].changes \subseteq SlotIds
             /\ \A k \in DOMAIN requests[w].changes : requests[w].changes[k] \in Change
  <2>1. requests[w] \in Request
    BY DEF TypeInv
  <2>2. requests[w].changes \in UNION {[keys -> Change] : keys \in SUBSET SlotIds}
    BY <2>1 DEF Request
  <2> QED
    BY <2>1, <2>2
<1> QED
  BY <1>1, <1>2 DEF Target, Change

(* Time that passes, and slots that are booked or given back, disturb no
   request and make no slots overlap. *)
LEMMA StandingStill ==
  ASSUME IInv, TypeInv', now' >= now, requests' = requests, DOMAIN slots' = DOMAIN slots,
         revived \subseteq revived',
         \A k \in DOMAIN slots \ revived' : SameTime(slots'[k], slots[k])
  PROVE  IInv'
<1>1. \A k \in DOMAIN slots : slots[k] \in Slot /\ slots'[k] \in Slot
  BY SlotsOf DEF IInv, TypeInv
<1>s. Steady' = DOMAIN slots \ revived' /\ Steady' \subseteq Steady /\ Steady \subseteq DOMAIN slots
  BY DEF Steady
<1>n. now \in Nat /\ now' \in Nat
  BY DEF IInv, TypeInv
<1>2. OnlyRevivedSlotsOverlap'
  <2>1. \A j, k \in Steady' :
          j # k /\ slots'[j].startsAt >= now' /\ slots'[k].startsAt >= now'
            => ~Clash(slots'[j], slots'[k])
    <3> SUFFICES ASSUME NEW j \in Steady', NEW k \in Steady', j # k,
                        slots'[j].startsAt >= now', slots'[k].startsAt >= now'
                 PROVE  ~Clash(slots'[j], slots'[k])
      OBVIOUS
    <3>1. slots[j].startsAt = slots'[j].startsAt /\ slots[k].startsAt = slots'[k].startsAt
      BY <1>1, <1>s, Clashes
    <3>2. slots[j].startsAt \in Nat /\ slots[k].startsAt \in Nat
      BY <1>1, <1>s DEF Slot
    <3>3. ~Clash(slots[j], slots[k])
      BY <1>n, <1>s, <3>1, <3>2, Disjoint DEF IInv
    <3> QED
      BY <1>1, <1>s, <3>3, Clashes
  <2> QED
    BY <2>1 DEF OnlyRevivedSlotsOverlap, ActiveOverlap, Clash, Active, Steady
<1>3. ASSUME NEW w \in Workers
      PROVE  Coherent(requests[w])'
  <2> DEFINE request == requests[w]
  <2>1. Coherent(request) /\ request \in Request /\ request' = request
    BY SlotsOf DEF IInv
  <2>2. \A k \in DOMAIN request.changes : request.changes[k].read \in Slot
    BY SlotsOf DEF IInv, Change
  <2>3. \A k \in Steady' :
          /\ Target(request, k) \in Slot /\ Target(request, k)' \in Slot
          /\ SameTime(Target(request, k)', Target(request, k))
    <3> SUFFICES ASSUME NEW k \in Steady'
                 PROVE  /\ Target(request, k) \in Slot /\ Target(request, k)' \in Slot
                        /\ SameTime(Target(request, k)', Target(request, k))
      OBVIOUS
    <3>1. CASE k \in DOMAIN request.changes
      BY <1>s, <2>1, <3>1, SlotsOf, SameTimes DEF Target, IInv
    <3>2. CASE k \notin DOMAIN request.changes
      BY <1>1, <1>s, <2>1, <3>2 DEF Target
    <3> QED
      BY <3>1, <3>2
  <2>4. request.at \in Nat /\ request.inserts \subseteq Slot
    BY <2>1 DEF Request
  <2> HIDE DEF request
  <2>5. request'.at <= now'
    BY <1>n, <2>1, <2>4 DEF Coherent
  <2>6. ReadAsIs(request)'
    BY <1>1, <1>s, <2>1, <2>2, SameTimes DEF Coherent, ReadAsIs, Steady
  <2>7. TargetsDisjoint(request)'
    <3> SUFFICES ASSUME NEW j \in Steady', NEW k \in Steady', j # k,
                        Target(request, j)'.startsAt >= now', Target(request, k)'.startsAt >= now'
                 PROVE  ~Clash(Target(request, j), Target(request, k))'
      BY DEF TargetsDisjoint
    <3>1. /\ Target(request, j).startsAt = Target(request, j)'.startsAt
          /\ Target(request, k).startsAt = Target(request, k)'.startsAt
          /\ Target(request, j).startsAt \in Nat /\ Target(request, k).startsAt \in Nat
      BY <2>3, Clashes DEF Slot
    <3>2. ~Clash(Target(request, j), Target(request, k))
      BY <1>n, <1>s, <2>1, <3>1 DEF Coherent, TargetsDisjoint
    <3>3. ~Clash(Target(request, j)', Target(request, k)')
      BY <2>3, <3>2, Clashes
    <3> QED
      BY <3>3 DEF Clash, Active, Overlap
  <2>8. InsertsDisjoint(request)'
    <3>1. \A a, b \in request.inserts : a # b => ~Clash(a, b)
      BY <2>1 DEF Coherent, InsertsDisjoint
    <3>2. ASSUME NEW a \in request.inserts, NEW k \in Steady',
                 Target(request, k)'.startsAt >= request.at
          PROVE  ~Clash(a, Target(request, k)')
      <4>1. Target(request, k).startsAt = Target(request, k)'.startsAt
        BY <2>3, Clashes
      <4>2. ~Clash(a, Target(request, k))
        BY <1>s, <2>1, <3>2, <4>1 DEF Coherent, InsertsDisjoint
      <4> QED
        BY <2>3, <2>4, <4>2, Clashes
    <3> QED
      BY <2>1, <3>1, <3>2 DEF InsertsDisjoint, Clash, Active, Overlap
  <2>9. Generates(request)'
    BY <2>1 DEF Coherent, Generates, Active, InGenerationWindow
  <2> QED
    BY <2>5, <2>6, <2>7, <2>8, <2>9 DEF Coherent, request
<1> QED
  BY <1>2, <1>3 DEF IInv

-----------------------------------------------------------------------------
(* A request that begins, proceeds or ends, and leaves the slots alone. *)

LEMMA OneRequest ==
  ASSUME IInv, NEW w \in Workers, NEW request \in Request, Coherent(request),
         requests' = [requests EXCEPT ![w] = request],
         rules' \in UNION {[keys -> Rule] : keys \in SUBSET RuleIds},
         UNCHANGED <<now, slots, cancels, revived>>
  PROVE  IInv'
<1>1. TypeInv'
  BY DEF IInv, TypeInv
<1>s. Steady' = Steady
  BY DEF Steady
<1>2. OnlyRevivedSlotsOverlap'
  BY DEF IInv, OnlyRevivedSlotsOverlap, ActiveOverlap
<1>3. ASSUME NEW v \in Workers
      PROVE  Coherent(requests[v])'
  <2> DEFINE next == requests'[v]
  <2>1. Coherent(next)
    BY DEF IInv, TypeInv
  <2> HIDE DEF next
  <2>2. \A k : IF k \in DOMAIN next.changes THEN next.changes[k].row = Target(next, k)
                                            ELSE slots'[k] = Target(next, k)
    BY DEF Target
  <2>3. \A k : Target(requests[v], k)' = Target(next, k)
    BY <2>2 DEF Target, next
  <2>4. Coherent(requests[v])' <=> Coherent(next)
    BY <1>s, <2>3 DEF Coherent, ReadAsIs, TargetsDisjoint, InsertsDisjoint, Generates, SameTime, Clash,
                Active, InGenerationWindow, next
  <2> QED
    BY <2>1, <2>4
<1> QED
  BY <1>1, <1>2, <1>3 DEF IInv

(* A request that changes no slot that there is. *)
LEMMA NothingChanged ==
  ASSUME IInv, NEW request \in Request, request.changes = EmptyTable, request.at <= now,
         InsertsDisjoint(request), Generates(request)
  PROVE  Coherent(request)
<1>1. \A k \in DOMAIN slots : Target(request, k) = slots[k]
  BY DEF Target, EmptyTable
<1>2. TargetsDisjoint(request)
  BY <1>1, Disjoint DEF IInv, TargetsDisjoint, Steady
<1>3. ReadAsIs(request)
  BY DEF ReadAsIs, EmptyTable
<1> QED
  BY <1>2, <1>3 DEF Coherent

LEMMA EmptyTableIsTable ==
  ASSUME NEW K, NEW V
  PROVE  EmptyTable \in UNION {[keys -> V] : keys \in SUBSET K}
BY DEF EmptyTable

LEMMA IdleIsRequest == Idle \in Request
<1>1. << >> \in Seq(Generated)
  OBVIOUS
<1> QED
  BY <1>1, EmptyTableIsTable DEF Idle, Request

LEMMA IdleFields ==
  /\ Idle \in Request
  /\ Idle.stage = "IDLE" /\ Idle.at = 0 /\ Idle.rules = << >>
  /\ Idle.changes = EmptyTable /\ Idle.inserts = {}
BY IdleIsRequest DEF Idle

LEMMA IdleIsCoherent ==
  ASSUME IInv
  PROVE  Coherent(Idle)
<1>1. InsertsDisjoint(Idle) /\ Generates(Idle) /\ Idle.changes = EmptyTable /\ Idle.at <= now
  BY DEF Idle, InsertsDisjoint, Generates, IInv, TypeInv
<1> QED
  BY <1>1, IdleIsRequest, NothingChanged

LEMMA LoseConnectionKeeps ==
  ASSUME IInv, NEW w \in Workers, LoseConnection(w)
  PROVE  IInv'
BY IdleIsRequest, IdleIsCoherent, OneRequest DEF LoseConnection, IInv, TypeInv

(* The rules to generate from. *)
LEMMA GenerationIsCoherent ==
  ASSUME IInv, NEW kind \in Kinds, NEW rs \in Seq(Generated)
  PROVE  Generation(kind, rs) \in Request /\ Coherent(Generation(kind, rs))
<1> DEFINE request == Generation(kind, rs)
<1>1. /\ request.stage = IF rs = << >> THEN "COMMIT" ELSE "GENERATED"
      /\ request.at = now /\ request.rules = rs
      /\ request.changes = EmptyTable /\ request.inserts = {}
  BY IdleFields DEF Generation, Request
<1>2. request \in Request
  BY IdleFields DEF Generation, Request, IInv, TypeInv
<1> HIDE DEF request
<1>3. InsertsDisjoint(request) /\ Generates(request)
  BY <1>1 DEF InsertsDisjoint, Generates
<1>4. request.changes = EmptyTable /\ request.at <= now
  BY <1>1 DEF IInv, TypeInv
<1> QED
  BY <1>2, <1>3, <1>4, NothingChanged DEF request

LEMMA GenerateKeeps ==
  ASSUME IInv, NEW w \in Workers, GenerateTeacherSlots(w)
  PROVE  IInv'
<1>1. PICK rs \in SetToSeqs(ActiveRules) :
        Begin(w, Generation("GENERATE", [i \in DOMAIN rs |-> [id |-> rs[i], rule |-> rules[rs[i]]]]))
  BY DEF GenerateTeacherSlots
<1> DEFINE read == [i \in DOMAIN rs |-> [id |-> rs[i], rule |-> rules[rs[i]]]]
<1>2. ActiveRules \subseteq DOMAIN rules /\ DOMAIN rules \subseteq RuleIds
      /\ \A r \in DOMAIN rules : rules[r] \in Rule
  BY DEF ActiveRules, IInv, TypeInv
<1>3. IsFiniteSet(ActiveRules)
  BY <1>2, FS_Subset, AvailabilityAssumption DEF AvailabilityAssumption
<1>4. Cardinality(ActiveRules) \in Nat
  BY <1>3, FS_CardinalityType
<1>5. rs \in [1 .. Cardinality(ActiveRules) -> ActiveRules]
  BY <1>1 DEF SetToSeqs
<1>6. read \in Seq(Generated)
  <2> DEFINE n == Cardinality(ActiveRules)
  <2>1. n \in Nat /\ rs \in [1 .. n -> ActiveRules]
    BY <1>4, <1>5
  <2> HIDE DEF n
  <2>2. read \in [1 .. n -> Generated]
    BY <1>2, <2>1 DEF Generated
  <2> HIDE DEF read
  <2> QED
    BY <2>1, <2>2
<1> QED
  BY <1>1, <1>6, GenerationIsCoherent, OneRequest
     DEF Begin, GenerateTeacherSlots, MayBegin, IInv, TypeInv

LEMMA SetRuleKeeps ==
  ASSUME IInv, NEW w \in Workers, NEW kind \in Kinds, NEW r \in RuleIds, NEW rule \in Rule,
         SetRule(w, kind, r, rule)
  PROVE  IInv'
<1>1. <<[id |-> r, rule |-> rule]>> \in Seq(Generated)
  BY DEF Generated
<1>2. rules' \in UNION {[keys -> Rule] : keys \in SUBSET RuleIds}
  BY DEF SetRule, IInv, TypeInv
<1> QED
  BY <1>1, <1>2, GenerationIsCoherent, OneRequest DEF SetRule, Begin

LEMMA RuleRequestsKeep ==
  ASSUME IInv, NEW w \in Workers,
         \/ CreateTeacherAvailabilityRule(w)
         \/ UpdateTeacherAvailabilityRule(w)
         \/ DeleteTeacherAvailabilityRule(w)
  PROVE  IInv'
<1>1. RuleShapes \subseteq Rule
  BY AvailabilityAssumption DEF AvailabilityAssumption
<1>2. \A r \in DOMAIN rules : r \in RuleIds /\ rules[r] \in Rule
  BY DEF IInv, TypeInv
<1>3. CASE CreateTeacherAvailabilityRule(w)
  BY <1>1, <1>3, SetRuleKeeps DEF CreateTeacherAvailabilityRule, MayBegin
<1>4. CASE UpdateTeacherAvailabilityRule(w)
  BY <1>1, <1>2, <1>4, SetRuleKeeps DEF UpdateTeacherAvailabilityRule, MayBegin
<1>5. CASE DeleteTeacherAvailabilityRule(w)
  <2>1. PICK r \in DOMAIN rules :
          SetRule(w, "DELETE_RULE", r, [rules[r] EXCEPT !.active = FALSE])
    BY <1>5 DEF DeleteTeacherAvailabilityRule
  <2>2. [rules[r] EXCEPT !.active = FALSE] \in Rule /\ r \in RuleIds
    BY <1>2 DEF Rule
  <2> QED
    BY <1>5, <2>1, <2>2, SetRuleKeeps DEF DeleteTeacherAvailabilityRule, MayBegin
<1> QED
  BY <1>3, <1>4, <1>5

(* New slots, a block, and the changes of one slot. *)
LEMMA CreateSlotsKeeps ==
  ASSUME IInv, NEW w \in Workers, CreateTeacherAvailabilitySlots(w)
  PROVE  IInv'
<1>u. UNCHANGED <<now, rules, slots, cancels, revived>>
  BY DEF CreateTeacherAvailabilitySlots
<1>1. PICK r \in DOMAIN rules \cup {None}, status \in Statuses, windows \in (SUBSET Windows) \ {{}} :
        LET rows == {NewSlot(r, window, status) : window \in windows} IN
          /\ \A a, b \in ActiveSlots(rows) : a # b => ~Overlap(a, b)
          /\ \A row \in rows : NoSlotOverlaps(slots, row)
          /\ Begin(w, [Idle EXCEPT !.kind = "CREATE_SLOT", !.stage = "COMMIT", !.inserts = rows])
  BY DEF CreateTeacherAvailabilitySlots
<1> DEFINE rows == {NewSlot(r, window, status) : window \in windows}
<1>2. rows \subseteq Slot
  <2>1. DOMAIN rules \subseteq RuleIds
    BY DEF IInv, TypeInv
  <2>2. Statuses \subseteq SlotStatuses /\ Windows \subseteq Window
    BY AvailabilityAssumption DEF AvailabilityAssumption
  <2> QED
    BY <2>1, <2>2 DEF Window, Slot, NewSlot
<1> DEFINE request == [Idle EXCEPT !.kind = "CREATE_SLOT", !.stage = "COMMIT", !.inserts = rows]
<1>3. /\ request.stage = "COMMIT" /\ request.at = 0
      /\ request.changes = EmptyTable /\ request.inserts = rows
  BY IdleFields DEF Request
<1>4. "CREATE_SLOT" \in Kinds
  BY DEF CreateTeacherAvailabilitySlots, MayBegin
<1>5. request \in Request
  <2> HIDE DEF rows
  <2> QED
    BY <1>2, <1>4, IdleFields DEF Request
<1>6. Generates(request) /\ request.changes = EmptyTable /\ request.at <= now
      /\ request.inserts = rows
  BY <1>3 DEF Generates, IInv, TypeInv
<1>b. requests' = [requests EXCEPT ![w] = request]
  BY <1>1 DEF Begin
<1>c. /\ \A a, b \in ActiveSlots(rows) : a # b => ~Overlap(a, b)
      /\ \A row \in rows : NoSlotOverlaps(slots, row)
  BY <1>1
<1> HIDE DEF request, rows
<1>7. InsertsDisjoint(request)
  <2>1. \A k \in DOMAIN slots : Target(request, k) = slots[k]
    BY <1>6 DEF Target, EmptyTable
  <2>2. \A a, b \in rows : a # b => ~Clash(a, b)
    BY <1>c DEF ActiveSlots, Clash, Active
  <2>3. \A a \in rows : \A k \in DOMAIN slots : ~Clash(a, slots[k])
    BY <1>c DEF NoSlotOverlaps, ActiveSlots, RowsOf, Clash, Active
  <2> QED
    BY <1>6, <2>1, <2>2, <2>3 DEF InsertsDisjoint, Steady
<1>8. Coherent(request)
  BY <1>5, <1>6, <1>7, NothingChanged
<1> QED
  BY <1>5, <1>8, <1>b, <1>u, OneRequest DEF IInv, TypeInv

LEMMA ChangeSlotKeeps ==
  ASSUME IInv, NEW w \in Workers, NEW kind \in Kinds, NEW slot \in DOMAIN slots, NEW row \in Slot,
         \A k \in DOMAIN slots \ {slot} : ~Clash(row, slots[k]),
         ChangeSlot(w, kind, slot, row)
  PROVE  IInv'
<1> DEFINE changes == [k \in {slot} |-> [read |-> slots[slot], row |-> row]]
           request == [Idle EXCEPT !.kind = kind, !.stage = "COMMIT", !.changes = changes]
<1>1. /\ request.stage = "COMMIT" /\ request.at = 0
      /\ request.changes = changes /\ request.inserts = {}
  BY IdleFields DEF Request
<1>2. slots[slot] \in Slot /\ slot \in SlotIds /\ now \in Nat
  BY SlotsOf DEF IInv, TypeInv
<1>3. changes \in [{slot} -> Change] /\ {slot} \in SUBSET SlotIds
  BY <1>2 DEF Change
<1>4. request \in Request
  <2> HIDE DEF changes
  <2> QED
    BY <1>3, IdleFields DEF Request
<1>b. requests' = [requests EXCEPT ![w] = request]
  BY DEF ChangeSlot, Begin
<1>5. /\ DOMAIN request.changes = {slot}
      /\ request.changes[slot].read = slots[slot] /\ request.changes[slot].row = row
      /\ request.inserts = {} /\ request.at = 0 /\ request.stage = "COMMIT"
  BY <1>1
<1> HIDE DEF request, changes
<1>6. \A k \in DOMAIN slots : Target(request, k) = IF k = slot THEN row ELSE slots[k]
  BY <1>5 DEF Target
<1>7. TargetsDisjoint(request)
  <2>1. \A k \in DOMAIN slots \ {slot} : ~Clash(slots[k], row)
    BY Clashes, SlotsOf DEF IInv
  <2> QED
    BY <1>6, <2>1, Disjoint DEF TargetsDisjoint, IInv, Steady
<1>8. Coherent(request)
  BY <1>2, <1>5, <1>7, SameTimes DEF Coherent, ReadAsIs, InsertsDisjoint, Generates
<1> QED
  BY <1>4, <1>8, <1>b, OneRequest DEF ChangeSlot, IInv, TypeInv

LEMMA UpdateSlotKeeps ==
  ASSUME IInv, NEW w \in Workers, UpdateTeacherAvailabilitySlot(w)
  PROVE  IInv'
<1>s. PICK slot \in DOMAIN slots : \E row \in SlotUpdates(slots[slot]) :
        NoSlotOverlaps(Except(slots, slot), row) /\ ChangeSlot(w, "UPDATE_SLOT", slot, row)
  BY DEF UpdateTeacherAvailabilitySlot
<1>1. PICK row \in SlotUpdates(slots[slot]) :
        NoSlotOverlaps(Except(slots, slot), row) /\ ChangeSlot(w, "UPDATE_SLOT", slot, row)
  BY <1>s
<1>2. slots[slot] \in Slot
  BY SlotsOf DEF IInv
<1>3. row \in Slot
  <2>1. Statuses \subseteq SlotStatuses /\ Windows \subseteq Window
    BY AvailabilityAssumption DEF AvailabilityAssumption
  <2> QED
    BY <1>2, <2>1 DEF SlotUpdates, Slot, Window
<1>4. \A k \in DOMAIN slots \ {slot} : ~Clash(row, slots[k])
  BY <1>1 DEF NoSlotOverlaps, Except, ActiveSlots, RowsOf, Clash, Active
<1> QED
  BY <1>1, <1>3, <1>4, ChangeSlotKeeps DEF UpdateTeacherAvailabilitySlot, MayBegin

LEMMA DeleteSlotKeeps ==
  ASSUME IInv, NEW w \in Workers, DeleteTeacherAvailabilitySlot(w)
  PROVE  IInv'
<1>1. PICK slot \in DOMAIN slots :
        ChangeSlot(w, "DELETE_SLOT", slot, [slots[slot] EXCEPT !.status = "CANCELLED"])
  BY DEF DeleteTeacherAvailabilitySlot
<1>2. slots[slot] \in Slot
  BY SlotsOf DEF IInv
<1>3. [slots[slot] EXCEPT !.status = "CANCELLED"] \in Slot
      /\ ~Active([slots[slot] EXCEPT !.status = "CANCELLED"])
  BY <1>2 DEF Slot, SlotStatuses, Active
<1> QED
  BY <1>1, <1>3, ChangeSlotKeeps DEF Clash, DeleteTeacherAvailabilitySlot, MayBegin

(* A moment that passes, a booking, the steps of a cancellation. *)
LEMMA TickKeeps ==
  ASSUME IInv, Tick
  PROVE  IInv'
<1>1. now' \in Nat /\ now' >= now
  <2>1. Instants \subseteq Nat
    BY AvailabilityAssumption DEF AvailabilityAssumption
  <2>2. now' \in Nat /\ now' > now /\ now \in Nat
    BY <2>1 DEF Tick, IInv, TypeInv
  <2> QED
    BY <2>2
<1>2. TypeInv'
  BY <1>1 DEF Tick, IInv, TypeInv
<1> QED
  BY <1>1, <1>2, SameTimes, StandingStill DEF Tick

LEMMA BookKeeps ==
  ASSUME IInv, NEW slot \in DOMAIN slots, BookOneOnOne(slot)
  PROVE  IInv'
<1>1. slots' = [slots EXCEPT ![slot] = [slots[slot] EXCEPT !.status = "BOOKED"]]
      /\ UNCHANGED <<now, rules, requests, cancels, revived>>
  BY DEF BookOneOnOne
<1>2. [slots[slot] EXCEPT !.status = "BOOKED"] \in Slot
      /\ SameTime([slots[slot] EXCEPT !.status = "BOOKED"], slots[slot])
  BY SlotsOf DEF IInv, Slot, SlotStatuses, SameTime, WindowOf, Active, BookOneOnOne
<1>3. slots' \in [DOMAIN slots -> Slot] /\ DOMAIN slots \in SUBSET SlotIds
  BY <1>1, <1>2, SlotsOf DEF IInv, TypeInv
<1>4. TypeInv'
  BY <1>1, <1>3 DEF IInv, TypeInv
<1>5. \A k \in DOMAIN slots : SameTime(slots'[k], slots[k])
  BY <1>1, <1>2, SameTimes, SlotsOf DEF IInv, TypeInv
<1> QED
  BY <1>1, <1>3, <1>4, <1>5, StandingStill DEF IInv, TypeInv

LEMMA CancelsKeep ==
  ASSUME IInv, TypeInv', UNCHANGED <<now, rules, slots, requests, revived>>
  PROVE  IInv'
BY SameTimes, StandingStill DEF IInv, TypeInv

LEMMA ReadSlotKeeps ==
  ASSUME IInv, NEW slot \in DOMAIN slots, NEW kind \in {"CANCEL", "SWITCH"},
         ReadSlotOfClass(slot, kind)
  PROVE  IInv'
<1> DEFINE cancel == [slot |-> slot, kind |-> kind, live |-> TRUE,
                      releases |-> slots[slot].status = "BOOKED" /\ classes[slot] > now]
<1>1. cancels' = cancels \cup {cancel} /\ UNCHANGED <<now, rules, slots, requests, revived>>
  BY DEF ReadSlotOfClass
<1>2. cancel \in Cancellation /\ cancel.slot \in DOMAIN slots
  BY SlotsOf DEF Cancellation, IInv
<1> HIDE DEF cancel
<1>3. TypeInv'
  BY <1>1, <1>2 DEF IInv, TypeInv
<1> QED
  BY <1>1, <1>3, CancelsKeep

LEMMA LoseCancellationKeeps ==
  ASSUME IInv, NEW cancel \in cancels, LoseCancellation(cancel)
  PROVE  IInv'
<1>1. TypeInv'
  BY DEF LoseCancellation, IInv, TypeInv
<1> QED
  BY <1>1, CancelsKeep DEF LoseCancellation

(* A slot that is put back after it was withdrawn is revived by that. *)
LEMMA CancelClassKeeps ==
  ASSUME IInv, NEW cancel \in cancels, CancelClass(cancel)
  PROVE  IInv'
<1> DEFINE slot == cancel.slot
           freed == [slots[slot] EXCEPT !.status = "AVAILABLE"]
<1>1. /\ slots' = IF cancel.releases THEN [slots EXCEPT ![slot] = freed] ELSE slots
      /\ cancels' = {[other EXCEPT !.live = @ /\ ~(cancel.live /\ other.slot = slot)] :
                       other \in cancels \ {cancel}}
      /\ revived' = IF slots'[slot].status # slots[slot].status /\ slots[slot].status = "CANCELLED"
                    THEN revived \cup {slot} ELSE revived
      /\ UNCHANGED <<now, rules, requests>>
  BY DEF CancelClass
<1>2. slot \in DOMAIN slots /\ slots[slot] \in Slot /\ DOMAIN slots \subseteq SlotIds
  BY SlotsOf DEF IInv, TypeInv
<1>3. /\ freed \in Slot /\ freed.status = "AVAILABLE"
      /\ slots[slot].status # "CANCELLED" => SameTime(freed, slots[slot])
  BY <1>2 DEF Slot, SlotStatuses, SameTime, WindowOf, Active
<1>4. cancels' \subseteq Cancellation /\ \A other \in cancels' : other.slot \in DOMAIN slots
  <2> DEFINE dead(other) == [other EXCEPT !.live = @ /\ ~(cancel.live /\ other.slot = slot)]
  <2>1. ASSUME NEW other \in cancels
        PROVE  dead(other) \in Cancellation /\ dead(other).slot \in DOMAIN slots
    BY DEF Cancellation, IInv, TypeInv
  <2> QED
    BY <1>1, <2>1
<1> HIDE DEF freed, slot
<1>5. DOMAIN slots' = DOMAIN slots /\ \A k \in DOMAIN slots :
        slots'[k] = IF cancel.releases /\ k = slot THEN freed ELSE slots[k]
  BY <1>1, <1>2
<1>6. slots' \in [DOMAIN slots -> Slot]
  <2>1. \A k \in DOMAIN slots : slots'[k] \in Slot
    BY <1>3, <1>5, SlotsOf DEF IInv
  <2>2. slots' = [k \in DOMAIN slots |-> slots'[k]]
    <3>1. slots = [k \in DOMAIN slots |-> slots[k]]
      BY DEF IInv, TypeInv
    <3> QED
      BY <1>1, <3>1
  <2> QED
    BY <2>1, <2>2
<1>7. TypeInv'
  BY <1>1, <1>2, <1>4, <1>5, <1>6 DEF IInv, TypeInv
<1>8. revived \subseteq revived'
  BY <1>1
<1>9. \A k \in DOMAIN slots \ revived' : SameTime(slots'[k], slots[k])
  <2> SUFFICES ASSUME NEW k \in DOMAIN slots \ revived'
               PROVE  SameTime(slots'[k], slots[k])
    OBVIOUS
  <2>1. CASE cancel.releases /\ k = slot
    <3>1. slots'[slot] = freed /\ slots[slot].status # "CANCELLED"
      BY <1>1, <1>2, <1>3, <1>5, <2>1
    <3> QED
      BY <1>3, <2>1, <3>1
  <2>2. CASE ~(cancel.releases /\ k = slot)
    BY <1>5, <2>2, SameTimes
  <2> QED
    BY <2>1, <2>2
<1>10. now' >= now
  BY <1>1 DEF IInv, TypeInv
<1> QED
  BY <1>1, <1>5, <1>7, <1>8, <1>9, <1>10, StandingStill

-----------------------------------------------------------------------------
(* The windows that a rule asks for. *)

(* The k-th window of a day is in that day, and after those before it. *)
LEMMA WindowsOfDate ==
  ASSUME NEW rule \in Rule, NEW date \in Nat, NEW t \in Nat, NEW a \in SlotsForDate(rule, date, t)
  PROVE  /\ a \in Window
         /\ t < a.startsAt /\ a.startsAt < a.endsAt
         /\ DAY * date <= a.startsAt /\ a.endsAt <= DAY * (date + 1)
         /\ \A b \in SlotsForDate(rule, date, t) : a # b => ~Overlap(a, b)
<1> DEFINE first == DAY * date + rule.start
           start(k) == first + k * rule.duration
<1>1. /\ rule.start \in Nat /\ rule.end \in Nat /\ rule.end <= DAY
      /\ rule.duration \in Nat /\ rule.duration > 0
  BY DEF Rule, DAY
<1>2. first \in Nat /\ DAY * date \in Nat /\ DAY * (date + 1) = DAY * date + DAY
  BY <1>1 DEF DAY
<1>3. 0 .. rule.end - rule.start \subseteq Nat
  BY <1>1
<1>4. \A b \in SlotsForDate(rule, date, t) : \E k \in Nat :
        /\ b = [startsAt |-> start(k), endsAt |-> start(k + 1)]
        /\ start(k + 1) <= DAY * date + rule.end /\ start(k) > t
  BY <1>3 DEF SlotsForDate
<1>5. \A k \in Nat : start(k) \in Nat /\ start(k) < start(k + 1) /\ DAY * date <= start(k)
  <2> SUFFICES ASSUME NEW k \in Nat
               PROVE  start(k) \in Nat /\ start(k) < start(k + 1) /\ DAY * date <= start(k)
    OBVIOUS
  <2>1. k * rule.duration \in Nat /\ (k + 1) * rule.duration = k * rule.duration + rule.duration
    BY <1>1
  <2>2. first >= DAY * date
    BY <1>1, <1>2
  <2> QED
    BY <1>1, <1>2, <2>1, <2>2
<1>6. \A j, k \in Nat : j < k => start(j + 1) <= start(k)
  <2> SUFFICES ASSUME NEW j \in Nat, NEW k \in Nat, j < k
               PROVE  start(j + 1) <= start(k)
    OBVIOUS
  <2>1. PICK n \in Nat : k = j + 1 + n
    <3>1. k - j - 1 \in Nat /\ k = j + 1 + (k - j - 1)
      OBVIOUS
    <3> QED
      BY <3>1
  <2>2. k * rule.duration = (j + 1) * rule.duration + n * rule.duration
    BY <1>1, <2>1
  <2>3. (j + 1) * rule.duration \in Nat /\ n * rule.duration \in Nat /\ k * rule.duration \in Nat
    BY <1>1, <2>1
  <2> QED
    BY <1>2, <2>2, <2>3
<1> HIDE DEF start, first
<1>7. PICK k \in Nat : /\ a = [startsAt |-> start(k), endsAt |-> start(k + 1)]
                       /\ start(k + 1) <= DAY * date + rule.end /\ start(k) > t
  BY <1>4
<1>8. start(k) \in Nat /\ start(k + 1) \in Nat /\ start(k) < start(k + 1) /\ DAY * date <= start(k)
  BY <1>5
<1>9. start(k + 1) <= DAY * date + DAY
  BY <1>1, <1>2, <1>7, <1>8 DEF DAY
<1>10. ASSUME NEW b \in SlotsForDate(rule, date, t), a # b
       PROVE  ~Overlap(a, b)
  <2>1. PICK j \in Nat : b = [startsAt |-> start(j), endsAt |-> start(j + 1)]
    BY <1>4
  <2>2. j < k \/ k < j
    BY <1>7, <1>10, <2>1
  <2>3. start(j + 1) <= start(k) \/ start(k + 1) <= start(j)
    BY <1>6, <2>2
  <2>4. start(j) \in Nat /\ start(j + 1) \in Nat
    BY <1>5
  <2> QED
    BY <1>7, <1>8, <2>1, <2>3, <2>4 DEF Overlap
<1> QED
  BY <1>2, <1>7, <1>8, <1>9, <1>10 DEF Window

(* The day of a moment. *)
LEMMA Days ==
  ASSUME NEW t \in Nat
  PROVE  /\ Day(t) \in Nat
         /\ \A d \in Nat : DAY * d <= t <=> d <= Day(t)
<1>1. Day(t) \in Nat /\ DAY * Day(t) <= t /\ t < DAY * Day(t) + DAY
  BY DEF Day, DAY
<1> DEFINE day == Day(t)
<1> HIDE DEF day
<1>2. day \in Nat /\ DAY * day <= t /\ t < DAY * day + DAY
  BY <1>1 DEF day
<1>3. \A d \in Nat : DAY * d <= t <=> d <= day
  BY <1>2 DEF DAY
<1> QED
  BY <1>2, <1>3 DEF day

LEMMA ExpectedWindows ==
  ASSUME NEW rule \in Rule, NEW t \in Nat, NEW a \in Expected(rule, t)
  PROVE  /\ a \in Window
         /\ InGenerationWindow(a, t)
         /\ a.endsAt <= DAY * (Day(t) + SLOT_GENERATION_DAYS + 1)
         /\ \A b \in Expected(rule, t) : a # b => ~Overlap(a, b)
<1> DEFINE dates == {d \in Day(t) .. Day(t) + SLOT_GENERATION_DAYS : d % 7 = rule.day}
<1>1. Day(t) \in Nat
  BY Days
<1>2. dates \subseteq Nat /\ \A date \in dates : date <= Day(t) + SLOT_GENERATION_DAYS
  BY <1>1 DEF SLOT_GENERATION_DAYS
<1>3. \A b \in Expected(rule, t) : \E date \in dates : b \in SlotsForDate(rule, date, t)
  BY DEF Expected, ExpectedRuleSlots
<1> HIDE DEF dates
<1>4. PICK date \in dates : a \in SlotsForDate(rule, date, t)
  BY <1>3
<1>5. /\ a \in Window /\ date \in Nat
      /\ t < a.startsAt /\ a.startsAt < a.endsAt
      /\ DAY * date <= a.startsAt /\ a.endsAt <= DAY * (date + 1)
      /\ \A b \in SlotsForDate(rule, date, t) : a # b => ~Overlap(a, b)
  BY <1>2, <1>4, WindowsOfDate
<1>6. a.startsAt \in Nat /\ a.endsAt \in Nat
  BY <1>5 DEF Window
<1>7. Day(a.startsAt) <= date
  <2>1. ~(DAY * (date + 1) <= a.startsAt)
    BY <1>5, <1>6 DEF DAY
  <2>2. ~(date + 1 <= Day(a.startsAt)) /\ Day(a.startsAt) \in Nat
    BY <1>5, <1>6, <2>1, Days
  <2> QED
    BY <1>5, <2>2
<1>8. date <= Day(t) + SLOT_GENERATION_DAYS /\ Day(a.startsAt) \in Nat
  BY <1>2, <1>6, Days
<1>9. InGenerationWindow(a, t)
  BY <1>1, <1>5, <1>6, <1>7, <1>8 DEF InGenerationWindow, SLOT_GENERATION_DAYS
<1>10. a.endsAt <= DAY * (Day(t) + SLOT_GENERATION_DAYS + 1)
  BY <1>1, <1>5, <1>6, <1>8 DEF DAY, SLOT_GENERATION_DAYS
<1>11. ASSUME NEW b \in Expected(rule, t), a # b
       PROVE  ~Overlap(a, b)
  <2>1. PICK other \in dates : b \in SlotsForDate(rule, other, t)
    BY <1>3
  <2>2. /\ b \in Window /\ other \in Nat /\ b.startsAt < b.endsAt
        /\ DAY * other <= b.startsAt /\ b.endsAt <= DAY * (other + 1)
    BY <1>2, <2>1, WindowsOfDate
  <2>3. b.startsAt \in Nat /\ b.endsAt \in Nat
    BY <2>2 DEF Window
  <2>4. CASE other = date
    BY <1>5, <1>11, <2>1, <2>4
  <2>5. CASE other < date
    <3>1. DAY * (other + 1) <= DAY * date
      BY <1>5, <2>2, <2>5 DEF DAY
    <3>2. b.endsAt <= a.startsAt
      BY <1>5, <1>6, <2>2, <2>3, <3>1 DEF DAY
    <3> QED
      BY <1>6, <2>3, <3>2 DEF Overlap
  <2>6. CASE date < other
    <3>1. DAY * (date + 1) <= DAY * other
      BY <1>5, <2>2, <2>6 DEF DAY
    <3>2. a.endsAt <= b.startsAt
      BY <1>5, <1>6, <2>2, <2>3, <3>1 DEF DAY
    <3> QED
      BY <1>6, <2>3, <3>2 DEF Overlap
  <2> QED
    BY <1>5, <2>2, <2>4, <2>5, <2>6
<1> QED
  BY <1>5, <1>9, <1>10, <1>11

-----------------------------------------------------------------------------
(* Generation. *)

(* What the UPDATEs leave is what the request is after. *)
LEMMA UpdatedTargets ==
  ASSUME IInv, NEW w \in Workers
  PROVE  LET table == Updated(slots, requests[w].changes) IN
           /\ table \in [DOMAIN slots -> Slot]
           /\ \A k \in DOMAIN slots : Target(requests[w], k) \in Slot
           /\ \A k \in Steady : SameTime(table[k], Target(requests[w], k))
<1> DEFINE request == requests[w]
           table == Updated(slots, request.changes)
<1>1. /\ \A k \in DOMAIN slots : slots[k] \in Slot /\ Target(request, k) \in Slot
      /\ \A k \in DOMAIN request.changes : request.changes[k] \in Change
  BY SlotsOf DEF IInv
<1>2. \A k \in DOMAIN request.changes :
        k \notin revived => SameTime(slots[k], request.changes[k].read)
  BY DEF IInv, Coherent, ReadAsIs
<1>3. table = [k \in DOMAIN slots |-> table[k]]
  BY DEF Updated
<1>4. ASSUME NEW k \in DOMAIN slots
      PROVE  table[k] \in Slot /\ (k \notin revived => SameTime(table[k], Target(request, k)))
  <2>1. CASE k \notin DOMAIN request.changes
    <3>1. table[k] = slots[k] /\ Target(request, k) = slots[k]
      BY <2>1 DEF Updated, Target
    <3> QED
      BY <1>1, <3>1, SameTimes
  <2>2. CASE k \in DOMAIN request.changes
    <3> DEFINE read == request.changes[k].read
               row == request.changes[k].row
               slot == slots[k]
               updated == [column \in DOMAIN slot |->
                             IF row[column] # read[column] THEN row[column] ELSE slot[column]]
    <3>1. table[k] = updated
      BY <2>2 DEF Updated
    <3>2. read \in Slot /\ row \in Slot /\ slot \in Slot /\ Target(request, k) = row
      BY <1>1, <2>2 DEF Change, Target
    <3>3. k \notin revived => SameTime(slot, read)
      BY <1>2, <2>2
    <3> HIDE DEF read, row, slot
    <3>4. DOMAIN slot = {"rule", "startsAt", "endsAt", "status"}
      BY <3>2 DEF Slot
    <3>5. updated = [rule |-> updated.rule, startsAt |-> updated.startsAt,
                     endsAt |-> updated.endsAt, status |-> updated.status]
      BY <3>4
    <3>6. /\ updated.rule \in {row.rule, slot.rule}
          /\ updated.startsAt = IF row.startsAt # read.startsAt THEN row.startsAt ELSE slot.startsAt
          /\ updated.endsAt = IF row.endsAt # read.endsAt THEN row.endsAt ELSE slot.endsAt
          /\ updated.status = IF row.status # read.status THEN row.status ELSE slot.status
      BY <3>4
    <3> HIDE DEF updated
    <3>7. updated \in Slot
      BY <3>2, <3>5, <3>6 DEF Slot
    <3>8. k \notin revived =>
            /\ updated.startsAt = row.startsAt /\ updated.endsAt = row.endsAt
            /\ (Active(updated) <=> Active(row))
      BY <3>3, <3>6 DEF SameTime, WindowOf, Active
    <3>9. k \notin revived => SameTime(updated, row)
      BY <3>8 DEF SameTime, WindowOf
    <3> QED
      BY <3>1, <3>2, <3>7, <3>9
  <2> QED
    BY <2>1, <2>2
<1> QED
  BY <1>1, <1>3, <1>4 DEF Steady

(* A slot that is marked clashes with nothing. *)
LEMMA ReadGeneratedKeeps ==
  ASSUME IInv, NEW w \in Workers, ReadGeneratedSlots(w)
  PROVE  IInv'
<1> DEFINE request == requests[w]
           next == Head(request.rules)
           row(k) == IF Obsolete(slots[k], next.rule, request.at)
                     THEN [slots[k] EXCEPT !.status = "CANCELLED"] ELSE slots[k]
           read == [k \in GeneratedSlots(next.id, request.at) |-> [read |-> slots[k], row |-> row(k)]]
           changes == Overlay(request.changes, read)
           after == [request EXCEPT !.stage = "ACTIVE", !.changes = changes]
<1>1. /\ request.stage = "GENERATED"
      /\ requests' = [requests EXCEPT ![w] = after]
      /\ UNCHANGED <<now, rules, slots, classes, cancels, revived>>
  BY DEF ReadGeneratedSlots
<1>2. request \in Request /\ Coherent(request) /\ now \in Nat
      /\ DOMAIN request.changes \subseteq SlotIds
      /\ (\A k \in DOMAIN request.changes : request.changes[k] \in Change)
      /\ (\A k \in DOMAIN slots : slots[k] \in Slot /\ k \in SlotIds /\ Target(request, k) \in Slot)
  BY SlotsOf DEF IInv, TypeInv
<1>3. \A k \in DOMAIN slots :
        /\ row(k) \in Slot
        /\ \/ row(k) = slots[k]
           \/ row(k).startsAt = slots[k].startsAt /\ ~Active(row(k))
  <2> SUFFICES ASSUME NEW k \in DOMAIN slots
               PROVE  /\ row(k) \in Slot
                      /\ \/ row(k) = slots[k]
                         \/ row(k).startsAt = slots[k].startsAt /\ ~Active(row(k))
    OBVIOUS
  <2> DEFINE slot == slots[k]
             marked == [slot EXCEPT !.status = "CANCELLED"]
  <2>1. slot \in Slot /\ row(k) \in {slot, marked}
    BY <1>2
  <2> HIDE DEF slot, row
  <2>2. marked \in Slot /\ marked.startsAt = slot.startsAt /\ ~Active(marked)
    BY <2>1 DEF Slot, SlotStatuses, Active
  <2> HIDE DEF marked
  <2> QED
    BY <2>1, <2>2 DEF slot
<1>4. DOMAIN read \subseteq DOMAIN slots
      /\ \A k \in DOMAIN read : read[k] = [read |-> slots[k], row |-> row(k)]
  BY DEF GeneratedSlots
<1> HIDE DEF request, row, read
<1>5. /\ DOMAIN changes = DOMAIN read \cup DOMAIN request.changes
      /\ changes = [k \in DOMAIN changes |-> changes[k]]
      /\ \A k \in DOMAIN changes :
           changes[k] = IF k \in DOMAIN request.changes THEN request.changes[k] ELSE read[k]
  BY DEF Overlay
<1> HIDE DEF changes
<1>6. \A k \in DOMAIN changes : changes[k] \in Change /\ k \in SlotIds
  BY <1>2, <1>3, <1>4, <1>5 DEF Change
<1>7. changes \in UNION {[keys -> Change] : keys \in SUBSET SlotIds}
  BY <1>5, <1>6
<1>8. after \in Request
  BY <1>2, <1>7 DEF Request
<1>9. /\ after.stage = "ACTIVE" /\ after.changes = changes
      /\ after.rules = request.rules /\ after.at = request.at /\ after.inserts = request.inserts
  BY <1>2 DEF Request
<1> HIDE DEF after
<1>10. \A k \in DOMAIN slots :
         /\ Target(after, k) \in Slot
         /\ \/ Target(after, k) = Target(request, k)
            \/ Target(after, k).startsAt = Target(request, k).startsAt /\ ~Active(Target(after, k))
  <2> SUFFICES ASSUME NEW k \in DOMAIN slots
               PROVE  /\ Target(after, k) \in Slot
                      /\ \/ Target(after, k) = Target(request, k)
                         \/ /\ Target(after, k).startsAt = Target(request, k).startsAt
                            /\ ~Active(Target(after, k))
    OBVIOUS
  <2>1. CASE k \in DOMAIN request.changes
    <3>1. Target(after, k) = request.changes[k].row /\ Target(request, k) = request.changes[k].row
      BY <1>5, <1>9, <2>1 DEF Target
    <3> QED
      BY <1>2, <3>1
  <2>2. CASE k \notin DOMAIN request.changes
    <3>1. Target(request, k) = slots[k]
      BY <2>2 DEF Target
    <3>2. Target(after, k) = IF k \in DOMAIN read THEN row(k) ELSE slots[k]
      BY <1>4, <1>5, <1>9, <2>2 DEF Target
    <3> QED
      BY <1>2, <1>3, <3>1, <3>2
  <2> QED
    BY <2>1, <2>2
<1>11. ReadAsIs(after)
  <2>1. \A k \in DOMAIN request.changes :
          /\ k \in DOMAIN slots
          /\ k \notin revived => SameTime(slots[k], request.changes[k].read)
    BY <1>2 DEF Coherent, ReadAsIs
  <2> QED
    BY <1>4, <1>5, <1>9, <2>1, SameTimes DEF ReadAsIs
<1>12. TargetsDisjoint(after)
  BY <1>2, <1>10 DEF Coherent, TargetsDisjoint, Clash, Steady
<1>13. InsertsDisjoint(after)
  BY <1>2, <1>9, <1>10 DEF Coherent, InsertsDisjoint, Clash, Steady
<1>14. Generates(after)
  BY <1>1, <1>2, <1>9 DEF Coherent, Generates, request
<1>15. Coherent(after)
  BY <1>2, <1>9, <1>11, <1>12, <1>13, <1>14 DEF Coherent
<1> QED
  BY <1>1, <1>8, <1>15, OneRequest DEF IInv, TypeInv

(* The new slots of a rule are where the rule asks for them, and in nobody's way. *)
LEMMA MissingWindows ==
  ASSUME NEW rule \in Rule, NEW t \in Nat, NEW taken, NEW a \in MissingSlots(taken, rule, t)
  PROVE  /\ a \in Window /\ InGenerationWindow(a, t)
         /\ a.endsAt <= DAY * (Day(t) + SLOT_GENERATION_DAYS + 1)
         /\ \A b \in MissingSlots(taken, rule, t) : a # b => ~Overlap(a, b)
         /\ \A slot \in taken : ~Overlap(a, slot)
BY ExpectedWindows DEF MissingSlots

LEMMA ReadActiveKeeps ==
  ASSUME IInv, NEW w \in Workers, ReadActiveSlots(w)
  PROVE  IInv'
<1> DEFINE request == requests[w]
           next == Head(request.rules)
           at == request.at
           changed == Changed(request.changes)
           table == Updated(slots, request.changes)
           seen(k) == IF k \in DOMAIN request.changes THEN request.changes[k].row ELSE table[k]
           active == {k \in DOMAIN table : table[k].status # "CANCELLED"
                                             /\ InGenerationWindow(table[k], at)}
           taken == {seen(k) : k \in active} \cup ComingSlots(ActiveSlots(request.inserts), at)
           new == {NewSlot(next.id, window, "AVAILABLE") :
                     window \in MissingSlots(taken, next.rule, at)}
           after == [request EXCEPT
                       !.stage = IF Len(request.rules) = 1 THEN "COMMIT" ELSE "GENERATED",
                       !.rules = Tail(request.rules),
                       !.changes = [k \in changed |-> request.changes[k]],
                       !.flushed = changed,
                       !.inserts = request.inserts \cup new]
<1>1. /\ request.stage = "ACTIVE"
      /\ requests' = [requests EXCEPT ![w] = after]
      /\ UNCHANGED <<now, rules, slots, classes, cancels, revived>>
  BY DEF ReadActiveSlots
<1>2. request \in Request /\ Coherent(request) /\ now \in Nat
      /\ DOMAIN request.changes \subseteq SlotIds
      /\ (\A k \in DOMAIN request.changes : request.changes[k] \in Change)
      /\ (\A k \in DOMAIN slots : slots[k] \in Slot /\ k \in SlotIds /\ Target(request, k) \in Slot)
  BY SlotsOf DEF IInv, TypeInv
<1>3. request.rules # << >> /\ \A a \in request.inserts : Active(a) /\ InGenerationWindow(a, at)
  BY <1>1, <1>2 DEF Coherent, Generates
<1>4. /\ request.rules \in Seq(Generated) /\ at \in Nat /\ request.inserts \subseteq Slot
      /\ at <= now
  BY <1>2 DEF Request, Coherent
<1>5. next \in Generated /\ Tail(request.rules) \in Seq(Generated)
      /\ (Len(request.rules) # 1 => Tail(request.rules) # << >>)
  <2> DEFINE rs == request.rules
  <2>1. rs \in Seq(Generated) /\ rs # << >>
    BY <1>3, <1>4
  <2> HIDE DEF rs
  <2>2. Len(rs) \in Nat \ {0} /\ Head(rs) \in Generated
        /\ Tail(rs) \in Seq(Generated) /\ Len(Tail(rs)) = Len(rs) - 1
    BY <2>1
  <2>3. Len(rs) # 1 => Tail(rs) # << >>
    <3>1. Len(<< >>) = 0
      OBVIOUS
    <3> QED
      BY <2>2, <3>1
  <2> QED
    BY <2>2, <2>3 DEF rs
<1>6. next.id \in RuleIds /\ next.rule \in Rule
  BY <1>5 DEF Generated
<1>s. Steady \subseteq DOMAIN slots /\ \A k \in Steady : k \notin revived
  BY DEF Steady
<1>7. \A k \in Steady :
        Active(Target(request, k)) /\ InGenerationWindow(Target(request, k), at)
          => \E slot \in taken : WindowOf(slot) = WindowOf(Target(request, k))
  <2> SUFFICES ASSUME NEW k \in Steady,
                      Active(Target(request, k)), InGenerationWindow(Target(request, k), at)
               PROVE  \E slot \in taken : WindowOf(slot) = WindowOf(Target(request, k))
    OBVIOUS
  <2>1. table \in [DOMAIN slots -> Slot] /\ SameTime(table[k], Target(request, k))
    BY UpdatedTargets
  <2>2. k \in active
    BY <1>s, <2>1 DEF SameTime, Active, WindowOf, InGenerationWindow
  <2>3. WindowOf(seen(k)) = WindowOf(Target(request, k))
    BY <2>1 DEF Target, SameTime
  <2>4. seen(k) \in taken
    BY <2>2
  <2> QED
    BY <2>3, <2>4
<1>8. request.inserts \subseteq taken
  BY <1>3 DEF ComingSlots, ActiveSlots, Active
<1> HIDE DEF taken
<1>9. ASSUME NEW a \in new
      PROVE  /\ a \in Slot /\ Active(a) /\ InGenerationWindow(a, at)
             /\ a.endsAt <= DAY * (Day(at) + SLOT_GENERATION_DAYS + 1)
             /\ \A b \in new : a # b => ~Clash(a, b)
             /\ \A slot \in taken : ~Overlap(a, slot)
  <2>1. PICK window \in MissingSlots(taken, next.rule, at) : a = NewSlot(next.id, window, "AVAILABLE")
    OBVIOUS
  <2>2. /\ window \in Window /\ InGenerationWindow(window, at)
        /\ window.endsAt <= DAY * (Day(at) + SLOT_GENERATION_DAYS + 1)
        /\ \A b \in MissingSlots(taken, next.rule, at) : window # b => ~Overlap(window, b)
        /\ \A slot \in taken : ~Overlap(window, slot)
    BY <1>4, <1>6, MissingWindows
  <2>3. /\ a.startsAt = window.startsAt /\ a.endsAt = window.endsAt
        /\ a.status = "AVAILABLE" /\ a \in Slot
    BY <1>6, <2>1, <2>2 DEF NewSlot, Slot, SlotStatuses, Window
  <2>4. \A b \in new : a # b => ~Clash(a, b)
    <3> SUFFICES ASSUME NEW b \in new, a # b
                 PROVE  ~Overlap(a, b)
      BY DEF Clash
    <3>1. PICK other \in MissingSlots(taken, next.rule, at) :
            b = NewSlot(next.id, other, "AVAILABLE")
      OBVIOUS
    <3>2. other # window
      BY <2>1, <3>1
    <3>3. b.startsAt = other.startsAt /\ b.endsAt = other.endsAt
      BY <3>1 DEF NewSlot
    <3> QED
      BY <2>2, <2>3, <3>2, <3>3 DEF Overlap
  <2> QED
    BY <2>2, <2>3, <2>4 DEF Active, InGenerationWindow, Overlap
<1> HIDE DEF new
<1>10. ASSUME NEW a \in new, NEW k \in Steady, Target(request, k).startsAt >= at
       PROVE  ~Clash(a, Target(request, k))
  <2> DEFINE b == Target(request, k)
             limit == Day(at) + SLOT_GENERATION_DAYS + 1
  <2>1. b \in Slot /\ b.startsAt \in Nat /\ b.endsAt \in Nat /\ a.startsAt \in Nat /\ a.endsAt \in Nat
    BY <1>2, <1>9, <1>s DEF Slot
  <2>2. limit \in Nat /\ Day(at) \in Nat
    <3>1. Day(at) \in Nat
      <4> HIDE DEF at
      <4> QED
        BY <1>4, Days
    <3> QED
      BY <3>1 DEF SLOT_GENERATION_DAYS
  <2>3. CASE Day(b.startsAt) <= Day(at) + SLOT_GENERATION_DAYS /\ Active(b)
    <3>1. InGenerationWindow(b, at)
      BY <1>10, <2>3 DEF InGenerationWindow
    <3>2. PICK slot \in taken : WindowOf(slot) = WindowOf(b)
      BY <1>7, <2>3, <3>1
    <3>3. ~Overlap(a, slot) /\ slot.startsAt = b.startsAt /\ slot.endsAt = b.endsAt
      BY <1>9, <3>2 DEF WindowOf
    <3> QED
      BY <3>3 DEF Clash, Overlap
  <2>4. CASE ~(Day(b.startsAt) <= Day(at) + SLOT_GENERATION_DAYS)
    <3>1. Day(b.startsAt) \in Nat
      BY <2>1, Days
    <3>2. limit <= Day(b.startsAt)
      BY <2>2, <2>4, <3>1 DEF SLOT_GENERATION_DAYS
    <3>3. DAY * limit <= b.startsAt
      BY <2>1, <2>2, <3>2, Days
    <3>4. a.endsAt <= DAY * limit /\ DAY * limit \in Nat
      BY <1>9, <2>2 DEF DAY
    <3> HIDE DEF limit, b
    <3>5. a.endsAt <= b.startsAt
      BY <2>1, <3>3, <3>4
    <3>6. ~Overlap(a, b)
      BY <2>1, <3>5 DEF Overlap
    <3> QED
      BY <3>6 DEF Clash, b
  <2>5. CASE ~Active(b)
    BY <2>5 DEF Clash
  <2> QED
    BY <2>3, <2>4, <2>5
<1> DEFINE kept == [k \in changed |-> request.changes[k]]
<1>11. changed \subseteq DOMAIN request.changes
       /\ \A k \in DOMAIN request.changes \ changed : request.changes[k].row = request.changes[k].read
  BY DEF Changed
<1> HIDE DEF changed, request, next
<1>12. kept \in [changed -> Change] /\ changed \in SUBSET SlotIds
  BY <1>2, <1>11
<1>13. kept \in UNION {[keys -> Change] : keys \in SUBSET SlotIds}
  BY <1>12
<1>14. /\ DOMAIN kept = changed
       /\ \A k \in changed : kept[k] = request.changes[k]
  OBVIOUS
<1> HIDE DEF kept
<1>15. request.inserts \cup new \in SUBSET Slot
  BY <1>4, <1>9
<1>16. after = [request EXCEPT
                  !.stage = IF Len(request.rules) = 1 THEN "COMMIT" ELSE "GENERATED",
                  !.rules = Tail(request.rules), !.changes = kept, !.flushed = changed,
                  !.inserts = request.inserts \cup new]
  BY DEF kept
<1> HIDE DEF after, at
<1>17. after \in Request
  BY <1>2, <1>5, <1>12, <1>13, <1>15, <1>16 DEF Request
<1>18. /\ after.stage = IF Len(request.rules) = 1 THEN "COMMIT" ELSE "GENERATED"
       /\ after.rules = Tail(request.rules) /\ after.changes = kept
       /\ after.at = at /\ after.inserts = request.inserts \cup new
  BY <1>2, <1>16 DEF Request, at
<1>19. ReadAsIs(request) /\ TargetsDisjoint(request) /\ InsertsDisjoint(request)
  BY <1>2 DEF Coherent
<1>20. \A k \in Steady :
         Target(after, k) \in Slot /\ SameTime(Target(after, k), Target(request, k))
  BY <1>2, <1>11, <1>14, <1>18, <1>19, <1>s, SameTimes DEF Target, ReadAsIs, Change
<1>21. ReadAsIs(after)
  BY <1>11, <1>14, <1>18, <1>19 DEF ReadAsIs
<1>22. TargetsDisjoint(after)
  <2> SUFFICES ASSUME NEW j \in Steady, NEW k \in Steady, j # k,
                      Target(after, j).startsAt >= now, Target(after, k).startsAt >= now
               PROVE  ~Clash(Target(after, j), Target(after, k))
    BY DEF TargetsDisjoint
  <2>1. ~Clash(Target(request, j), Target(request, k))
    BY <1>2, <1>19, <1>20, <1>s, Clashes DEF TargetsDisjoint
  <2> QED
    BY <1>2, <1>20, <1>s, <2>1, Clashes
<1>23. InsertsDisjoint(after)
  <2>1. \A a, b \in after.inserts : a # b => ~Clash(a, b)
    <3>1. \A a, b \in request.inserts : a # b => ~Clash(a, b)
      BY <1>19 DEF InsertsDisjoint
    <3>2. \A a \in new, b \in request.inserts : ~Clash(a, b)
      BY <1>8, <1>9 DEF Clash
    <3>3. \A a \in request.inserts, b \in new : ~Clash(a, b)
      BY <1>4, <1>9, <3>2, Clashes
    <3> QED
      BY <1>9, <1>18, <3>1, <3>2, <3>3
  <2>2. \A a \in after.inserts : \A k \in Steady :
          Target(request, k).startsAt >= at => ~Clash(a, Target(request, k))
    BY <1>10, <1>18, <1>19 DEF InsertsDisjoint, at
  <2>3. \A a \in after.inserts : \A k \in Steady :
          Target(after, k).startsAt >= at => ~Clash(a, Target(after, k))
    <3> SUFFICES ASSUME NEW a \in after.inserts, NEW k \in Steady,
                        Target(after, k).startsAt >= at
                 PROVE  ~Clash(a, Target(after, k))
      OBVIOUS
    <3>1. a \in Slot
      BY <1>15, <1>18
    <3>2. ~Clash(a, Target(request, k))
      BY <1>2, <1>20, <1>s, <2>2, Clashes
    <3> QED
      BY <1>2, <1>20, <1>s, <3>1, <3>2, Clashes
  <2> QED
    BY <1>18, <2>1, <2>3 DEF InsertsDisjoint
<1>24. Generates(after)
  BY <1>3, <1>5, <1>9, <1>18 DEF Generates, at
<1>25. Coherent(after)
  BY <1>4, <1>18, <1>21, <1>22, <1>23, <1>24 DEF Coherent
<1> QED
  BY <1>1, <1>17, <1>25, OneRequest DEF IInv, TypeInv

-----------------------------------------------------------------------------
(* Commits. *)

(* New slots get free keys, different ones. *)
LEMMA NewKeys ==
  ASSUME NEW rows, ExistsInjection(rows, SlotIds \ DOMAIN slots)
  PROVE  /\ Keyed(rows) = [k \in DOMAIN Keyed(rows) |-> Keyed(rows)[k]]
         /\ DOMAIN Keyed(rows) \subseteq SlotIds \ DOMAIN slots
         /\ \A k \in DOMAIN Keyed(rows) : Keyed(rows)[k] \in rows
         /\ \A j, k \in DOMAIN Keyed(rows) : Keyed(rows)[j] = Keyed(rows)[k] => j = k
<1> DEFINE keysOf == CHOOSE f \in Injection(rows, SlotIds \ DOMAIN slots) : TRUE
<1>1. keysOf \in Injection(rows, SlotIds \ DOMAIN slots)
  BY DEF ExistsInjection
<1>2. keysOf \in [rows -> SlotIds \ DOMAIN slots]
  BY <1>1 DEF Injection
<1>3. Keyed(rows) = [k \in {keysOf[row] : row \in rows} |-> CHOOSE row \in rows : keysOf[row] = k]
  BY DEF Keyed
<1> HIDE DEF keysOf
<1>4. \A k \in DOMAIN Keyed(rows) : Keyed(rows)[k] \in rows /\ keysOf[Keyed(rows)[k]] = k
  BY <1>3
<1>5. DOMAIN Keyed(rows) \subseteq SlotIds \ DOMAIN slots
  BY <1>2, <1>3
<1>6. Keyed(rows) = [k \in DOMAIN Keyed(rows) |-> Keyed(rows)[k]]
  BY <1>3
<1> QED
  BY <1>4, <1>5, <1>6

(* The request has it as the database will: its commit keeps coming slots apart. *)
LEMMA CommitKeeps ==
  ASSUME IInv, NEW w \in Workers, \A v \in Workers : v = w, Commit(w)
  PROVE  IInv'
<1> DEFINE request == requests[w]
           updated == Updated(slots, request.changes)
           new == Keyed(request.inserts)
<1>1. /\ ExistsInjection(request.inserts, SlotIds \ DOMAIN slots)
      /\ slots' = Overlay(new, updated)
      /\ requests' = [requests EXCEPT ![w] = Idle]
      /\ revived' = {k \in revived : slots'[k].status # "CANCELLED"}
      /\ UNCHANGED <<now, rules, cancels>>
  BY DEF Commit
<1>2. /\ new = [k \in DOMAIN new |-> new[k]]
      /\ DOMAIN new \subseteq SlotIds \ DOMAIN slots
      /\ \A k \in DOMAIN new : new[k] \in request.inserts
      /\ \A j, k \in DOMAIN new : new[j] = new[k] => j = k
  BY <1>1, NewKeys
<1>3. /\ updated \in [DOMAIN slots -> Slot]
      /\ \A k \in DOMAIN slots : Target(request, k) \in Slot
      /\ \A k \in Steady : SameTime(updated[k], Target(request, k))
  BY UpdatedTargets
<1>4. request \in Request /\ Coherent(request) /\ now \in Nat /\ DOMAIN slots \subseteq SlotIds
  BY SlotsOf DEF IInv, TypeInv
<1>5. request.inserts \subseteq Slot /\ request.at \in Nat /\ request.at <= now
  BY <1>4 DEF Request, Coherent
<1>6. TargetsDisjoint(request) /\ InsertsDisjoint(request)
  BY <1>4 DEF Coherent
<1> HIDE DEF request, updated, new
<1>7. /\ DOMAIN slots' = DOMAIN slots \cup DOMAIN new
      /\ slots' = [k \in DOMAIN slots' |-> slots'[k]]
      /\ \A k \in DOMAIN slots : slots'[k] = updated[k]
      /\ \A k \in DOMAIN new : slots'[k] = new[k]
  BY <1>1, <1>2, <1>3 DEF Overlay
<1>8. \A k \in DOMAIN slots' : slots'[k] \in Slot /\ k \in SlotIds
  BY <1>2, <1>3, <1>4, <1>5, <1>7
<1>9. TypeInv'
  <2>1. slots' \in UNION {[keys -> Slot] : keys \in SUBSET SlotIds}
    BY <1>7, <1>8
  <2>2. revived' \subseteq DOMAIN slots' /\ \A cancel \in cancels : cancel.slot \in DOMAIN slots'
    BY <1>1, <1>7 DEF IInv, TypeInv
  <2> QED
    BY <1>1, <2>1, <2>2, IdleIsRequest DEF IInv, TypeInv
<1>s. /\ \A k \in Steady' : k \in Steady \/ k \in DOMAIN new \/ ~Active(slots'[k])
      /\ Steady \subseteq DOMAIN slots
  BY <1>1, <1>7 DEF Steady, Active
<1>10. \A j, k \in Steady' :
         j # k /\ slots'[j].startsAt >= now /\ slots'[k].startsAt >= now
           => ~Clash(slots'[j], slots'[k])
  <2>1. ASSUME NEW j \in Steady, NEW k \in Steady, j # k,
               slots'[j].startsAt >= now, slots'[k].startsAt >= now
        PROVE  ~Clash(slots'[j], slots'[k])
    <3>1. ~Clash(Target(request, j), Target(request, k))
      BY <1>3, <1>6, <1>7, <1>8, <1>s, <2>1, Clashes DEF TargetsDisjoint
    <3> QED
      BY <1>3, <1>7, <1>8, <1>s, <3>1, Clashes
  <2>2. ASSUME NEW j \in DOMAIN new, NEW k \in DOMAIN new, j # k
        PROVE  ~Clash(slots'[j], slots'[k])
    BY <1>2, <1>6, <1>7, <2>2 DEF InsertsDisjoint
  <2>3. ASSUME NEW j \in DOMAIN new, NEW k \in Steady, slots'[k].startsAt >= now
        PROVE  ~Clash(slots'[j], slots'[k])
    <3>1. Target(request, k).startsAt = slots'[k].startsAt /\ slots'[k].startsAt \in Nat
      BY <1>3, <1>7, <1>8, <1>s, Clashes DEF Slot
    <3>2. Target(request, k).startsAt >= request.at
      BY <1>4, <1>5, <2>3, <3>1
    <3>3. ~Clash(new[j], Target(request, k))
      BY <1>2, <1>6, <3>2 DEF InsertsDisjoint
    <3>4. new[j] \in Slot
      BY <1>2, <1>5
    <3> QED
      BY <1>3, <1>7, <1>s, <3>3, <3>4, Clashes
  <2>4. ASSUME NEW j \in Steady, NEW k \in DOMAIN new, slots'[j].startsAt >= now
        PROVE  ~Clash(slots'[j], slots'[k])
    BY <1>7, <1>8, <1>s, <2>3, <2>4, Clashes
  <2> QED
    BY <1>7, <1>s, <2>1, <2>2, <2>3, <2>4 DEF Clash
<1>11. OnlyRevivedSlotsOverlap'
  BY <1>1, <1>10 DEF OnlyRevivedSlotsOverlap, ActiveOverlap, Clash, Active, Steady
<1>12. \A v \in Workers : requests'[v] = Idle
  BY <1>1 DEF IInv, TypeInv
<1>13. Coherent(Idle)'
  <2> DEFINE idle == Idle
  <2>1. /\ idle.stage = "IDLE" /\ idle.at = 0 /\ idle.changes = EmptyTable /\ idle.inserts = {}
    BY IdleFields
  <2> HIDE DEF idle
  <2>2. \A k : Target(idle, k)' = slots'[k]
    BY <2>1 DEF Target, EmptyTable
  <2>3. TargetsDisjoint(idle)'
    BY <1>1, <1>10, <2>2 DEF TargetsDisjoint, Clash, Active
  <2>4. ReadAsIs(idle)' /\ InsertsDisjoint(idle)' /\ Generates(idle)'
    BY <2>1 DEF ReadAsIs, InsertsDisjoint, Generates, EmptyTable
  <2>5. Coherent(idle)'
    BY <1>1, <1>4, <2>1, <2>3, <2>4 DEF Coherent
  <2> QED
    BY <2>5 DEF idle
<1>14. \A v \in Workers : Coherent(requests[v])'
  <2> SUFFICES ASSUME NEW v \in Workers
               PROVE  Coherent(requests[v])'
    OBVIOUS
  <2>1. requests'[v] = Idle
    BY <1>12
  <2> QED
    BY <1>13, <2>1 DEF Coherent, ReadAsIs, TargetsDisjoint, InsertsDisjoint, Generates, Target
<1> QED
  BY <1>9, <1>11, <1>14 DEF IInv

-----------------------------------------------------------------------------
(* The theorem. *)

LEMMA InitHolds == Init => IInv
<1> SUFFICES ASSUME Init
             PROVE  IInv
  OBVIOUS
<1>1. TypeInv
  <2>1. now \in Nat
    BY AvailabilityAssumption DEF AvailabilityAssumption, Init
  <2> QED
    BY <2>1, EmptyTableIsTable, IdleIsRequest DEF Init, TypeInv
<1>2. OnlyRevivedSlotsOverlap
  BY DEF Init, OnlyRevivedSlotsOverlap, EmptyTable
<1>3. \A w \in Workers : Coherent(requests[w])
  <2>1. Idle.at <= now
    BY <1>1, IdleFields DEF TypeInv
  <2>2. ReadAsIs(Idle) /\ TargetsDisjoint(Idle) /\ InsertsDisjoint(Idle) /\ Generates(Idle)
    BY IdleFields DEF Init, EmptyTable, ReadAsIs, TargetsDisjoint, InsertsDisjoint, Generates, Steady
  <2> QED
    BY <2>1, <2>2 DEF Init, Coherent
<1> QED
  BY <1>1, <1>2, <1>3 DEF IInv

LEMMA NextKeeps ==
  ASSUME \A v, w \in Workers : v = w, IInv, [Next]_vars
  PROVE  IInv'
<1>1. CASE UNCHANGED vars
  <2>1. TypeInv'
    BY <1>1 DEF vars, IInv, TypeInv
  <2> QED
    BY <1>1, <2>1, SameTimes, StandingStill DEF vars, IInv, TypeInv
<1>2. ASSUME NEW w \in Workers, ScheduleRequest(w)
      PROVE  IInv'
  BY <1>2, RuleRequestsKeep, GenerateKeeps, CreateSlotsKeeps, UpdateSlotKeeps, DeleteSlotKeeps
     DEF ScheduleRequest
<1>3. ASSUME NEW w \in Workers, Proceed(w)
      PROVE  IInv'
  BY <1>3, ReadGeneratedKeeps, ReadActiveKeeps, CommitKeeps, LoseConnectionKeeps DEF Proceed
<1>4. ASSUME NEW slot \in DOMAIN slots,
             BookOneOnOne(slot) \/ \E kind \in {"CANCEL", "SWITCH"} : ReadSlotOfClass(slot, kind)
      PROVE  IInv'
  BY <1>4, BookKeeps, ReadSlotKeeps
<1>5. ASSUME NEW cancel \in cancels, CancelClass(cancel) \/ LoseCancellation(cancel)
      PROVE  IInv'
  BY <1>5, CancelClassKeeps, LoseCancellationKeeps
<1>6. CASE Tick
  BY <1>6, TickKeeps
<1> QED
  BY <1>1, <1>2, <1>3, <1>4, <1>5, <1>6 DEF Next

(* "Teacher already has an overlapping active slot": with one request served at a
   time, no series of rules, generations, edits, bookings, lost connections and days
   leaves the teacher two coming slots at the same time, unless a cancellation has
   put one of them back on offer after it was withdrawn. *)
THEOREM RevivedSlotsAloneOverlap ==
  ASSUME \A v, w \in Workers : v = w
  PROVE  Spec => []OnlyRevivedSlotsOverlap
<1>1. IInv /\ [Next]_vars => IInv'
  BY NextKeeps
<1>2. IInv => OnlyRevivedSlotsOverlap
  BY DEF IInv
<1> QED
  BY <1>1, <1>2, InitHolds, PTL DEF Spec

=============================================================================
