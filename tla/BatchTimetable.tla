--------------------------- MODULE BatchTimetable ---------------------------
(***************************************************************************)
(* The timetable of the batch groups: ClassSessionService creates a class,   *)
(* BatchGroupService generates those of a range of days, and a group that is  *)
(* voided loses the ones to come.  Each request reads without locks, decides,  *)
(* and writes when it commits; requests overlap in between, and the exclusion *)
(* constraint of migration 0011 is what two overlapping ones meet.            *)
(*                                                                         *)
(* Teachers and capacities are left out, neither is checked here, and so are  *)
(* the bookings a voided group loses (module Enrolment).  Time is counted in   *)
(* hours from a Monday's midnight.                                         *)
(***************************************************************************)
EXTENDS Integers, Functions

CONSTANTS
  Workers,       \* the requests being served
  GroupIds, SessionIds,
  Windows,       \* the times requests give a class
  Templates,     \* the classes of a day that requests ask for
  Dates,         \* the days requests name
  WeekdaySets,   \* the weekdays requests name
  Instants,      \* the clock's values
  Kinds,         \* the kinds of request made
  None           \* SQL null

DAY == 24
Day(t) == t \div DAY

SessionStatuses == {"SCHEDULED", "COMPLETED", "CANCELLED"}
Window == [startsAt: Nat, endsAt: Nat]
Template == [batchSlot: {"MORNING", "NOON", "AFTERNOON"}, start: 0 .. DAY - 1, end: 0 .. DAY - 1]
Session == [group: GroupIds, startsAt: Nat, endsAt: Nat, status: SessionStatuses]

ASSUME TimetableAssumption ==
  /\ Windows \subseteq Window
  /\ \A window \in Windows : window.startsAt < window.endsAt
  /\ Templates \subseteq Template
  /\ \A template \in Templates : template.start # template.end
  /\ WeekdaySets \subseteq SUBSET (0 .. 6)
  /\ Dates \subseteq Nat /\ Instants \subseteq Nat
  /\ None \notin GroupIds

VARIABLES
  now,       \* utc_now()
  groups,    \* is_active of each batch group
  sessions,  \* the class sessions of the groups
  requests   \* the transaction of each worker

vars == <<now, groups, sessions, requests>>

-----------------------------------------------------------------------------
(* The classes a generation asks for. *)

Overlap(a, b) == a.startsAt < b.endsAt /\ a.endsAt > b.startsAt

(* Mutant: a class that ends after midnight ends on the day it began. *)
SessionDatetimesOfOneDay(date, template) ==
  [startsAt |-> DAY * date + template.start, endsAt |-> DAY * date + template.end]

SessionDatetimes(date, template) ==
  [startsAt |-> DAY * date + template.start,
   endsAt |-> DAY * (IF template.end < template.start THEN date + 1 ELSE date) + template.end]

(* A class of the request; its batch slot and its date tell it from the others. *)
ExpectedBatchSession(date, template) ==
  LET window == SessionDatetimes(date, template) IN
    [date |-> date, batchSlot |-> template.batchSlot,
     startsAt |-> window.startsAt, endsAt |-> window.endsAt]

ExpectedBatchSessions(from, to, weekdays, templates) ==
  {ExpectedBatchSession(date, template) :
     date \in {d \in from .. to : d % 7 \in weekdays}, template \in templates}

(* Mutant: only the classes of one day are compared. *)
NoOverlapsWithinDay(expected) ==
  \A a, b \in expected : a # b /\ a.date = b.date => ~Overlap(a, b)

NoOverlapsWithinGeneration(expected) ==
  \A a, b \in expected : a # b => ~Overlap(a, b)

NoBatchSessionOverlap(g, window) ==
  \A s \in DOMAIN sessions :
    sessions[s].group = g /\ sessions[s].status # "CANCELLED"
      => ~Overlap(sessions[s], window)

NewSession(g, window, status) ==
  [group |-> g, startsAt |-> window.startsAt, endsAt |-> window.endsAt, status |-> status]

-----------------------------------------------------------------------------
(* Requests.  inserts: the new classes; closed: the classes to be cancelled;
   switched: is_active of the groups it changes; seen: the classes there were
   when it checked. *)

Nothing == [x \in {} |-> None]
Idle == [busy |-> FALSE, inserts |-> {}, closed |-> {}, switched |-> Nothing, seen |-> {}]

Begin(w, kind, inserts, closed, switched) ==
  /\ ~requests[w].busy
  /\ kind \in Kinds
  /\ requests' = [requests EXCEPT ![w] =
       [busy |-> TRUE, inserts |-> inserts, closed |-> closed, switched |-> switched,
        seen |-> DOMAIN sessions]]
  /\ UNCHANGED <<now, groups, sessions>>

CreateBatchClassSession(w) ==
  \E g \in GroupIds, window \in Windows, status \in SessionStatuses :
    /\ groups[g]
    /\ NoBatchSessionOverlap(g, window)
    /\ Begin(w, "CREATE", {NewSession(g, window, status)}, {}, Nothing)

GenerateBatchSessions(w) ==
  \E g \in GroupIds, from, to \in Dates,
     weekdays \in WeekdaySets, templates \in (SUBSET Templates) \ {{}} :
    LET expected == ExpectedBatchSessions(from, to, weekdays, templates) IN
      /\ from <= to
      /\ \A a, b \in templates : a # b => a.batchSlot # b.batchSlot
      /\ groups[g]
      /\ NoOverlapsWithinGeneration(expected)
      /\ \A window \in expected : NoBatchSessionOverlap(g, window)
      /\ Begin(w, "GENERATE", {NewSession(g, window, "SCHEDULED") : window \in expected}, {}, Nothing)

FutureSessionsOfGroup(g) ==
  {s \in DOMAIN sessions :
     /\ sessions[s].group = g
     /\ sessions[s].startsAt > now
     /\ sessions[s].status = "SCHEDULED"}

VoidBatchGroup(w) ==
  \E g \in GroupIds :
    Begin(w, "VOID", {}, FutureSessionsOfGroup(g), [x \in {g} |-> FALSE])

(* The update that makes a group active again; one that makes it inactive does
   what voiding does. *)
ReactivateBatchGroup(w) ==
  \E g \in GroupIds : ~groups[g] /\ Begin(w, "REACTIVATE", {}, {}, [x \in {g} |-> TRUE])

(* The table once a request is committed, its new classes under the keys that
   keyOf gives them. *)
Written(request, keyOf) ==
  [s \in DOMAIN sessions \cup {keyOf[row] : row \in request.inserts} |->
     IF s \in request.closed THEN [sessions[s] EXCEPT !.status = "CANCELLED"]
     ELSE IF s \in DOMAIN sessions THEN sessions[s]
     ELSE CHOOSE row \in request.inserts : keyOf[row] = s]

(* ex_class_sessions_batch_group_time_overlap *)
ExclusionConstraint(rows) ==
  \A s, t \in DOMAIN rows :
    /\ s # t
    /\ rows[s].group = rows[t].group
    /\ rows[s].status # "CANCELLED" /\ rows[t].status # "CANCELLED"
    => ~Overlap(rows[s], rows[t])

Commit(w) ==
  LET request == requests[w] IN
    /\ request.busy
    /\ \E keyOf \in Injection(request.inserts, SessionIds \ DOMAIN sessions) :
         /\ sessions' = Written(request, keyOf)
         /\ ExclusionConstraint(sessions')
    /\ groups' = [g \in GroupIds |->
                    IF g \in DOMAIN request.switched THEN request.switched[g] ELSE groups[g]]
    /\ requests' = [requests EXCEPT ![w] = Idle]
    /\ UNCHANGED now

(* The connection is lost, or the constraint refuses the rows: nothing is kept. *)
Rollback(w) ==
  /\ requests[w].busy
  /\ requests' = [requests EXCEPT ![w] = Idle]
  /\ UNCHANGED <<now, groups, sessions>>

-----------------------------------------------------------------------------

(* BookingService cancels a class nobody is booked into and completes one that
   has started. *)
CloseClass(s) ==
  /\ sessions[s].status = "SCHEDULED"
  /\ \E status \in {"CANCELLED"} \cup (IF sessions[s].startsAt <= now THEN {"COMPLETED"} ELSE {}) :
       sessions' = [sessions EXCEPT ![s].status = status]
  /\ UNCHANGED <<now, groups, requests>>

Tick ==
  /\ now' \in {t \in Instants : t > now}
  /\ UNCHANGED <<groups, sessions, requests>>

Init ==
  /\ now \in Instants
  /\ groups = [g \in GroupIds |-> TRUE]
  /\ sessions = [s \in {} |-> None]
  /\ requests = [w \in Workers |-> Idle]

Next ==
  \/ \E w \in Workers :
       \/ CreateBatchClassSession(w)
       \/ GenerateBatchSessions(w)
       \/ VoidBatchGroup(w)
       \/ ReactivateBatchGroup(w)
       \/ Commit(w)
       \/ Rollback(w)
  \/ \E s \in DOMAIN sessions : CloseClass(s)
  \/ Tick

Spec == Init /\ [][Next]_vars

-----------------------------------------------------------------------------
(* Properties. *)

TypeOK ==
  /\ now \in Instants
  /\ groups \in [GroupIds -> BOOLEAN]
  /\ DOMAIN sessions \subseteq SessionIds
  /\ sessions \in [DOMAIN sessions -> Session]
  /\ \A s \in DOMAIN sessions : sessions[s].startsAt < sessions[s].endsAt

(* _ensure_no_batch_session_overlap and _ensure_no_overlaps_within_generation
   ask for what the constraint enforces, and answer 409: the constraint refuses
   a request (500) only when a class in its way was committed after it checked. *)
RefusedOnlyWhenOvertaken ==
  \A w \in Workers :
    LET request == requests[w] IN
      /\ \A a, b \in request.inserts :
           a # b /\ a.status # "CANCELLED" /\ b.status # "CANCELLED" => ~Overlap(a, b)
      /\ \A a \in request.inserts, s \in request.seen :
           a.status # "CANCELLED" /\ sessions[s].status # "CANCELLED"
             /\ a.group = sessions[s].group => ~Overlap(a, sessions[s])

=============================================================================
