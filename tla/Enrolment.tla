------------------------------ MODULE Enrolment ------------------------------
(***************************************************************************)
(* StudentService and the memberships of BatchGroupService, together with   *)
(* the bookings they undo: which program a student follows, in which batch  *)
(* group, and what happens to the seats already taken when either changes.   *)
(* Requests are served one after the other.                                 *)
(*                                                                         *)
(* Every student has an access window and every group exists from the        *)
(* start; names, notes and default capacities are left out.                 *)
(***************************************************************************)
EXTENDS Bookings

VARIABLE groups   \* is_active of each batch group

enrolmentVars == <<vars, groups>>

EnrolmentInit == Init /\ groups = [g \in GroupIds |-> TRUE]

EnrolmentTypeOK == TypeOK /\ groups \in [GroupIds -> BOOLEAN]

-----------------------------------------------------------------------------
(* Seats undone by an administrator's change.  Rows are written without the
   locks and the checks of BookingService; what is already over stays. *)

FutureBookings(db) ==
  {b \in DOMAIN db.bookings :
     /\ db.bookings[b].status = "BOOKED"
     /\ db.sessions[db.bookings[b].session].startsAt > now}

FutureBookingsOfStudent(db, st) ==
  {b \in FutureBookings(db) : db.bookings[b].student = st}

FutureBookingsInGroup(db, g) ==
  {b \in FutureBookings(db) : db.sessions[db.bookings[b].session].group = g}

(* Mutant: no event is added. *)
WithdrawBookingsOnly(db, withdrawn) ==
  [db EXCEPT
     !.bookings = [b \in DOMAIN @ |->
        IF b \in withdrawn THEN [@[b] EXCEPT !.status = "CANCELLED"] ELSE @[b]]]

WithdrawBookings(db, withdrawn) ==
  [db EXCEPT
     !.bookings = [b \in DOMAIN @ |->
        IF b \in withdrawn THEN [@[b] EXCEPT !.status = "CANCELLED"] ELSE @[b]],
     !.events = [b \in DOMAIN @ |->
        IF b \in withdrawn THEN Append(@[b], Event("CANCELLED_BY_ADMIN")) ELSE @[b]]]

CloseSessions(db, closed) ==
  [db EXCEPT !.sessions = [s \in DOMAIN @ |->
     IF s \in closed THEN [@[s] EXCEPT !.status = "CANCELLED"] ELSE @[s]]]

(* Mutant: the slots stay booked. *)
CancelFutureBookingsKeepingSlots(db, st) ==
  LET withdrawn == FutureBookingsOfStudent(db, st)
      closed == {s \in {db.bookings[b].session : b \in withdrawn} :
                   db.sessions[s].program = "ONE_ON_ONE"}
  IN CloseSessions(WithdrawBookings(db, withdrawn), closed)

(* One-on-one classes go with their bookings and release their slots; a batch
   class is left scheduled even when nobody is booked into it any more. *)
CancelFutureBookingsForStudent(db, st) ==
  LET withdrawn == FutureBookingsOfStudent(db, st)
      closed == {s \in {db.bookings[b].session : b \in withdrawn} :
                   db.sessions[s].program = "ONE_ON_ONE"}
      released == {slot \in {db.sessions[s].slot : s \in closed} :
                     db.slots[slot].status = "BOOKED"}
  IN [CloseSessions(WithdrawBookings(db, withdrawn), closed) EXCEPT
        !.slots = [slot \in DOMAIN @ |->
           IF slot \in released THEN [@[slot] EXCEPT !.status = "AVAILABLE"] ELSE @[slot]]]

(* Mutant: the bookings of the group are left alone. *)
CancelFutureGroupSessions(db, g) ==
  CloseSessions(db, {s \in DOMAIN db.sessions :
     /\ db.sessions[s].group = g
     /\ db.sessions[s].startsAt > now
     /\ db.sessions[s].status = "SCHEDULED"})

CancelFutureGroupActivity(db, g) ==
  LET closed == {s \in DOMAIN db.sessions :
                   /\ db.sessions[s].group = g
                   /\ db.sessions[s].startsAt > now
                   /\ db.sessions[s].status = "SCHEDULED"}
  IN CloseSessions(WithdrawBookings(db, FutureBookingsInGroup(db, g)), closed)

-----------------------------------------------------------------------------
(* Students. *)

(* PATCH writes what it is given: neither membership nor bookings follow. *)
UpdateStudent(st, program, active) ==
  /\ program # None
  /\ students' = [students EXCEPT ![st].program = program, ![st].active = active]
  /\ UNCHANGED <<now, memberships, slots, sessions, bookings, events, groups>>

EndActiveStudentMembership(st) == memberships' = [memberships EXCEPT ![st] = None]

SwitchProgram(st, program) ==
  /\ students[st].program # program
  /\ students' = [students EXCEPT ![st].program = program]
  /\ Commit(CancelFutureBookingsForStudent(Tables, st))
  /\ IF program = "ONE_ON_ONE"
     THEN EndActiveStudentMembership(st)
     ELSE UNCHANGED memberships
  /\ UNCHANGED <<now, groups>>

-----------------------------------------------------------------------------
(* Batch groups. *)

AssignStudentToBatchGroup(st, g) ==
  /\ groups[g]
  /\ students[st].program = "BATCH"
  /\ memberships[st] = None
  /\ memberships' = [memberships EXCEPT ![st] = g]
  /\ UNCHANGED <<now, students, slots, sessions, bookings, events, groups>>

(* Mutant: the bookings in the old group are kept. *)
TransferKeepingBookings(st, g) ==
  /\ students[st].program = "BATCH"
  /\ groups[g]
  /\ memberships[st] # g
  /\ memberships' = [memberships EXCEPT ![st] = g]
  /\ UNCHANGED <<now, students, slots, sessions, bookings, events, groups>>

TransferStudentBatchGroup(st, g) ==
  LET old == memberships[st]
      withdrawn == {b \in FutureBookingsOfStudent(Tables, st) :
                      old # None /\ b \in FutureBookingsInGroup(Tables, old)}
  IN /\ students[st].program = "BATCH"
     /\ groups[g]
     /\ old # g
     /\ memberships' = [memberships EXCEPT ![st] = g]
     /\ Commit(WithdrawBookings(Tables, withdrawn))
     /\ UNCHANGED <<now, students, groups>>

(* Mutant: only the endpoint that voids a group cancels its activity. *)
UpdateBatchGroupOnly(g, active) ==
  /\ groups' = [groups EXCEPT ![g] = active]
  /\ UNCHANGED <<now, students, memberships, slots, sessions, bookings, events>>

(* An update that leaves the group inactive cancels its activity again;
   memberships stay. *)
UpdateBatchGroup(g, active) ==
  /\ groups' = [groups EXCEPT ![g] = active]
  /\ Commit(IF active THEN Tables ELSE CancelFutureGroupActivity(Tables, g))
  /\ UNCHANGED <<now, students, memberships>>

VoidBatchGroup(g) ==
  /\ groups' = [groups EXCEPT ![g] = FALSE]
  /\ Commit(CancelFutureGroupActivity(Tables, g))
  /\ UNCHANGED <<now, students, memberships>>

-----------------------------------------------------------------------------

EnrolmentNext ==
  \/ Next /\ UNCHANGED groups
  \/ \E st \in StudentIds, program \in ProgramTypes \cup {None}, active \in BOOLEAN :
       UpdateStudent(st, program, active)
  \/ \E st \in StudentIds, program \in ProgramTypes : SwitchProgram(st, program)
  \/ \E st \in StudentIds, g \in GroupIds :
       AssignStudentToBatchGroup(st, g) \/ TransferStudentBatchGroup(st, g)
  \/ \E g \in GroupIds, active \in BOOLEAN : UpdateBatchGroup(g, active)
  \/ \E g \in GroupIds : VoidBatchGroup(g)

EnrolmentSpec == EnrolmentInit /\ [][EnrolmentNext]_enrolmentVars

-----------------------------------------------------------------------------
(* Properties. *)

(* Whatever changes of program and group lie between the booking and the class,
   a seat held in a coming batch class belongs to a member of the class's group,
   unless an administrator put the student there. *)
FutureSeatsBelongToMembers ==
  \A b \in FutureBookings(Tables) :
    LET class == sessions[bookings[b].session] IN
      class.program = "BATCH" /\ events[b][1].type # "MANUALLY_ADDED_BY_ADMIN"
        => memberships[bookings[b].student] = class.group

(* A group that has been voided has no coming class and nobody waiting for one,
   although booking never looks at the group: reactivating it revives nothing. *)
InactiveGroupHasNoFutureActivity ==
  \A g \in GroupIds :
    ~groups[g] =>
      /\ FutureBookingsInGroup(Tables, g) = {}
      /\ \A s \in DOMAIN sessions :
           sessions[s].group = g /\ sessions[s].startsAt > now
             => sessions[s].status # "SCHEDULED"

=============================================================================
