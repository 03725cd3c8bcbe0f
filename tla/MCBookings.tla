----------------------------- MODULE MCBookings -----------------------------
(* Instances of Bookings for TLC.  The hours are chosen around the limits of
   the code: a class at hour 48 may be changed by its student up to hour 24
   (24 hours before) and booked before hour 45 (3 hours before); hours 48 to 71
   are one UTC day, hours 72 to 95 the next. *)
EXTENDS Bookings

CONSTANTS amy, ben, cat, g1, g2, m1, m2, m3, o1, o2, o3, t1, t2

MCStudent(program, until) ==
  [program |-> program, active |-> TRUE, accessStartsAt |-> 0, accessEndsAt |-> until]

MCBatchSession(group, startsAt, capacity) ==
  [program |-> "BATCH", slot |-> None, group |-> group, startsAt |-> startsAt,
   status |-> "SCHEDULED", capacity |-> capacity]

MCSlot(startsAt, status) == [startsAt |-> startsAt, status |-> status]

(* A batch student and a one-on-one student; batch classes: two on one day, one
   of them with a single seat, and one of another group on the next; a slot on
   either day. *)
MixStudents ==
  [st \in StudentIds |->
     IF st = cat THEN MCStudent("ONE_ON_ONE", 75) ELSE MCStudent("BATCH", 100)]
MixMemberships == [st \in StudentIds |-> IF st = cat THEN None ELSE g1]
MixSlots ==
  [slot \in SlotIds |-> MCSlot(IF slot = t1 THEN 48 ELSE 80, "AVAILABLE")]
MixSessions ==
  [s \in {m1, m2, m3} |->
     CASE s = m1 -> MCBatchSession(g1, 48, 2)
       [] s = m2 -> MCBatchSession(g1, 70, 1)
       [] s = m3 -> MCBatchSession(g2, 80, 2)]

=============================================================================
