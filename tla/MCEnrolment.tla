----------------------------- MODULE MCEnrolment ----------------------------
(* An instance of Enrolment for TLC: one class of each of two groups and one
   slot, all to come at hour 24; the first class has started at hour 49. *)
EXTENDS Enrolment

CONSTANTS amy, ben, g1, g2, m1, m2, o1, o2, t1

MCStudents ==
  [st \in StudentIds |->
     [program |-> "BATCH", active |-> TRUE, accessStartsAt |-> 0, accessEndsAt |-> 200]]
MCMemberships == [st \in StudentIds |-> g1]
MCSlots == [slot \in SlotIds |-> [startsAt |-> 100, status |-> "AVAILABLE"]]
MCSessions ==
  [s \in {m1, m2} |->
     [program |-> "BATCH", slot |-> None, group |-> IF s = m1 THEN g1 ELSE g2,
      startsAt |-> IF s = m1 THEN 48 ELSE 75, status |-> "SCHEDULED", capacity |-> 1]]

=============================================================================
