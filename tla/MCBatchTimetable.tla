-------------------------- MODULE MCBatchTimetable --------------------------
(* Instances of BatchTimetable for TLC: a class over midnight of each of two
   days, which meets the next morning's, and one on the first evening. *)
EXTENDS BatchTimetable, TLC

CONSTANTS w1, w2, g1, g2, m1, m2, m3, m4

(* From 22 to 2, and from 1 to 3. *)
MCTemplates ==
  {[batchSlot |-> "AFTERNOON", start |-> 22, end |-> 2],
   [batchSlot |-> "MORNING", start |-> 1, end |-> 3]}

(* On the first day from 20 to 23. *)
MCWindows == {[startsAt |-> 20, endsAt |-> 23]}

MCKeys == Permutations(SessionIds) \cup Permutations(Workers) \cup Permutations(GroupIds)

=============================================================================
