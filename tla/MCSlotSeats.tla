---------------------------- MODULE MCSlotSeats ----------------------------
(* Instances of SlotSeats for TLC: slots on two days. *)
EXTENDS SlotSeats, TLC

CONSTANTS amy, ben, t1, t2, b1, b2, b3, w1, w2

TwoDays == [t \in SlotIds |-> IF t = t1 THEN 0 ELSE 1]

(* Which free key a new booking gets, and which of the two days comes first,
   makes no difference. *)
MCSymmetry ==
  Permutations(Workers) \cup Permutations(StudentIds) \cup Permutations(SlotIds)
    \cup Permutations(BookingIds)

=============================================================================
