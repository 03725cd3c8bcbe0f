---------------------------- MODULE MCClassSeats ----------------------------
(* Instances of ClassSeats for TLC: two classes, m1 with two seats and m2 with
   one, on the same day or on two days. *)
EXTENDS ClassSeats, TLC

CONSTANTS amy, ben, m1, m2, b1, b2, b3, w1, w2

MCCapacity == [s \in SessionIds |-> IF s = m1 THEN 2 ELSE 1]
OneDay == [s \in SessionIds |-> 0]
TwoDays == [s \in SessionIds |-> IF s = m1 THEN 0 ELSE 1]

MCSymmetry == Permutations(Workers) \cup Permutations(StudentIds)

=============================================================================
