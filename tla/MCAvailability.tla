--------------------------- MODULE MCAvailability ---------------------------
(* Instances of Availability for TLC: rules for Tuesdays, which two generation
   windows see twice or three times, and hours around their start. *)
EXTENDS Availability

CONSTANTS w1, w2, r1, r2, k1, k2, k3, k4, k5, k6

Tuesday(start, end, duration) ==
  [day |-> 1, start |-> start, end |-> end, duration |-> duration, active |-> TRUE]

Hours(startsAt, endsAt) == [startsAt |-> startsAt, endsAt |-> endsAt]

(* On Tuesday from 10 to 12, and from 11 to 13. *)
MCOneShape == {Tuesday(10, 12, 2)}
MCTwoShapes == {Tuesday(10, 12, 2), Tuesday(11, 13, 2)}

(* On the first Tuesday from 8 to 11. *)
MCOneWindow == {Hours(32, 35)}

MCKeys == Permutations(SlotIds) \cup Permutations(Workers) \cup Permutations(RuleIds)

=============================================================================
