-------------------------- MODULE MCAccessWindows ---------------------------
(* Instances of AccessWindows for TLC: hours before, at and after midnight. *)
EXTENDS AccessWindows

CONSTANTS w1, p1

=============================================================================
