----------------------------- MODULE ClassRoster ----------------------------
(***************************************************************************)
(* What the booking services promise about the classes, with no bookings,   *)
(* slots, requests or transactions in it: who has a seat in which class.     *)
(*                                                                         *)
(* A class that has not taken place has free seats or none; students come    *)
(* and go one at a time, and a student who moves to another class gives up   *)
(* the old seat in the same step.  Once a class is completed or cancelled     *)
(* nobody joins or leaves it any more.                                      *)
(***************************************************************************)
EXTENDS Integers, FiniteSets

CONSTANTS Students, Classes

VARIABLE roster   \* seats taken, capacity and phase of each class there is

Phases == {"SCHEDULED", "COMPLETED", "CANCELLED"}

RosterTypeOK ==
  /\ DOMAIN roster \subseteq Classes
  /\ \A c \in DOMAIN roster :
       /\ roster[c].seats \subseteq Students
       /\ roster[c].capacity \in Nat \ {0}
       /\ roster[c].phase \in Phases

RosterInit ==
  /\ RosterTypeOK
  /\ \A c \in DOMAIN roster : roster[c].seats = {} /\ roster[c].phase = "SCHEDULED"

(* Class c takes student st in. *)
HasSeatFor(r, st, c) ==
  /\ r[c].phase = "SCHEDULED"
  /\ st \notin r[c].seats
  /\ Cardinality(r[c].seats) < r[c].capacity

Seat(r, st, c) == [r EXCEPT ![c].seats = @ \cup {st}]

(* Class c lets student st go, and may be called off with it. *)
HasStudent(r, st, c) == r[c].phase = "SCHEDULED" /\ st \in r[c].seats

Unseat(r, st, c, phase) ==
  [r EXCEPT ![c].seats = @ \ {st}, ![c].phase = phase]

(* A class for one student only, opened for that student. *)
OpenFor(r, st, c) ==
  [x \in DOMAIN r \cup {c} |->
     IF x = c THEN [seats |-> {st}, capacity |-> 1, phase |-> "SCHEDULED"] ELSE r[x]]

Join(st, c) ==
  /\ HasSeatFor(roster, st, c)
  /\ roster' = Seat(roster, st, c)

JoinNew(st, c) ==
  /\ c \in Classes \ DOMAIN roster
  /\ roster' = OpenFor(roster, st, c)

Leave(st, c, phase) ==
  /\ HasStudent(roster, st, c)
  /\ roster' = Unseat(roster, st, c, phase)

Move(st, c, phase, d) ==
  LET left == Unseat(roster, st, c, phase) IN
    /\ HasStudent(roster, st, c)
    /\ HasSeatFor(left, st, d)
    /\ roster' = Seat(left, st, d)

MoveNew(st, c, phase, d) ==
  /\ HasStudent(roster, st, c)
  /\ d \in Classes \ DOMAIN roster
  /\ roster' = OpenFor(Unseat(roster, st, c, phase), st, d)

Complete(c) ==
  /\ roster[c].phase = "SCHEDULED"
  /\ roster[c].seats # {}
  /\ roster' = [roster EXCEPT ![c].phase = "COMPLETED"]

RosterNext ==
  \/ \E st \in Students, c \in DOMAIN roster : Join(st, c)
  \/ \E st \in Students, c \in Classes : JoinNew(st, c)
  \/ \E st \in Students, c \in DOMAIN roster, phase \in {"SCHEDULED", "CANCELLED"} :
       \/ Leave(st, c, phase)
       \/ \E d \in DOMAIN roster : Move(st, c, phase, d)
       \/ \E d \in Classes : MoveNew(st, c, phase, d)
  \/ \E c \in DOMAIN roster : Complete(c)

RosterSpec == RosterInit /\ [][RosterNext]_roster

=============================================================================
