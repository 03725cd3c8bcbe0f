----------------------------- MODULE SlotDiary ------------------------------
(***************************************************************************)
(* What the booking services promise about the teachers' time, with no        *)
(* bookings, classes, requests or locks in it: who has a class in which slot. *)
(*                                                                         *)
(* A slot is one student's at a time, and free before it is the next one's.    *)
(* Students take slots one at a time; one who moves to another slot gives up    *)
(* the old one in the same step, and one who leaves gives up slots together.    *)
(***************************************************************************)
CONSTANTS Students, Slots

VARIABLE diary   \* who has a class in each slot: nobody or one student

DiaryInit == diary = [t \in Slots |-> {}]

HeldBy(st) == {t \in Slots : diary[t] = {st}}

Freed(given) == [t \in Slots |-> IF t \in given THEN {} ELSE diary[t]]

Take(st, t) ==
  /\ diary[t] = {}
  /\ diary' = [diary EXCEPT ![t] = {st}]

GiveUp(st, given) ==
  /\ given \subseteq HeldBy(st)
  /\ diary' = Freed(given)

Move(st, from, to) ==
  /\ from \in HeldBy(st) /\ diary[to] = {}
  /\ diary' = [Freed({from}) EXCEPT ![to] = {st}]

DiaryNext ==
  \E st \in Students :
    \/ \E t \in Slots : Take(st, t)
    \/ \E given \in SUBSET Slots : GiveUp(st, given)
    \/ \E from, to \in Slots : Move(st, from, to)

DiarySpec == DiaryInit /\ [][DiaryNext]_diary

=============================================================================
