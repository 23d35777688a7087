------------------------------ MODULE MCUpkeep ------------------------------
(* Upkeep on a small instance: four months, and a pattern that becomes root *)
(* beside root itself.                                                     *)
EXTENDS Upkeep

CONSTANTS base, root, id

MCMonthOf  == [d \in Days |-> <<0, 0, 1, 2, 3, 3>>[d + 1]]
MCRelative == [p \in Paths |-> IF p = base THEN root ELSE p]
=============================================================================
