------------------------------- MODULE MCQuota -------------------------------
(* Two days and the month they lie in; the second day begins at time 3.       *)
EXTENDS QuotaHistory, TLC

CONSTANTS day1, day2, month, r1, r2

Day(t)      == IF t < 3 THEN day1 ELSE day2
MCWindowsAt == [t \in Times |-> {Day(t), month} \cap Windows]
MCEnds      == [w \in Windows |-> IF w = day1 THEN 3 ELSE 100]
MCLimit     == [w \in Windows |-> IF w = month THEN 3 ELSE 2]
MCSymmetry  == Permutations(Requests)
=============================================================================
