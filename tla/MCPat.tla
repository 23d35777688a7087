-------------------------------- MODULE MCPat --------------------------------
(* PatHistory on a small instance: applications and owners as definitions. *)
EXTENDS PatHistory, TLC

CONSTANTS app, alice

MCAppOf   == [t \in Tokens |-> app]
MCOwnerOf == [t \in Tokens |-> alice]

\* Two rows that differ in both limits: a change of the one to the other is that
\* of a burst and of a limit beside it. A default of 0 leaves the rest two values,
\* as the fallback turns 0 into the default.
MCQuota   == [l \in Limits |-> IF l = "burst" THEN 1 ELSE 0]
MCChanged == {MCQuota, [l \in Limits |-> 1 - MCQuota[l]]}

MCSymmetry  == Permutations(Handlers)
=============================================================================
