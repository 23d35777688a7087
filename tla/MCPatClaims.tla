----------------------------- MODULE MCPatClaims -----------------------------
(* PatLifecycle on small instances: its claims, and its liveness.          *)
EXTENDS PatClaims

CONSTANTS app, alice

MCAppOf   == [t \in Tokens |-> app]
MCOwnerOf == [t \in Tokens |-> alice]

\* One limit at a time differs from its default. A default of 0 leaves the rest
\* two values, as the fallback turns 0 into the default.
MCQuota   == [l \in Limits |-> IF l = "burst" THEN 1 ELSE 0]
MCChanged == {q \in Quotas : \E l \in Limits : q[l] = MCQuota[l]}
=============================================================================
