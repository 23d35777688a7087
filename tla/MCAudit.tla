------------------------------- MODULE MCAudit -------------------------------
(* AuditPipeline on small instances, and its claims.                       *)
EXTENDS AuditClaims

CONSTANTS s1, s2, c1

MCEvents   == {s1, s2, c1}
MCSecurity == {s1, s2}
=============================================================================
