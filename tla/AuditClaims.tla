----------------------------- MODULE AuditClaims -----------------------------
(***************************************************************************)
(* What the comments of audit_consumer.py say of pending entries, stated   *)
(* over AuditPipeline as they say it.                                      *)
(***************************************************************************)
EXTENDS AuditPipeline

\* "Anything we couldn't parse or store stays unacknowledged and will redeliver
\* on the next XREADGROUP": an entry does not stay pending for ever, once
\* nothing fails any more (and the failures explored are finitely many).
PendingIsRedelivered == \A e \in Security : (e \in pel) ~> (e \notin pel)
=============================================================================
