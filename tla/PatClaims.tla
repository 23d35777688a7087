------------------------------ MODULE PatClaims ------------------------------
(***************************************************************************)
(* What the specification says of the states of a token, over PatLifecycle *)
(* exactly as it says it.                                                  *)
(***************************************************************************)
EXTENDS PatLifecycle

\* REVOKED "cannot be recovered", unlike INACTIVE: a token that is REVOKED
\* stays REVOKED.
RevokedIsFinal ==
  [][\A t \in Tokens : ledger[t] = "REVOKED" => ledger'[t] = "REVOKED"]_vars
=============================================================================
