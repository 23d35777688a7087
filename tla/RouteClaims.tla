----------------------------- MODULE RouteClaims -----------------------------
(***************************************************************************)
(* What the documents say of the catalog and the code does not do.         *)
(***************************************************************************)
EXTENDS RouteRules

\* When the smoke test fails the routes are deleted and the status returns to
\* DRAFT: at rest an API that is not PUBLISHED has no routes. create_api and
\* patch_api write DRAFT and leave the routes they have put.
DraftIsNotRouted ==
  Quiet /\ catalog # None /\ catalog.status # "PUBLISHED" => routes = {}
=============================================================================
