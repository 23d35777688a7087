----------------------------- MODULE RouteHistory -----------------------------
(***************************************************************************)
(* What the routes in APISIX owe to the catalog. The history remembers why *)
(* they may differ from it, until a request that was neither disturbed nor *)
(* failed has reconciled them.                                             *)
(***************************************************************************)
EXTENDS RouteSync

VARIABLES
  marks, \* what befell each request in progress
  blame  \* what befell those that ended since the last reconciliation

hvars == <<vars, marks, blame>>

\* failed: a call or the smoke test. disturbed: it was raced by another request,
\* it died, or routes were lost. listed: it has listed the routes.
Marks   == {"failed", "disturbed", "raced", "listed"}
Mishaps == {"failed", "disturbed"}

HInit == Init /\ marks = [o \in Ops |-> {}] /\ blame = {}

Active(o) == ~At(o, "idle")

If(A, m) == IF A THEN {m} ELSE {}

\* What this step does to a request in progress. A resync that tries again has
\* not failed yet, and one that dies leaves the portal to start once more.
Befell(o) ==
  LET faulted == faults' # faults
      retries == op[o].kind = "resync" /\ op'[o].pc # "idle" /\ op'[o].tries < op[o].tries
  IN  CASE op' = op                        -> {"disturbed"}
        [] op'[o] = op[o] /\ op' # op      -> {}
        [] op'[o] # op[o] /\ faulted       ->
             If(~retries, "failed")
             \cup If(op[o].kind # "resync" /\ op'[o].pc = "idle", "disturbed")
        [] op'[o] # op[o] /\ ~faulted      ->
             If(At(o, "list") \/ At(o, "unroute"), "listed")
             \cup If(/\ At(o, "smoke")
                     /\ op'[o].pc # "idle" /\ op'[o].goal.status = "DRAFT", "failed")

\* Two requests are in progress, or one begins.
Overlap == Cardinality({o \in Ops : Active(o) \/ op'[o].pc # "idle"}) > 1

Track ==
  LET now(o) == IF Active(o) THEN marks[o] \cup Befell(o) ELSE {}
      race   == If(Overlap, "raced")
      ends   == {now(o) \cup race : o \in {p \in Ops : Active(p) /\ op'[p].pc = "idle"}}
  IN  /\ marks' = [o \in Ops |-> IF op'[o].pc # "idle" THEN now(o) \cup race ELSE {}]
      /\ blame' = IF {"listed"} \in ends THEN {}
                  ELSE blame \cup ((UNION ends) \cap Mishaps)
                             \cup If(op' = op \/ "raced" \in UNION ends, "disturbed")

HNext == Next /\ Track

HSpec == HInit /\ [][HNext]_hvars

-----------------------------------------------------------------------------
(* The types of the state and of the history.                              *)
HTypeOK ==
  /\ TypeOK
  /\ marks \in [Ops -> SUBSET Marks]
  /\ blame \in SUBSET Mishaps

Quiet     == \A o \in Ops : ~Active(o)
Published == catalog # None /\ catalog.status = "PUBLISHED"
Wanted    == IF Published THEN RoutesOf(catalog.base, endpoints) ELSE {}

\* At rest the gateway serves exactly what the catalog publishes, scopes and
\* upstreams included, unless something befell a request; then until one is
\* served without incident that reconciles the routes.
RoutesAgree == Quiet /\ blame = {} => routes = Wanted

\* A failed call or smoke test never leaves a PUBLISHED entry without its
\* routes: only overlapping requests, a death in the middle or a loss of routes do.
PublishedIsRouted ==
  Quiet /\ Published /\ "disturbed" \notin blame
    => Wanted \subseteq routes

Served(r) == /\ Published /\ r.base = catalog.base
             /\ \E e \in endpoints : e.pattern = r.pattern

\* An endpoint that a request keeps stays on the gateway while its route is
\* rewritten: routes are put before orphans are pruned, and only a change of
\* base, of status or a DELETE takes all routes away.
KeepsServing ==
  [][ \A r \in routes :
        /\ Served(r) /\ Served(r)'
        /\ ~\E s \in routes' : SameId(r, s)
        => \/ \E o \in Ops : \/ At(o, "delete") \/ "raced" \in marks[o]
                             \/ At(o, "prune") /\ op[o].goal.base # catalog.base
           \/ RoutesLost ]_hvars
=============================================================================
