------------------------------ MODULE RouteSync ------------------------------
(***************************************************************************)
(* The catalog entry of one API and its routes in APISIX. The portal keeps *)
(* the entry in PostgreSQL and the routes through the Admin API of APISIX, *)
(* a call at a time; a request of the portal, and the resync of a portal   *)
(* that starts, may find others between any two of its calls.              *)
(*                                                                         *)
(* A pattern stands for the method and the path pattern of an endpoint, a  *)
(* content for its scope and upstream. Statuses but PUBLISHED differ in    *)
(* nothing the portal does here. The JWTs that patch_api drops at its end  *)
(* are JwtCache's.                                                         *)
(***************************************************************************)
EXTENDS Naturals, FiniteSets

CONSTANTS
  Ops,       \* requests and resyncs in progress at a time
  Bases,     \* public paths
  Patterns, Contents,
  Literal,   \* patterns without parameters
  Endpoints, \* sets of endpoints a request may bring
  Created,   \* bound: the bases and endpoints that an entry is created with
  Patches,   \* requests of PATCH; None marks a field it does not bring
  Attempts,  \* of the resync (10)
  None,
  MaxApis,   \* bound: entries created, one after the other
  MaxFaults  \* bound: failed calls, dead requests and losses of routes

Statuses == {"DRAFT", "PUBLISHED"}
Endpoint == [pattern : Patterns, content : Contents]
Route    == [base : Bases, pattern : Patterns, content : Contents]
Row      == [id : 1..MaxApis, status : Statuses, base : Bases]

ASSUME RouteAssumption ==
  /\ None \notin Row
  /\ Endpoints \subseteq SUBSET Endpoint /\ Created \subseteq Bases \X Endpoints
  /\ \A E \in Endpoints : \A d, e \in E : d.pattern = e.pattern => d = e
  /\ Patches \subseteq [status : Statuses \cup {None}, base : Bases \cup {None},
                        endpoints : Endpoints \cup {None}]
  /\ Attempts \in Nat \ {0} /\ MaxApis \in Nat /\ MaxFaults \in Nat

VARIABLES
  catalog,   \* the row in cdp.api_catalog, or None
  endpoints, \* its rows in cdp.api_endpoint
  routes,    \* the routes of the API in etcd
  op,        \* the requests and resyncs in progress
  born,      \* entries created
  faults

vars == <<catalog, endpoints, routes, op, born, faults>>

Idle == [pc |-> "idle"]

\* row: the row as it was read. goal: the status and base to reach. asked: the
\* columns the request brings. todo: the routes still to be put or deleted.
Op == {Idle} \cup
      [pc    : {"replace", "merge", "unroute", "delete", "fetch", "put", "list", "prune",
                "smoke", "update", "remove"},
       kind  : {"create", "patch", "delete", "resync"},
       row   : Row, goal : Row,
       asked : SUBSET {"status", "base"},
       eps   : (SUBSET Endpoint) \cup {None},
       todo  : SUBSET Route,
       tries : 0..Attempts]

SameId(r, s) == r.base = s.base /\ r.pattern = s.pattern

TypeOK ==
  /\ catalog \in Row \cup {None}
  /\ endpoints \in SUBSET Endpoint
  /\ routes \in SUBSET Route /\ \A r, s \in routes : SameId(r, s) => r = s
  /\ op \in [Ops -> Op]
  /\ born \in 0..MaxApis /\ faults \in 0..MaxFaults

Init ==
  /\ catalog = None /\ endpoints = {} /\ routes = {}
  /\ op = [o \in Ops |-> Idle]
  /\ born = 0 /\ faults = 0

At(o, pc)      == op[o].pc = pc
Become(o, r)   == op' = [op EXCEPT ![o] = r]
Goto(o, pc)    == op' = [op EXCEPT ![o].pc = pc]
Exists(o)      == catalog # None /\ catalog.id = op[o].row.id
Given(v, dflt) == IF v = None THEN dflt ELSE v

RoutesOf(base, eps) ==
  {[base |-> base, pattern |-> e.pattern, content |-> e.content] : e \in eps}

Clear(r) == [r EXCEPT !.todo = {}]

\* Work on the routes, a call each; when there is none left, become next.
Work(o, pc, todo, next) ==
  Become(o, IF todo = {} THEN next ELSE [op[o] EXCEPT !.pc = pc, !.todo = todo])

-----------------------------------------------------------------------------
(* The start of each request, up to its first call of APISIX.              *)

New(kind, pc, row, goal, asked, eps, todo) ==
  [pc |-> pc, kind |-> kind, row |-> row, goal |-> goal, asked |-> asked,
   eps |-> eps, todo |-> todo, tries |-> IF kind = "resync" THEN Attempts ELSE 0]

\* api_code is unique. The row and its endpoints are inserted together.
CreateApi(o) ==
  /\ At(o, "idle") /\ catalog = None /\ born < MaxApis
  /\ \E c \in Created :
       LET base == c[1]  eps == c[2]
           row == [id |-> born + 1, status |-> "DRAFT", base |-> base] IN
       /\ catalog' = row /\ endpoints' = eps
       /\ Become(o, New("create", IF eps = {} THEN "list" ELSE "put", row,
                        [row EXCEPT !.status = "PUBLISHED"], {"status"}, eps,
                        RoutesOf(base, eps)))
  /\ born' = born + 1
  /\ UNCHANGED <<routes, faults>>

\* What a change asks of APISIX.
SyncStep(row, goal) ==
  CASE goal.status = "PUBLISHED" /\ row.status = "PUBLISHED"
         /\ goal.base # row.base                                -> "unroute"
    [] goal.status = "PUBLISHED"
         /\ (row.status # "PUBLISHED" \/ goal.base = row.base)  -> "fetch"
    [] goal.status # "PUBLISHED" /\ row.status = "PUBLISHED"    -> "unroute"
    [] goal.status # "PUBLISHED" /\ row.status # "PUBLISHED"    -> "update"

PatchApi(o) ==
  /\ At(o, "idle") /\ catalog # None
  /\ \E q \in Patches :
       LET goal == [catalog EXCEPT !.status = Given(q.status, @),
                                   !.base   = Given(q.base, @)]
       IN  Become(o, New("patch",
             IF q.endpoints # None THEN "replace"
             ELSE IF goal # catalog THEN SyncStep(catalog, goal) ELSE "update",
             catalog, goal, {c \in {"status", "base"} : q[c] # None},
             q.endpoints, {}))
  /\ UNCHANGED <<catalog, endpoints, routes, born, faults>>

DeleteApi(o) ==
  /\ At(o, "idle") /\ catalog # None
  /\ Become(o, New("delete",
                   IF catalog.status = "PUBLISHED" THEN "unroute" ELSE "remove",
                   catalog, catalog, {}, None, {}))
  /\ UNCHANGED <<catalog, endpoints, routes, born, faults>>

\* A portal starts: after a crash, a deployment, or beside others.
Resync(o) ==
  /\ At(o, "idle") /\ catalog # None /\ catalog.status = "PUBLISHED"
  /\ Become(o, New("resync", "fetch", catalog, catalog, {}, None, {}))
  /\ UNCHANGED <<catalog, endpoints, routes, born, faults>>

-----------------------------------------------------------------------------
(* The steps of a request.                                                 *)

\* The transaction that replaces the endpoints. It fails on a deleted row. The
\* DELETE of another request may have begun by its end: that one waits for the
\* rows it has found, does not find the new ones, and adds its own to them
\* ("merge"), unless UNIQUE (api_id, http_method, path_pattern) forbids it.
Replace(o) ==
  /\ At(o, "replace") \/ At(o, "merge")
  /\ LET left == IF At(o, "merge") THEN endpoints ELSE {} IN
     IF Exists(o) /\ ~\E d \in left, e \in op[o].eps : d.pattern = e.pattern
     THEN /\ endpoints' = left \cup op[o].eps
          /\ \E late \in SUBSET {p \in Ops \ {o} : At(p, "replace")} :
               op' = [p \in Ops |->
                        [op[p] EXCEPT !.pc = CASE p = o      -> SyncStep(op[o].row, op[o].goal)
                                               [] p \in late -> "merge"
                                               [] OTHER      -> @]]
     ELSE Become(o, Idle) /\ UNCHANGED endpoints
  /\ UNCHANGED <<catalog, routes, born, faults>>

Fetch(o) ==
  /\ At(o, "fetch")
  /\ LET eps == IF Exists(o) THEN endpoints ELSE {}
         r   == [op[o] EXCEPT !.eps = eps, !.todo = RoutesOf(op[o].goal.base, eps)]
     IN  Become(o, [r EXCEPT !.pc = IF eps = {} THEN "list" ELSE "put"])
  /\ UNCHANGED <<catalog, endpoints, routes, born, faults>>

\* Mutant of WithRoute: the content is a part of the id of a route.
WithRouteAdded(r) == routes \cup {r}

WithRoute(r)    == {s \in routes : ~SameId(r, s)} \cup {r}
WithoutRoute(r) == {s \in routes : ~SameId(r, s)}

Put(o) ==
  /\ At(o, "put")
  /\ \E r \in op[o].todo :
       /\ routes' = WithRoute(r)
       /\ Work(o, "put", op[o].todo \ {r}, Clear([op[o] EXCEPT !.pc = "list"]))
  /\ UNCHANGED <<catalog, endpoints, born, faults>>

AfterPrune(o) ==
  IF op[o].kind = "resync" THEN Idle ELSE Clear([op[o] EXCEPT !.pc = "smoke"])

AfterUnroute(o) ==
  Clear([op[o] EXCEPT !.pc = IF op[o].kind = "delete" THEN "remove"
                             ELSE IF op[o].goal.status = "PUBLISHED" THEN "fetch"
                             ELSE "update"])

\* Mutant of Orphans: no route of the API is kept.
OrphansAll(o) == routes

\* Routes of the API that its endpoints no longer have.
Orphans(o) ==
  {r \in routes : ~\E k \in RoutesOf(op[o].goal.base, op[o].eps) : SameId(k, r)}

\* Mutant of ListAll: orphans are not pruned.
ListAllOnly(o) ==
  /\ At(o, "list")
  /\ Become(o, AfterPrune(o))
  /\ UNCHANGED <<catalog, endpoints, routes, born, faults>>

\* The end of upsert_api_routes: list, and prune what is not to be kept.
ListAll(o) ==
  /\ At(o, "list")
  /\ Work(o, "prune", Orphans(o), AfterPrune(o))
  /\ UNCHANGED <<catalog, endpoints, routes, born, faults>>

\* delete_api_routes: list, and delete.
ListOwn(o) ==
  /\ At(o, "unroute")
  /\ Work(o, "delete", routes, AfterUnroute(o))
  /\ UNCHANGED <<catalog, endpoints, routes, born, faults>>

DeleteRoute(o) ==
  /\ At(o, "prune") \/ At(o, "delete")
  /\ \E r \in op[o].todo :
       /\ routes' = WithoutRoute(r)
       /\ Work(o, op[o].pc, op[o].todo \ {r},
               IF At(o, "prune") THEN AfterPrune(o) ELSE AfterUnroute(o))
  /\ UNCHANGED <<catalog, endpoints, born, faults>>

\* The gateway answers 401 for a literal endpoint without a PAT.
SmokePasses(o) ==
  /\ At(o, "smoke")
  /\ \E r \in routes : /\ r.base = op[o].goal.base /\ r.pattern \in Literal
                       /\ \E e \in op[o].eps : e.pattern = r.pattern
  /\ Goto(o, "update")
  /\ UNCHANGED <<catalog, endpoints, routes, born, faults>>

\* Mutant of Raised: the status that was requested is written all the same.
RaisedAnyway(o) ==
  IF op[o].kind = "resync" THEN Idle
  ELSE Clear([op[o] EXCEPT !.pc = IF op[o].kind = "delete" THEN "remove" ELSE "update"])

\* What an exception of a call of APISIX leads to. A request that wanted the API
\* PUBLISHED writes DRAFT, a DELETE goes on, and the resync tries again.
Raised(o) ==
  LET r == Clear(op[o]) IN
  CASE r.kind = "delete"                   -> [r EXCEPT !.pc = "remove"]
    [] r.kind = "resync" /\ r.tries = 1    -> Idle
    [] r.kind = "resync" /\ r.tries # 1    ->
         [r EXCEPT !.pc    = IF r.eps = {} THEN "list" ELSE "put",
                   !.todo  = RoutesOf(r.goal.base, r.eps),
                   !.tries = @ - 1]
    [] r.kind \in {"create", "patch"}      ->
         [r EXCEPT !.pc = "update", !.goal.status = "DRAFT"]

\* The routes may not have reached the gateway yet, the endpoint that is called
\* may not be a GET, or there may be none without parameters.
SmokeFails(o) ==
  /\ At(o, "smoke")
  /\ Become(o, Raised(o))
  /\ UNCHANGED <<catalog, endpoints, routes, born, faults>>

\* The UPDATE at the end, of the columns that are asked for or differ.
Update(o) ==
  /\ At(o, "update")
  /\ LET r       == op[o]
         written == r.asked \cup (IF r.goal.status # r.row.status THEN {"status"} ELSE {})
     IN  catalog' = IF ~Exists(o) THEN catalog
                    ELSE [catalog EXCEPT
                            !.status = IF "status" \in written THEN r.goal.status ELSE @,
                            !.base   = IF "base" \in written THEN r.goal.base ELSE @]
  /\ Become(o, Idle)
  /\ UNCHANGED <<endpoints, routes, born, faults>>

\* DELETE of the row, and its endpoints with it.
RemoveRow(o) ==
  /\ At(o, "remove")
  /\ IF Exists(o) THEN catalog' = None /\ endpoints' = {}
                  ELSE UNCHANGED <<catalog, endpoints>>
  /\ Become(o, Idle)
  /\ UNCHANGED <<routes, born, faults>>

Start(o) == CreateApi(o) \/ PatchApi(o) \/ DeleteApi(o) \/ Resync(o)
Step(o)  ==
  \/ Replace(o) \/ Fetch(o) \/ Put(o) \/ ListAll(o) \/ ListOwn(o) \/ DeleteRoute(o)
  \/ SmokePasses(o) \/ SmokeFails(o) \/ Update(o) \/ RemoveRow(o)

-----------------------------------------------------------------------------
(* Failures.                                                               *)

Fault == faults < MaxFaults /\ faults' = faults + 1

\* A PUT or a DELETE fails, or times out with its work done.
CallFails(o) ==
  /\ Fault
  /\ At(o, "put") \/ At(o, "prune") \/ At(o, "delete")
  /\ \E r \in op[o].todo :
       routes' \in {routes, IF At(o, "put") THEN WithRoute(r) ELSE WithoutRoute(r)}
  /\ Become(o, Raised(o))
  /\ UNCHANGED <<catalog, endpoints, born>>

\* A list that fails is taken for an empty one. delete_api_routes then deletes
\* the route of an older format, a call that may fail as well.
ListFails(o) ==
  /\ Fault
  /\ \/ At(o, "list") /\ Become(o, AfterPrune(o))
     \/ At(o, "unroute") /\ (Become(o, AfterUnroute(o)) \/ Become(o, Raised(o)))
  /\ UNCHANGED <<catalog, endpoints, routes, born>>

\* The portal dies, or PostgreSQL refuses a statement.
Abort(o) ==
  /\ Fault
  /\ ~At(o, "idle")
  /\ Become(o, Idle)
  /\ UNCHANGED <<catalog, endpoints, routes, born>>

\* APISIX starts with an empty etcd, or an API whose code ours continues with a
\* version (a and a-v2) takes routes for its own and deletes them.
RoutesLost ==
  /\ Fault
  /\ \E r \in routes : routes' \in {{}, routes \ {r}}
  /\ UNCHANGED <<catalog, endpoints, op, born>>

Next ==
  \/ \E o \in Ops : Start(o) \/ Step(o) \/ CallFails(o) \/ ListFails(o) \/ Abort(o)
  \/ RoutesLost
=============================================================================
