------------------------------ MODULE Approval ------------------------------
(***************************************************************************)
(* From an application to its tokens: a citizen applies for scopes of a    *)
(* published API, an owner approves or rejects, the applicant issues       *)
(* tokens. Any handler may run between two statements of another. The      *)
(* catalog is changed by others meanwhile (RouteSync), the tokens are      *)
(* withdrawn meanwhile (PatLifecycle), both in one step here.              *)
(***************************************************************************)
EXTENDS Naturals, FiniteSets

CONSTANTS
  Apps, OwnerOf,          \* applications and their applicants
  Scopes,                 \* required scopes an endpoint may have
  Tokens,
  Handlers,               \* requests of the portal in progress at a time
  MaxPerApp, MaxPerUser,  \* pat_max_per_app, pat_max_per_user
  None

VARIABLES
  api,       \* the status of the API, or None
  published, \* the scopes of its endpoints
  routed,    \* its routes are on the gateway
  app,       \* the rows of cdp.application
  pat,       \* the ACTIVE rows of cdp.pat
  req        \* the requests in progress

vars == <<api, published, routed, app, pat, req>>

ApiStatuses == {"PUBLISHED", "RETIRED"}
Row   == [status : {"PENDING", "APPROVED", "REJECTED"},
          requested : SUBSET Scopes, granted : SUBSET Scopes]
Pat   == [app : Apps, scopes : SUBSET Scopes]
Steps == {"idle", "scopes", "insert",
          "review", "approve", "reject",
          "countApp", "countUser", "issue",
          "check", "checkRouted", "unroute", "remove"}
Req   == [pc : Steps, app : Apps \cup {None}, scopes : SUBSET Scopes]

ASSUME ApprovalAssumption ==
  /\ IsFiniteSet(Tokens) /\ IsFiniteSet(Handlers)
  /\ MaxPerApp \in Nat \ {0} /\ MaxPerUser \in Nat \ {0}
  /\ None \notin ApiStatuses /\ None \notin Apps /\ None \notin Row /\ None \notin Pat

TypeOK ==
  /\ api \in ApiStatuses \cup {None}
  /\ published \in SUBSET Scopes
  /\ routed \in BOOLEAN
  /\ app \in [Apps -> Row \cup {None}]
  /\ pat \in [Tokens -> Pat \cup {None}]
  /\ req \in [Handlers -> Req]

At(h, pc)              == req[h].pc = pc
Become(h, pc, a, held) == req' = [req EXCEPT ![h] = [pc |-> pc, app |-> a, scopes |-> held]]
Done(h)                == Become(h, "idle", None, {})
Filed(a)               == app[a] # None
ActiveOf(a)            == {t \in Tokens : pat[t] # None /\ pat[t].app = a}
ActiveOfUser(u)        == {t \in Tokens : pat[t] # None /\ OwnerOf[pat[t].app] = u}

Init ==
  /\ api = "PUBLISHED" /\ published \in SUBSET Scopes /\ routed = TRUE
  /\ app = [a \in Apps |-> None]
  /\ pat = [t \in Tokens |-> None]
  /\ req = [h \in Handlers |-> [pc |-> "idle", app |-> None, scopes |-> {}]]

-----------------------------------------------------------------------------
(* create_application. Missing roles are reported, and refuse nothing.     *)

CreateRead(h) ==
  /\ At(h, "idle") /\ api = "PUBLISHED"
  /\ Become(h, "scopes", None, {})
  /\ UNCHANGED <<api, published, routed, app, pat>>

CreateScopes(h) ==
  /\ At(h, "scopes")
  /\ \E S \in (SUBSET published) \ {{}} : Become(h, "insert", None, S)
  /\ UNCHANGED <<api, published, routed, app, pat>>

\* The foreign key refuses the row once the API is deleted.
CreateInsert(h) ==
  /\ At(h, "insert") /\ api # None
  /\ \E a \in Apps :
       /\ ~Filed(a)
       /\ app' = [app EXCEPT ![a] = [status |-> "PENDING", granted |-> {},
                                     requested |-> req[h].scopes]]
  /\ Done(h)
  /\ UNCHANGED <<api, published, routed, pat>>

-----------------------------------------------------------------------------
(* patch_application.                                                      *)

\* Mutant of ReviewRead: an approved application may be reviewed again.
ReviewReadApproved(h) ==
  /\ At(h, "idle")
  /\ \E a \in Apps, pc \in {"review", "reject"} :
       /\ Filed(a) /\ app[a].status # "REJECTED"
       /\ Become(h, pc, a, app[a].requested)
  /\ UNCHANGED <<api, published, routed, app, pat>>

ReviewRead(h) ==
  /\ At(h, "idle")
  /\ \E a \in Apps, pc \in {"review", "reject"} :
       /\ Filed(a) /\ app[a].status = "PENDING"
       /\ Become(h, pc, a, app[a].requested)
  /\ UNCHANGED <<api, published, routed, app, pat>>

\* Mutant of ReviewScopes: what was requested is granted unseen.
ReviewScopesAll(h) ==
  /\ At(h, "review")
  /\ Become(h, "approve", req[h].app, req[h].scopes)
  /\ UNCHANGED <<api, published, routed, app, pat>>

\* The scopes are looked up whatever the status of the API.
ReviewScopes(h) ==
  /\ At(h, "review")
  /\ LET granted == req[h].scopes \cap published IN
     IF granted = {} THEN Done(h) ELSE Become(h, "approve", req[h].app, granted)
  /\ UNCHANGED <<api, published, routed, app, pat>>

\* The UPDATEs go by app_id: what is there by now is overwritten.
Approve(h) ==
  /\ At(h, "approve")
  /\ app' = [app EXCEPT ![req[h].app].status = "APPROVED",
                        ![req[h].app].granted = req[h].scopes]
  /\ Done(h)
  /\ UNCHANGED <<api, published, routed, pat>>

\* Mutant of Reject: a status the table's CHECK does not list.
RejectDenied(h) ==
  /\ At(h, "reject")
  /\ app' = [app EXCEPT ![req[h].app].status = "DENIED"]
  /\ Done(h)
  /\ UNCHANGED <<api, published, routed, pat>>

Reject(h) ==
  /\ At(h, "reject")
  /\ app' = [app EXCEPT ![req[h].app].status = "REJECTED"]
  /\ Done(h)
  /\ UNCHANGED <<api, published, routed, pat>>

-----------------------------------------------------------------------------
(* issue_pat, up to its INSERT. What follows is PatLifecycle's.            *)

\* Mutant of IssueRead: a token can be had before the decision.
IssueReadFiled(h) ==
  /\ At(h, "idle")
  /\ \E a \in Apps : Filed(a) /\ Become(h, "countApp", a, app[a].granted)
  /\ UNCHANGED <<api, published, routed, app, pat>>

\* The row is read once; its scopes are the token's.
IssueRead(h) ==
  /\ At(h, "idle")
  /\ \E a \in Apps : /\ Filed(a) /\ app[a].status = "APPROVED"
                     /\ Become(h, "countApp", a, app[a].granted)
  /\ UNCHANGED <<api, published, routed, app, pat>>

\* Mutant of IssueCountApp: one token more than the limit.
IssueCountAppPast(h) ==
  /\ At(h, "countApp")
  /\ Cardinality(ActiveOf(req[h].app)) <= MaxPerApp
  /\ Become(h, "countUser", req[h].app, req[h].scopes)
  /\ UNCHANGED <<api, published, routed, app, pat>>

IssueCountApp(h) ==
  /\ At(h, "countApp")
  /\ Cardinality(ActiveOf(req[h].app)) < MaxPerApp
  /\ Become(h, "countUser", req[h].app, req[h].scopes)
  /\ UNCHANGED <<api, published, routed, app, pat>>

IssueCountUser(h) ==
  /\ At(h, "countUser")
  /\ Cardinality(ActiveOfUser(OwnerOf[req[h].app])) < MaxPerUser
  /\ Become(h, "issue", req[h].app, req[h].scopes)
  /\ UNCHANGED <<api, published, routed, app, pat>>

IssueInsert(h) ==
  /\ At(h, "issue")
  /\ \E t \in Tokens :
       /\ pat[t] = None
       /\ pat' = [pat EXCEPT ![t] = [app |-> req[h].app, scopes |-> req[h].scopes]]
  /\ Done(h)
  /\ UNCHANGED <<api, published, routed, app>>

-----------------------------------------------------------------------------
(* delete_api.                                                             *)

DeleteRead(h) ==
  /\ At(h, "idle") /\ api # None
  /\ Become(h, IF api = "PUBLISHED" THEN "checkRouted" ELSE "check", None, {})
  /\ UNCHANGED <<api, published, routed, app, pat>>

\* Mutant of DeleteCheck: the routes go whoever uses the API.
DeleteCheckNothing(h) ==
  /\ \/ At(h, "checkRouted") /\ Become(h, "unroute", None, {})
     \/ At(h, "check")       /\ Become(h, "remove", None, {})
  /\ UNCHANGED <<api, published, routed, app, pat>>

DeleteCheck(h) ==
  /\ \A a \in Apps : ~Filed(a)
  /\ \/ At(h, "checkRouted") /\ Become(h, "unroute", None, {})
     \/ At(h, "check")       /\ Become(h, "remove", None, {})
  /\ UNCHANGED <<api, published, routed, app, pat>>

Unroute(h) ==
  /\ At(h, "unroute")
  /\ routed' = FALSE
  /\ Become(h, "remove", None, {})
  /\ UNCHANGED <<api, published, app, pat>>

\* The foreign key refuses the DELETE once an application is there.
Remove(h) ==
  /\ At(h, "remove")
  /\ IF \A a \in Apps : ~Filed(a)
     THEN api' = None /\ published' = {}
     ELSE UNCHANGED <<api, published>>
  /\ Done(h)
  /\ UNCHANGED <<routed, app, pat>>

-----------------------------------------------------------------------------

\* A refusal, a failed statement, or the death of the portal.
Abort(h) ==
  /\ ~At(h, "idle")
  /\ Done(h)
  /\ UNCHANGED <<api, published, routed, app, pat>>

\* patch_api of the owner: other endpoints, another status.
ChangeScopes ==
  /\ api # None
  /\ published' \in SUBSET Scopes
  /\ UNCHANGED <<api, routed, app, pat, req>>

ChangeStatus ==
  /\ api # None
  /\ api' \in ApiStatuses \ {api}
  /\ routed' = (api' = "PUBLISHED")
  /\ UNCHANGED <<published, app, pat, req>>

\* A token is revoked, expires, or is not used.
Withdraw(t) ==
  /\ pat[t] # None
  /\ pat' = [pat EXCEPT ![t] = None]
  /\ UNCHANGED <<api, published, routed, app, req>>

Create(h) == CreateRead(h) \/ CreateScopes(h) \/ CreateInsert(h)
Review(h) == ReviewRead(h) \/ ReviewScopes(h) \/ Approve(h) \/ Reject(h)
Issue(h)  == IssueRead(h) \/ IssueCountApp(h) \/ IssueCountUser(h) \/ IssueInsert(h)
Delete(h) == DeleteRead(h) \/ DeleteCheck(h) \/ Unroute(h) \/ Remove(h)
Other     == ChangeScopes \/ ChangeStatus \/ \E t \in Tokens : Withdraw(t)

Next ==
  \/ \E h \in Handlers : Create(h) \/ Review(h) \/ Issue(h) \/ Delete(h) \/ Abort(h)
  \/ Other

Spec == Init /\ [][Next]_vars
=============================================================================
