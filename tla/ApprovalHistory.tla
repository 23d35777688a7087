-------------------------- MODULE ApprovalHistory --------------------------
(***************************************************************************)
(* Approval with a history of decisions, of the scopes a review could see, *)
(* and of deletions that did not come to their end; and what an approval   *)
(* promises. The history constrains no step.                               *)
(***************************************************************************)
EXTENDS Approval

VARIABLES
  decisions, \* decisions written, of each application
  shown,     \* scopes published at some time during a review of it
  cutShort   \* a deletion was overtaken by an application, or aborted

hvars == <<vars, decisions, shown, cutShort>>

HInit ==
  /\ Init
  /\ decisions = [a \in Apps |-> 0]
  /\ shown = [a \in Apps |-> {}]
  /\ cutShort = FALSE

Reviewing(h, a) == req[h].app = a /\ req[h].pc \in {"review", "approve", "reject"}
Issuing(h, a)   == req[h].app = a /\ req[h].pc \in {"countUser", "issue"}
Reviewers(a)    == {h \in Handlers : Reviewing(h, a)}
Deleting(h)     == req[h].pc \in {"unroute", "remove"}

Decide(h) ==
  /\ Approve(h) \/ Reject(h)
  /\ decisions' = [decisions EXCEPT ![req[h].app] = @ + 1]
  /\ UNCHANGED cutShort

Insert(h) ==
  /\ CreateInsert(h)
  /\ cutShort' = (cutShort \/ \E k \in Handlers : Deleting(k))
  /\ UNCHANGED decisions

GiveUp(h) ==
  /\ Abort(h)
  /\ cutShort' = (cutShort \/ Deleting(h))
  /\ UNCHANGED decisions

Quiet(h) ==
  /\ \/ CreateRead(h) \/ CreateScopes(h) \/ ReviewRead(h) \/ ReviewScopes(h)
     \/ Issue(h) \/ Delete(h)
  /\ UNCHANGED <<decisions, cutShort>>

HNext ==
  /\ \/ \E h \in Handlers : Decide(h) \/ Insert(h) \/ GiveUp(h) \/ Quiet(h)
     \/ Other /\ UNCHANGED <<decisions, cutShort>>
  /\ shown' = [a \in Apps |-> shown[a] \cup
                              (IF Reviewers(a)' # {} THEN published' ELSE {})]

HSpec == HInit /\ [][HNext]_hvars

\* The types of the state and of the history.
HTypeOK ==
  /\ TypeOK
  /\ decisions \in [Apps -> Nat]
  /\ shown \in [Apps -> SUBSET Scopes]
  /\ cutShort \in BOOLEAN

\* Nothing makes a decision final but that reviews read the status first: an
\* application is decided at most once by each review that overlapped the
\* first decision, never by a later one (patch_application).
DecisionsBounded ==
  \A a \in Apps : decisions[a] + (IF decisions[a] = 0 THEN 0 ELSE Cardinality(Reviewers(a)))
                    <= Cardinality(Handlers)

\* Unless overlapping reviews decided twice, every ACTIVE token belongs to an
\* APPROVED application and carries just the scopes granted to it, however long
\* ago its request read them (issue_pat).
TokensAsDecided ==
  \A t \in Tokens :
    pat[t] # None /\ decisions[pat[t].app] <= 1 =>
      /\ app[pat[t].app].status = "APPROVED"
      /\ pat[t].scopes = app[pat[t].app].granted

\* R-08: what a token carries was requested by the applicant, and was published
\* at some time while its application was under review. A scope taken out of the
\* catalog before the review began is not granted, whatever overlapped.
ScopesWereShown ==
  \A t \in Tokens :
    pat[t] # None =>
      pat[t].scopes \subseteq app[pat[t].app].requested \cap shown[pat[t].app]

\* The limits of tokens are checked before the insert, by requests that do not
\* see one another: they are passed by at most one token for each other request.
TokensBounded ==
  /\ \A a \in Apps : Cardinality(ActiveOf(a)) < MaxPerApp + Cardinality(Handlers)
  /\ \A a \in Apps :
       Cardinality(ActiveOfUser(OwnerOf[a])) < MaxPerUser + Cardinality(Handlers)

\* A deletion takes the routes away before the row: a PUBLISHED API whose
\* applications exist has its routes unless one overtook the deletion, or it was
\* aborted (delete_api).
UsedIsRouted ==
  api = "PUBLISHED" /\ ~routed =>
    cutShort \/ \E h \in Handlers : At(h, "remove")
=============================================================================
