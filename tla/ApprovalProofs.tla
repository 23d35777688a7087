--------------------------- MODULE ApprovalProofs ---------------------------
(***************************************************************************)
(* What ApprovalHistory promises holds for any number of applications,     *)
(* users, scopes, tokens and requests in progress.                         *)
(***************************************************************************)
EXTENDS ApprovalHistory, FiniteSetTheorems, TLAPS

-----------------------------------------------------------------------------
(* The types.                                                              *)

LEMMA InitTypes == HInit => HTypeOK
  <1> SUFFICES ASSUME HInit PROVE HTypeOK
    OBVIOUS
  <1>1. [pc |-> "idle", app |-> None, scopes |-> {}] \in Req
    BY DEF Req, Steps
  <1>2. req \in [Handlers -> Req]
    BY <1>1 DEF HInit, Init
  <1>3. app \in [Apps -> Row \cup {None}] /\ pat \in [Tokens -> Pat \cup {None}]
    BY DEF HInit, Init
  <1> QED
    BY <1>2, <1>3 DEF HInit, Init, HTypeOK, TypeOK, ApiStatuses

\* A step of a request leaves a request.
LEMMA BecomeTyped ==
  ASSUME TypeOK, NEW h \in Handlers, NEW pc \in Steps,
         NEW a \in Apps \cup {None}, NEW held \in SUBSET Scopes, Become(h, pc, a, held)
  PROVE  req' \in [Handlers -> Req]
  BY DEF TypeOK, Become, Req

LEMMA CreateTyped ==
  ASSUME TypeOK, NEW h \in Handlers, Create(h)
  PROVE  TypeOK'
  <1>1. CASE CreateRead(h)
    <2>1. req' \in [Handlers -> Req]
      BY <1>1, BecomeTyped DEF CreateRead, Steps
    <2> QED
      BY <1>1, <2>1 DEF CreateRead, TypeOK
  <1>2. CASE CreateScopes(h)
    <2>1. PICK S \in (SUBSET published) \ {{}} : Become(h, "insert", None, S)
      BY <1>2 DEF CreateScopes
    <2>2. S \in SUBSET Scopes
      BY <2>1 DEF TypeOK
    <2>3. req' \in [Handlers -> Req]
      BY <2>1, <2>2, BecomeTyped DEF Steps
    <2> QED
      BY <1>2, <2>3 DEF CreateScopes, TypeOK
  <1>3. CASE CreateInsert(h)
    <2>1. req' \in [Handlers -> Req]
      BY <1>3, BecomeTyped DEF CreateInsert, Done, Steps
    <2>2. req[h].scopes \in SUBSET Scopes
      BY DEF TypeOK, Req
    <2>3. app' \in [Apps -> Row \cup {None}]
      BY <1>3, <2>2 DEF CreateInsert, TypeOK, Row
    <2> QED
      BY <1>3, <2>1, <2>3 DEF CreateInsert, TypeOK
  <1> QED
    BY <1>1, <1>2, <1>3 DEF Create

\* The application a step of a review or of an issue is about, if it has one.
Concerns(h) == req[h].app \in Apps /\ Filed(req[h].app)

Concerned ==
  \A h \in Handlers :
    req[h].pc \in {"review", "approve", "reject", "countApp", "countUser", "issue"}
      => Concerns(h)

LEMMA ReviewTyped ==
  ASSUME TypeOK, Concerned, NEW h \in Handlers, Review(h)
  PROVE  TypeOK'
  <1>1. CASE ReviewRead(h)
    <2>1. PICK a \in Apps, pc \in {"review", "reject"} :
            Filed(a) /\ Become(h, pc, a, app[a].requested)
      BY <1>1 DEF ReviewRead
    <2>2. app[a].requested \in SUBSET Scopes
      BY <2>1 DEF TypeOK, Filed, Row
    <2>3. req' \in [Handlers -> Req]
      BY <2>1, <2>2, BecomeTyped DEF Steps
    <2> QED
      BY <1>1, <2>3 DEF ReviewRead, TypeOK
  <1>2. CASE ReviewScopes(h)
    <2>1. /\ req[h].app \in Apps \cup {None}
          /\ req[h].scopes \cap published \in SUBSET Scopes
      BY DEF TypeOK, Req
    <2>2. req' \in [Handlers -> Req]
      BY <1>2, <2>1, BecomeTyped DEF ReviewScopes, Done, Steps
    <2> QED
      BY <1>2, <2>2 DEF ReviewScopes, TypeOK
  <1>3. CASE Approve(h) \/ Reject(h)
    <2>1. req' \in [Handlers -> Req]
      BY <1>3, BecomeTyped DEF Approve, Reject, Done, Steps
    <2>2. Concerns(h) /\ req[h].scopes \in SUBSET Scopes
      BY <1>3 DEF Concerned, Approve, Reject, At, TypeOK, Req
    <2>3. app[req[h].app] \in Row
      BY <2>2 DEF Concerns, Filed, TypeOK
    <2>4. app' \in [Apps -> Row \cup {None}]
      BY <1>3, <2>2, <2>3 DEF Approve, Reject, TypeOK, Row
    <2> QED
      BY <1>3, <2>1, <2>4 DEF Approve, Reject, TypeOK
  <1> QED
    BY <1>1, <1>2, <1>3 DEF Review

LEMMA IssueTyped ==
  ASSUME TypeOK, Concerned, NEW h \in Handlers, Issue(h)
  PROVE  TypeOK'
  <1>1. CASE IssueRead(h)
    <2>1. PICK a \in Apps : Filed(a) /\ Become(h, "countApp", a, app[a].granted)
      BY <1>1 DEF IssueRead
    <2>2. app[a].granted \in SUBSET Scopes
      BY <2>1 DEF TypeOK, Filed, Row
    <2>3. req' \in [Handlers -> Req]
      BY <2>1, <2>2, BecomeTyped DEF Steps
    <2> QED
      BY <1>1, <2>3 DEF IssueRead, TypeOK
  <1>2. CASE IssueCountApp(h) \/ IssueCountUser(h)
    <2>1. req[h].app \in Apps \cup {None} /\ req[h].scopes \in SUBSET Scopes
      BY DEF TypeOK, Req
    <2>2. req' \in [Handlers -> Req]
      BY <1>2, <2>1, BecomeTyped DEF IssueCountApp, IssueCountUser, Steps
    <2> QED
      BY <1>2, <2>2 DEF IssueCountApp, IssueCountUser, TypeOK
  <1>3. CASE IssueInsert(h)
    <2>1. req' \in [Handlers -> Req]
      BY <1>3, BecomeTyped DEF IssueInsert, Done, Steps
    <2>2. req[h].app \in Apps /\ req[h].scopes \in SUBSET Scopes
      BY <1>3 DEF Concerned, Concerns, IssueInsert, At, TypeOK, Req
    <2>3. pat' \in [Tokens -> Pat \cup {None}]
      BY <1>3, <2>2 DEF IssueInsert, TypeOK, Pat
    <2> QED
      BY <1>3, <2>1, <2>3 DEF IssueInsert, TypeOK
  <1> QED
    BY <1>1, <1>2, <1>3 DEF Issue

LEMMA DeleteTyped ==
  ASSUME TypeOK, NEW h \in Handlers, Delete(h) \/ Abort(h)
  PROVE  TypeOK'
  <1>1. req' \in [Handlers -> Req]
    BY BecomeTyped DEF Delete, Abort, DeleteRead, DeleteCheck, Unroute, Remove, Done, Steps
  <1> QED
    BY <1>1 DEF Delete, Abort, DeleteRead, DeleteCheck, Unroute, Remove, TypeOK

LEMMA OtherTyped ==
  ASSUME TypeOK, Other
  PROVE  TypeOK'
  BY DEF TypeOK, Other, ChangeScopes, ChangeStatus, Withdraw, ApiStatuses, Pat

\* The kinds of step.
LEMMA StepKinds ==
  ASSUME HNext
  PROVE  \/ \E h \in Handlers : Create(h) \/ Review(h) \/ Issue(h) \/ Delete(h) \/ Abort(h)
         \/ Other
  BY DEF HNext, Decide, Insert, GiveUp, Quiet, Create, Review

\* Applications, once there, stay.
LEMMA FiledStays ==
  ASSUME HTypeOK, Concerned, [HNext]_hvars, NEW a \in Apps, Filed(a)
  PROVE  Filed(a)' /\ app'[a].requested = app[a].requested
  <1>1. app[a] \in Row /\ a # None
    BY ApprovalAssumption DEF HTypeOK, TypeOK, Filed
  <1>2. CASE \E h \in Handlers : Approve(h) \/ Reject(h)
    <2>1. PICK h \in Handlers : Approve(h) \/ Reject(h)
      BY <1>2
    <2>2. req[h].app \in Apps /\ app[req[h].app] \in Row
      BY <2>1 DEF Concerned, Concerns, Filed, Approve, Reject, At, HTypeOK, TypeOK
    <2>3. app'[a] \in Row /\ app'[a].requested = app[a].requested
      BY <1>1, <2>1, <2>2 DEF Approve, Reject, HTypeOK, TypeOK, Row
    <2> QED
      BY <2>3, ApprovalAssumption DEF Filed
  <1>3. CASE \E h \in Handlers : CreateInsert(h)
    BY <1>1, <1>3 DEF CreateInsert, Filed, HTypeOK, TypeOK
  <1>4. CASE UNCHANGED app
    BY <1>4 DEF Filed
  <1> QED
    BY <1>2, <1>3, <1>4, StepKinds
       DEF Create, CreateRead, CreateScopes, Review, ReviewRead, ReviewScopes,
           Issue, IssueRead, IssueCountApp, IssueCountUser, IssueInsert, Delete,
           DeleteRead, DeleteCheck, Unroute, Remove, Abort, Other, ChangeScopes,
           ChangeStatus, Withdraw, hvars, vars

\* A request that moves leaves the others alone, and this is what it may become.
LEMMA HandlerMoves ==
  ASSUME HTypeOK, Concerned, NEW h \in Handlers,
         Create(h) \/ Review(h) \/ Issue(h) \/ Delete(h) \/ Abort(h)
  PROVE  /\ \A k \in Handlers \ {h} : req'[k] = req[k]
         /\ req'[h].pc \in {"review", "approve", "reject", "countApp", "countUser", "issue"}
              => Concerns(h)'
  <1>1. req \in [Handlers -> Req]
    BY DEF HTypeOK, TypeOK
  <1>2. CASE Create(h) \/ Delete(h) \/ Abort(h)
    BY <1>1, <1>2 DEF Create, Delete, Abort, CreateRead, CreateScopes, CreateInsert,
                      DeleteRead, DeleteCheck, Unroute, Remove, Done, Become
  <1>3. CASE ReviewRead(h) \/ IssueRead(h)
    <2>1. PICK a \in Apps, pc \in Steps, held \in SUBSET Scopes :
            Filed(a) /\ Become(h, pc, a, held)
      <3>1. \A a \in Apps : Filed(a) => /\ app[a].requested \in SUBSET Scopes
                                       /\ app[a].granted \in SUBSET Scopes
        BY DEF HTypeOK, TypeOK, Filed, Row
      <3>2. CASE ReviewRead(h)
        <4>1. PICK a \in Apps, pc \in {"review", "reject"} :
                Filed(a) /\ Become(h, pc, a, app[a].requested)
          BY <3>2 DEF ReviewRead
        <4> QED
          BY <4>1, <3>1 DEF Steps
      <3>3. CASE IssueRead(h)
        <4>1. PICK a \in Apps : Filed(a) /\ Become(h, "countApp", a, app[a].granted)
          BY <3>3 DEF IssueRead
        <4> QED
          BY <4>1, <3>1 DEF Steps
      <3> QED
        BY <1>3, <3>2, <3>3
    <2> QED
      BY <1>1, <1>3, <2>1 DEF ReviewRead, IssueRead, Become, Concerns, Filed
  <1>4. CASE ReviewScopes(h) \/ IssueCountApp(h) \/ IssueCountUser(h)
    BY <1>1, <1>4 DEF ReviewScopes, IssueCountApp, IssueCountUser, Done, Become, At,
                      Concerned, Concerns, Filed
  <1>5. CASE Approve(h) \/ Reject(h) \/ IssueInsert(h)
    BY <1>1, <1>5 DEF Approve, Reject, IssueInsert, Done, Become
  <1> QED
    BY <1>2, <1>3, <1>4, <1>5 DEF Review, Issue

TypeInv == HTypeOK /\ Concerned

LEMMA InitTypeInv == HInit => TypeInv
  BY InitTypes DEF HInit, Init, TypeInv, Concerned

LEMMA StepTypeInv == TypeInv /\ [HNext]_hvars => TypeInv'
  <1> SUFFICES ASSUME TypeInv, [HNext]_hvars PROVE TypeInv'
    OBVIOUS
  <1>t. HTypeOK /\ TypeOK /\ Concerned
    BY DEF TypeInv, HTypeOK
  <1>1. TypeOK'
    BY <1>t, StepKinds, CreateTyped, ReviewTyped, IssueTyped, DeleteTyped, OtherTyped
       DEF hvars, vars, TypeOK
  <1>2. decisions' \in [Apps -> Nat]
    BY <1>t DEF HTypeOK, HNext, Decide, Insert, GiveUp, Quiet, hvars
  <1>3. shown' \in [Apps -> SUBSET Scopes] /\ cutShort' \in BOOLEAN
    BY <1>t, <1>1 DEF HTypeOK, TypeOK, HNext, Decide, Insert, GiveUp, Quiet, hvars
  <1>4. Concerned'
    <2> SUFFICES ASSUME NEW k \in Handlers,
                        req'[k].pc \in {"review", "approve", "reject",
                                        "countApp", "countUser", "issue"}
                 PROVE  Concerns(k)'
      BY DEF Concerned
    <2>1. CASE req'[k] = req[k]
      <3>1. PICK a \in Apps : a = req[k].app /\ Filed(a)
        BY <1>t, <2>1 DEF Concerned, Concerns
      <3>2. Filed(a)'
        BY <1>t, <3>1, FiledStays
      <3> QED
        BY <2>1, <3>1, <3>2 DEF Concerns, Filed
    <2>2. CASE req'[k] # req[k]
      <3>1. PICK h \in Handlers :
              Create(h) \/ Review(h) \/ Issue(h) \/ Delete(h) \/ Abort(h)
        BY <2>2, StepKinds DEF hvars, vars, Other, ChangeScopes, ChangeStatus, Withdraw
      <3> QED
        BY <1>t, <2>2, <3>1, HandlerMoves
    <2> QED
      BY <2>1, <2>2
  <1> QED
    BY <1>1, <1>2, <1>3, <1>4 DEF TypeInv, HTypeOK

LEMMA AlwaysTyped == HSpec => []TypeInv
  BY InitTypeInv, StepTypeInv, PTL DEF HSpec

\* The ledger, the requests and the history keep their types.
THEOREM ApprovalTypes == HSpec => []HTypeOK
  <1>1. TypeInv => HTypeOK
    BY DEF TypeInv
  <1> QED
    BY <1>1, AlwaysTyped, PTL

-----------------------------------------------------------------------------
(* The limits: tokens and requests that have passed a count are bounded    *)
(* together, so a request only turns its place into a token.               *)

PastApp(a)  == {h \in Handlers : Issuing(h, a)}
PastUser(u) == {h \in Handlers : At(h, "issue") /\ OwnerOf[req[h].app] = u}
Others      == Cardinality(Handlers) - 1

Places ==
  \A a \in Apps :
    /\ Cardinality(ActiveOf(a)) + Cardinality(PastApp(a)) <= MaxPerApp + Others
    /\ Cardinality(ActiveOfUser(OwnerOf[a])) + Cardinality(PastUser(OwnerOf[a]))
         <= MaxPerUser + Others

\* Sizes are numbers, and grow with their sets.
LEMMA Sizes ==
  /\ Cardinality(Handlers) \in Nat
  /\ \A I \in SUBSET Handlers : Cardinality(I) \in Nat /\ Cardinality(I) <= Cardinality(Handlers)
  /\ \A A \in SUBSET Tokens : Cardinality(A) \in Nat
  <1>1. \A I \in SUBSET Handlers : IsFiniteSet(I) /\ Cardinality(I) <= Cardinality(Handlers)
    BY ApprovalAssumption, FS_Subset
  <1>2. \A A \in SUBSET Tokens : IsFiniteSet(A)
    BY ApprovalAssumption, FS_Subset
  <1> QED
    BY <1>1, <1>2, ApprovalAssumption, FS_CardinalityType

\* Neither grows.
LEMMA Shrink ==
  ASSUME NEW A \in SUBSET Tokens, NEW B \in SUBSET A,
         NEW I \in SUBSET Handlers, NEW J \in SUBSET I
  PROVE  Cardinality(B) + Cardinality(J) <= Cardinality(A) + Cardinality(I)
  <1>1. IsFiniteSet(A) /\ IsFiniteSet(I)
    BY ApprovalAssumption, FS_Subset
  <1>2. Cardinality(B) <= Cardinality(A) /\ Cardinality(J) <= Cardinality(I)
    BY <1>1, FS_Subset
  <1>3. B \in SUBSET Tokens /\ J \in SUBSET Handlers
    OBVIOUS
  <1> QED
    BY <1>2, <1>3, Sizes

\* A request turns its place into a token.
LEMMA Exchange ==
  ASSUME NEW A \in SUBSET Tokens, NEW t \in Tokens, NEW B \in SUBSET (A \cup {t}),
         NEW I \in SUBSET Handlers, NEW h \in I, NEW J \in SUBSET (I \ {h})
  PROVE  Cardinality(B) + Cardinality(J) <= Cardinality(A) + Cardinality(I)
  <1>1. IsFiniteSet(A) /\ IsFiniteSet(I)
    BY ApprovalAssumption, FS_Subset
  <1>2. Cardinality(A \cup {t}) <= Cardinality(A) + 1 /\ IsFiniteSet(A \cup {t})
    <2>1. /\ IsFiniteSet(A \cup {t})
          /\ Cardinality(A \cup {t}) = IF t \in A THEN Cardinality(A) ELSE Cardinality(A) + 1
      BY <1>1, FS_AddElement
    <2> QED
      BY <2>1, Sizes
  <1>3. Cardinality(I \ {h}) = Cardinality(I) - 1 /\ IsFiniteSet(I \ {h})
    BY <1>1, FS_RemoveElement
  <1>4. Cardinality(B) <= Cardinality(A \cup {t}) /\ Cardinality(J) <= Cardinality(I \ {h})
    BY <1>2, <1>3, FS_Subset
  <1>5. B \in SUBSET Tokens /\ J \in SUBSET Handlers /\ A \cup {t} \in SUBSET Tokens
    OBVIOUS
  <1> QED
    BY <1>2, <1>3, <1>4, <1>5, Sizes

\* The count was below the limit.
LEMMA Counted ==
  ASSUME NEW A \in SUBSET Tokens, NEW J \in SUBSET Handlers, NEW max \in Nat,
         Cardinality(A) < max
  PROVE  Cardinality(A) + Cardinality(J) <= max + Others
  BY Sizes DEF Others

\* Only the counts lead past them, and only an insert makes a token.
LEMMA ElseFree ==
  ASSUME TypeInv, [HNext]_hvars,
         ~\E h \in Handlers : IssueCountApp(h) \/ IssueCountUser(h) \/ IssueInsert(h)
  PROVE  /\ \A k \in Handlers : req'[k].pc \in {"countUser", "issue"} => req'[k] = req[k]
         /\ \A t \in Tokens : pat'[t] \in {pat[t], None}
  <1>0. req \in [Handlers -> Req] /\ pat \in [Tokens -> Pat \cup {None}]
    BY DEF TypeInv, HTypeOK, TypeOK
  <1>1. CASE \E h \in Handlers : Create(h) \/ Review(h) \/ IssueRead(h) \/ Delete(h) \/ Abort(h)
    BY <1>0, <1>1
       DEF Create, CreateRead, CreateScopes, CreateInsert, Review, ReviewRead,
           ReviewScopes, Approve, Reject, IssueRead, Delete, DeleteRead, DeleteCheck,
           Unroute, Remove, Abort, Done, Become
  <1>2. CASE Other \/ UNCHANGED hvars
    BY <1>0, <1>2 DEF Other, ChangeScopes, ChangeStatus, Withdraw, hvars, vars
  <1> QED
    BY <1>1, <1>2, StepKinds DEF Issue

LEMMA InitPlaces == HInit => Places
  <1> SUFFICES ASSUME HInit, NEW a \in Apps
               PROVE  /\ ActiveOf(a) = {} /\ PastApp(a) = {}
                      /\ ActiveOfUser(OwnerOf[a]) = {} /\ PastUser(OwnerOf[a]) = {}
    <2>1. Cardinality({}) = 0
      BY FS_EmptySet
    <2>2. 0 + 0 <= MaxPerApp + Others /\ 0 + 0 <= MaxPerUser + Others
      BY Sizes, ApprovalAssumption DEF Others
    <2> QED
      BY <2>1, <2>2 DEF Places
  <1> QED
    BY DEF HInit, Init, ActiveOf, ActiveOfUser, PastApp, PastUser, Issuing, At

LEMMA StepPlaces == TypeInv /\ Places /\ [HNext]_hvars => Places'
  <1> SUFFICES ASSUME TypeInv, Places, [HNext]_hvars, NEW a \in Apps
               PROVE  /\ Cardinality(ActiveOf(a)') + Cardinality(PastApp(a)') <= MaxPerApp + Others
                      /\ Cardinality(ActiveOfUser(OwnerOf[a])') + Cardinality(PastUser(OwnerOf[a])')
                           <= MaxPerUser + Others
    BY DEF Places, Others
  <1> DEFINE u == OwnerOf[a]
  <1>0. /\ req \in [Handlers -> Req] /\ pat \in [Tokens -> Pat \cup {None}]
        /\ ActiveOf(a) \in SUBSET Tokens /\ ActiveOfUser(u) \in SUBSET Tokens
        /\ PastApp(a) \in SUBSET Handlers /\ PastUser(u) \in SUBSET Handlers
        /\ PastApp(a)' \in SUBSET Handlers /\ PastUser(u)' \in SUBSET Handlers
        /\ ActiveOf(a)' \in SUBSET Tokens /\ ActiveOfUser(u)' \in SUBSET Tokens
    BY DEF TypeInv, HTypeOK, TypeOK, ActiveOf, ActiveOfUser, PastApp, PastUser
  <1>a. /\ Cardinality(ActiveOf(a)) + Cardinality(PastApp(a)) <= MaxPerApp + Others
        /\ Cardinality(ActiveOfUser(u)) + Cardinality(PastUser(u)) <= MaxPerUser + Others
    BY DEF Places
  <1>n. /\ Cardinality(ActiveOf(a)) \in Nat /\ Cardinality(PastApp(a)) \in Nat
        /\ Cardinality(ActiveOfUser(u)) \in Nat /\ Cardinality(PastUser(u)) \in Nat
        /\ Cardinality(ActiveOf(a)') \in Nat /\ Cardinality(PastApp(a)') \in Nat
        /\ Cardinality(ActiveOfUser(u)') \in Nat /\ Cardinality(PastUser(u)') \in Nat
        /\ MaxPerApp \in Nat /\ MaxPerUser \in Nat /\ Others \in Int
    BY <1>0, Sizes, ApprovalAssumption DEF Others
  <1> HIDE DEF u
  <1>1. ASSUME NEW h \in Handlers, IssueCountApp(h)
        PROVE  /\ Cardinality(ActiveOf(a)') + Cardinality(PastApp(a)') <= MaxPerApp + Others
               /\ Cardinality(ActiveOfUser(u)') + Cardinality(PastUser(u)') <= MaxPerUser + Others
    <2>1. ActiveOf(a)' = ActiveOf(a) /\ ActiveOfUser(u)' = ActiveOfUser(u)
      BY <1>1 DEF IssueCountApp, ActiveOf, ActiveOfUser
    <2>2. PastUser(u)' \subseteq PastUser(u)
      BY <1>0, <1>1 DEF IssueCountApp, Become, PastUser, At
    <2>3. Cardinality(ActiveOfUser(u)') + Cardinality(PastUser(u)') <= MaxPerUser + Others
      BY <1>0, <1>a, <1>n, <2>1, <2>2, Shrink
    <2>4. CASE req[h].app = a
      <3>1. Cardinality(ActiveOf(a)) < MaxPerApp
        BY <1>1, <2>4 DEF IssueCountApp
      <3> QED
        BY <1>0, <1>n, <2>1, <2>3, <3>1, Counted
    <2>5. CASE req[h].app # a
      <3>1. PastApp(a)' \subseteq PastApp(a)
        BY <1>0, <1>1, <2>5 DEF IssueCountApp, Become, PastApp, Issuing, At
      <3> QED
        BY <1>0, <1>a, <1>n, <2>1, <2>3, <3>1, Shrink
    <2> QED
      BY <2>4, <2>5
  <1>2. ASSUME NEW h \in Handlers, IssueCountUser(h)
        PROVE  /\ Cardinality(ActiveOf(a)') + Cardinality(PastApp(a)') <= MaxPerApp + Others
               /\ Cardinality(ActiveOfUser(u)') + Cardinality(PastUser(u)') <= MaxPerUser + Others
    <2>1. ActiveOf(a)' = ActiveOf(a) /\ ActiveOfUser(u)' = ActiveOfUser(u)
      BY <1>2 DEF IssueCountUser, ActiveOf, ActiveOfUser
    <2>2. PastApp(a)' \subseteq PastApp(a)
      BY <1>0, <1>2 DEF IssueCountUser, Become, PastApp, Issuing, At
    <2>3. Cardinality(ActiveOf(a)') + Cardinality(PastApp(a)') <= MaxPerApp + Others
      BY <1>0, <1>a, <1>n, <2>1, <2>2, Shrink
    <2>4. CASE OwnerOf[req[h].app] = u
      <3>1. Cardinality(ActiveOfUser(u)) < MaxPerUser
        BY <1>2, <2>4 DEF IssueCountUser
      <3> QED
        BY <1>0, <1>n, <2>1, <2>3, <3>1, Counted
    <2>5. CASE OwnerOf[req[h].app] # u
      <3>1. PastUser(u)' \subseteq PastUser(u)
        BY <1>0, <1>2, <2>5 DEF IssueCountUser, Become, PastUser, At
      <3> QED
        BY <1>0, <1>a, <1>n, <2>1, <2>3, <3>1, Shrink
    <2> QED
      BY <2>4, <2>5
  <1>3. ASSUME NEW h \in Handlers, IssueInsert(h)
        PROVE  /\ Cardinality(ActiveOf(a)') + Cardinality(PastApp(a)') <= MaxPerApp + Others
               /\ Cardinality(ActiveOfUser(u)') + Cardinality(PastUser(u)') <= MaxPerUser + Others
    <2>1. PICK t \in Tokens :
            /\ pat[t] = None
            /\ pat' = [pat EXCEPT ![t] = [app |-> req[h].app, scopes |-> req[h].scopes]]
      BY <1>3 DEF IssueInsert
    <2>2. req[h].pc = "issue"
      BY <1>3 DEF IssueInsert, At
    <2>3. /\ PastApp(a)' \subseteq PastApp(a) \ {h}
          /\ PastUser(u)' \subseteq PastUser(u) \ {h}
      BY <1>0, <1>3 DEF IssueInsert, Done, Become, PastApp, PastUser, Issuing, At
    <2>4. Cardinality(ActiveOf(a)') + Cardinality(PastApp(a)') <= MaxPerApp + Others
      <3>1. CASE req[h].app = a
        <4>1. h \in PastApp(a) /\ ActiveOf(a)' \subseteq ActiveOf(a) \cup {t}
          BY <1>0, <2>1, <2>2, <3>1 DEF PastApp, Issuing, ActiveOf
        <4>2. ActiveOf(a)' \in SUBSET (ActiveOf(a) \cup {t}) /\ PastApp(a)' \in SUBSET (PastApp(a) \ {h})
          BY <2>3, <4>1
        <4>3. Cardinality(ActiveOf(a)') + Cardinality(PastApp(a)')
                <= Cardinality(ActiveOf(a)) + Cardinality(PastApp(a))
          BY <1>0, <4>1, <4>2, Exchange
        <4> QED
          BY <1>a, <1>n, <4>3
      <3>2. CASE req[h].app # a
        <4>1. ActiveOf(a)' \subseteq ActiveOf(a) /\ PastApp(a)' \subseteq PastApp(a)
          BY <1>0, <2>1, <2>3, <3>2 DEF ActiveOf
        <4> QED
          BY <1>0, <1>a, <1>n, <4>1, Shrink
      <3> QED
        BY <3>1, <3>2
    <2>5. Cardinality(ActiveOfUser(u)') + Cardinality(PastUser(u)') <= MaxPerUser + Others
      <3>1. CASE OwnerOf[req[h].app] = u
        <4>1. h \in PastUser(u) /\ ActiveOfUser(u)' \subseteq ActiveOfUser(u) \cup {t}
          BY <1>0, <2>1, <2>2, <3>1 DEF PastUser, At, ActiveOfUser
        <4>2. ActiveOfUser(u)' \in SUBSET (ActiveOfUser(u) \cup {t}) /\ PastUser(u)' \in SUBSET (PastUser(u) \ {h})
          BY <2>3, <4>1
        <4>3. Cardinality(ActiveOfUser(u)') + Cardinality(PastUser(u)')
                <= Cardinality(ActiveOfUser(u)) + Cardinality(PastUser(u))
          BY <1>0, <4>1, <4>2, Exchange
        <4> QED
          BY <1>a, <1>n, <4>3
      <3>2. CASE OwnerOf[req[h].app] # u
        <4>1. ActiveOfUser(u)' \subseteq ActiveOfUser(u) /\ PastUser(u)' \subseteq PastUser(u)
          BY <1>0, <2>1, <2>3, <3>2 DEF ActiveOfUser
        <4> QED
          BY <1>0, <1>a, <1>n, <4>1, Shrink
      <3> QED
        BY <3>1, <3>2
    <2> QED
      BY <2>4, <2>5
  <1>4. CASE ~\E h \in Handlers : IssueCountApp(h) \/ IssueCountUser(h) \/ IssueInsert(h)
    <2>1. /\ ActiveOf(a)' \subseteq ActiveOf(a) /\ ActiveOfUser(u)' \subseteq ActiveOfUser(u)
          /\ PastApp(a)' \subseteq PastApp(a) /\ PastUser(u)' \subseteq PastUser(u)
      BY <1>4, ElseFree DEF ActiveOf, ActiveOfUser, PastApp, PastUser, Issuing, At
    <2> QED
      BY <1>0, <1>a, <1>n, <2>1, Shrink DEF u
  <1> QED
    BY <1>1, <1>2, <1>3, <1>4 DEF u

\* The limits per application and per user are passed by at most one token for
\* each other request in progress (issue_pat).
THEOREM LimitsHold == HSpec => []TokensBounded
  <1>1. Places => TokensBounded
    <2> SUFFICES ASSUME Places, NEW a \in Apps
                 PROVE  /\ Cardinality(ActiveOf(a)) < MaxPerApp + Cardinality(Handlers)
                        /\ Cardinality(ActiveOfUser(OwnerOf[a])) < MaxPerUser + Cardinality(Handlers)
      BY DEF TokensBounded
    <2>1. /\ ActiveOf(a) \in SUBSET Tokens /\ ActiveOfUser(OwnerOf[a]) \in SUBSET Tokens
          /\ PastApp(a) \in SUBSET Handlers /\ PastUser(OwnerOf[a]) \in SUBSET Handlers
      BY DEF ActiveOf, ActiveOfUser, PastApp, PastUser
    <2> QED
      BY <2>1, Sizes, ApprovalAssumption DEF Places, Others
  <1> QED
    BY <1>1, InitPlaces, StepPlaces, AlwaysTyped, PTL DEF HSpec

-----------------------------------------------------------------------------
(* Decisions.                                                              *)

PendingUndecided ==
  \A a \in Apps : decisions[a] = 0 <=> (~Filed(a) \/ app[a].status = "PENDING")

\* Only ReviewRead makes a reviewer.
LEMMA ReviewersLeave ==
  ASSUME TypeInv, [HNext]_hvars, NEW a \in Apps,
         ~\E h \in Handlers : ReviewRead(h)
  PROVE  Reviewers(a)' \subseteq Reviewers(a)
  <1>0. req \in [Handlers -> Req]
    BY DEF TypeInv, HTypeOK, TypeOK
  <1>1. CASE \E h \in Handlers : Create(h) \/ Review(h) \/ Issue(h) \/ Delete(h) \/ Abort(h)
    <2>1. PICK h \in Handlers : Create(h) \/ Review(h) \/ Issue(h) \/ Delete(h) \/ Abort(h)
      BY <1>1
    <2>2. Reviewing(h, a)' => Reviewing(h, a)
      BY <1>0, <2>1
         DEF Create, CreateRead, CreateScopes, CreateInsert, Review, ReviewScopes,
             Approve, Reject, Issue, IssueRead, IssueCountApp, IssueCountUser,
             IssueInsert, Delete, DeleteRead, DeleteCheck, Unroute, Remove, Abort,
             Done, Become, Reviewing, At
    <2> QED
      BY <2>1, <2>2, HandlerMoves DEF Reviewers, Reviewing, TypeInv
  <1>2. CASE Other \/ UNCHANGED hvars
    BY <1>2 DEF Other, ChangeScopes, ChangeStatus, Withdraw, hvars, vars, Reviewers, Reviewing
  <1> QED
    BY <1>1, <1>2, StepKinds

\* What a decision does.
LEMMA DecideEffect ==
  ASSUME TypeInv, NEW h \in Handlers, Decide(h)
  PROVE  /\ Concerns(h) /\ h \in Reviewers(req[h].app)
         /\ app[req[h].app] \in Row
         /\ app'[req[h].app].status \in {"APPROVED", "REJECTED"}
         /\ \A a \in Apps \ {req[h].app} : app'[a] = app[a] /\ decisions'[a] = decisions[a]
         /\ decisions'[req[h].app] = decisions[req[h].app] + 1
         /\ req' = [req EXCEPT ![h] = [pc |-> "idle", app |-> None, scopes |-> {}]]
  <1>1. Concerns(h) /\ h \in Reviewers(req[h].app)
    BY DEF TypeInv, Concerned, Decide, Approve, Reject, At, Reviewers, Reviewing
  <1>2. app[req[h].app] \in Row /\ app \in [Apps -> Row \cup {None}]
        /\ decisions \in [Apps -> Nat]
    BY <1>1 DEF TypeInv, HTypeOK, TypeOK, Concerns, Filed
  <1>3. /\ app'[req[h].app].status \in {"APPROVED", "REJECTED"}
        /\ \A a \in Apps \ {req[h].app} : app'[a] = app[a]
    BY <1>1, <1>2 DEF Decide, Approve, Reject, Concerns, Row
  <1> QED
    BY <1>1, <1>2, <1>3 DEF Decide, Approve, Reject, Concerns, Done, Become

\* A step that is no decision writes none, and files at most a PENDING row.
LEMMA NoDecision ==
  ASSUME TypeInv, [HNext]_hvars, ~\E h \in Handlers : Decide(h)
  PROVE  /\ decisions' = decisions
         /\ \A a \in Apps :
              \/ app'[a] = app[a]
              \/ /\ ~Filed(a) /\ Filed(a)'
                 /\ app'[a].status = "PENDING" /\ app'[a].granted = {}
  <1>0. app \in [Apps -> Row \cup {None}]
    BY DEF TypeInv, HTypeOK, TypeOK
  <1>1. CASE \E h \in Handlers : Insert(h)
    <2>1. PICK h \in Handlers, b \in Apps :
            /\ ~Filed(b) /\ decisions' = decisions
            /\ app' = [app EXCEPT ![b] = [status |-> "PENDING", granted |-> {},
                                         requested |-> req[h].scopes]]
      BY <1>1 DEF Insert, CreateInsert
    <2>2. req[h].scopes \in SUBSET Scopes
      BY DEF TypeInv, HTypeOK, TypeOK, Req
    <2>3. app'[b] \in Row /\ app'[b].status = "PENDING" /\ app'[b].granted = {}
      BY <1>0, <2>1, <2>2 DEF Row
    <2>4. Filed(b)'
      BY <2>3, ApprovalAssumption DEF Filed
    <2> QED
      BY <1>0, <2>1, <2>3, <2>4
  <1>2. CASE ~\E h \in Handlers : Insert(h)
    BY <1>2 DEF HNext, GiveUp, Quiet, CreateRead, CreateScopes, ReviewRead, ReviewScopes,
                Issue, IssueRead, IssueCountApp, IssueCountUser, IssueInsert, Delete,
                DeleteRead, DeleteCheck, Unroute, Remove, Abort, Other, ChangeScopes,
                ChangeStatus, Withdraw, hvars, vars
  <1> QED
    BY <1>1, <1>2

LEMMA StepPending == TypeInv /\ PendingUndecided /\ [HNext]_hvars => PendingUndecided'
  <1> SUFFICES ASSUME TypeInv, PendingUndecided, [HNext]_hvars, NEW a \in Apps
               PROVE  (decisions[a] = 0)' <=> (~Filed(a) \/ app[a].status = "PENDING")'
    BY DEF PendingUndecided
  <1>0. decisions[a] \in Nat
    BY DEF TypeInv, HTypeOK
  <1>1. CASE \E h \in Handlers : Decide(h)
    <2>1. PICK h \in Handlers : Decide(h)
      BY <1>1
    <2>2. CASE req[h].app = a
      <3>1. Filed(a)'
        BY <2>1, <2>2, DecideEffect, FiledStays DEF TypeInv, Concerns
      <3> QED
        BY <1>0, <2>1, <2>2, <3>1, DecideEffect
    <2>3. CASE req[h].app # a
      BY <2>1, <2>3, DecideEffect DEF PendingUndecided, Filed
    <2> QED
      BY <2>2, <2>3
  <1>2. CASE ~\E h \in Handlers : Decide(h)
    BY <1>2, NoDecision DEF PendingUndecided, Filed
  <1> QED
    BY <1>1, <1>2

Decisive == PendingUndecided /\ DecisionsBounded

LEMMA InitDecisive == HInit => Decisive
  BY Sizes DEF HInit, Init, Decisive, PendingUndecided, DecisionsBounded, Filed

LEMMA StepDecisive == TypeInv /\ Decisive /\ [HNext]_hvars => Decisive'
  <1> SUFFICES ASSUME TypeInv, Decisive, [HNext]_hvars, NEW a \in Apps, decisions'[a] # 0
               PROVE  decisions'[a] + Cardinality(Reviewers(a)') <= Cardinality(Handlers)
    <2>1. Cardinality(Handlers) \in Nat
      BY Sizes
    <2>2. ASSUME NEW a \in Apps, decisions'[a] = 0
          PROVE  (decisions[a] + (IF decisions[a] = 0 THEN 0 ELSE Cardinality(Reviewers(a)))
                   <= Cardinality(Handlers))'
      BY <2>1, <2>2
    <2> QED
      BY <2>1, <2>2, StepPending DEF Decisive, DecisionsBounded
  <1>0. /\ decisions[a] \in Nat /\ Cardinality(Handlers) \in Nat
        /\ Reviewers(a) \in SUBSET Handlers /\ Reviewers(a)' \in SUBSET Handlers
        /\ IsFiniteSet(Reviewers(a))
        /\ Cardinality(Reviewers(a)) \in Nat /\ Cardinality(Reviewers(a)') \in Nat
        /\ Cardinality(Reviewers(a)) <= Cardinality(Handlers)
    BY Sizes, ApprovalAssumption, FS_Subset DEF TypeInv, HTypeOK, Reviewers
  <1>1. decisions[a] # 0 => decisions[a] + Cardinality(Reviewers(a)) <= Cardinality(Handlers)
    BY DEF Decisive, DecisionsBounded
  <1>2. Reviewers(a)' \subseteq Reviewers(a)
          => Cardinality(Reviewers(a)') <= Cardinality(Reviewers(a))
    BY <1>0, FS_Subset
  <1>3. CASE \E h \in Handlers : Decide(h) /\ req[h].app = a
    <2>1. PICK h \in Handlers : Decide(h) /\ req[h].app = a
      BY <1>3
    <2>2. h \in Reviewers(a) /\ decisions'[a] = decisions[a] + 1
      BY <2>1, DecideEffect
    <2>3. Reviewers(a)' \subseteq Reviewers(a) \ {h}
      BY <2>1, DecideEffect DEF TypeInv, HTypeOK, TypeOK, Reviewers, Reviewing
    <2>4. /\ Cardinality(Reviewers(a) \ {h}) = Cardinality(Reviewers(a)) - 1
          /\ IsFiniteSet(Reviewers(a) \ {h})
      BY <1>0, <2>2, FS_RemoveElement
    <2>5. Cardinality(Reviewers(a)') <= Cardinality(Reviewers(a)) - 1
      BY <2>3, <2>4, FS_Subset
    <2> QED
      BY <1>0, <1>1, <2>2, <2>5
  <1>4. CASE \E h \in Handlers : Decide(h) /\ req[h].app # a
    <2>1. PICK h \in Handlers : Decide(h) /\ req[h].app # a
      BY <1>4
    <2>2. decisions'[a] = decisions[a]
      BY <2>1, DecideEffect
    <2>3. Reviewers(a)' \subseteq Reviewers(a)
      BY <2>1, DecideEffect DEF TypeInv, HTypeOK, TypeOK, Reviewers, Reviewing
    <2> QED
      BY <1>0, <1>1, <1>2, <2>2, <2>3
  <1>5. CASE \E h \in Handlers : ReviewRead(h)
    <2>1. PICK h \in Handlers, b \in Apps, pc \in {"review", "reject"} :
            Filed(b) /\ app[b].status = "PENDING" /\ Become(h, pc, b, app[b].requested)
      BY <1>5 DEF ReviewRead
    <2>2. ~\E k \in Handlers : Decide(k)
      <3> SUFFICES ASSUME NEW k \in Handlers, Decide(k) PROVE FALSE
        OBVIOUS
      <3>1. req \in [Handlers -> Req]
        BY DEF TypeInv, HTypeOK, TypeOK
      <3>2. req'[h].pc # "idle"
        BY <2>1, <3>1 DEF Become
      <3>3. \A g \in Handlers : req'[g].pc = "idle" \/ req'[g] = req[g]
        BY <3>1, DecideEffect
      <3>4. req'[k].pc = "idle" /\ req[k].pc # "idle"
        BY <3>1, DecideEffect DEF Reviewers, Reviewing
      <3>5. req'[k].pc = "idle" => h # k
        BY <3>2
      <3>6. req'[k] = req[k]
        BY <2>1, <3>1, <3>4, <3>5 DEF Become
      <3> QED
        BY <3>4, <3>6
    <2>3. decisions' = decisions
      BY <2>2, NoDecision
    <2>4. a # b
      BY <2>1, <2>3 DEF Decisive, PendingUndecided
    <2>5. Reviewers(a)' \subseteq Reviewers(a)
      BY <2>1, <2>4 DEF Become, TypeInv, HTypeOK, TypeOK, Reviewers, Reviewing
    <2> QED
      BY <1>0, <1>1, <1>2, <2>3, <2>5
  <1>6. CASE /\ ~\E h \in Handlers : Decide(h)
             /\ ~\E h \in Handlers : ReviewRead(h)
    BY <1>0, <1>1, <1>2, <1>6, NoDecision, ReviewersLeave
  <1> QED
    BY <1>3, <1>4, <1>5, <1>6

LEMMA AlwaysDecisive == HSpec => [](TypeInv /\ Decisive)
  BY InitTypeInv, StepTypeInv, InitDecisive, StepDecisive, PTL DEF HSpec

\* Once an application is decided, its decisions and the reviews still in
\* progress are together no more than the requests there can be: no review that
\* begins later lands (patch_application).
THEOREM DecisionsSettle == HSpec => []DecisionsBounded
  <1>1. Decisive => DecisionsBounded
    BY DEF Decisive
  <1> QED
    BY <1>1, AlwaysDecisive, PTL

-----------------------------------------------------------------------------
(* From the scopes that are shown to the scopes of a token.                *)

Shown(a, S) == S \subseteq app[a].requested \cap shown[a]

\* What a decision on a left to its tokens: S, unless there was another.
Left(a, S) ==
  /\ Filed(a) /\ decisions[a] # 0 /\ Shown(a, S)
  /\ decisions[a] <= 1 => app[a].status = "APPROVED" /\ app[a].granted = S

Reviewed ==
  \A h \in Handlers :
    /\ At(h, "review")  => req[h].scopes = app[req[h].app].requested
    /\ At(h, "approve") => Shown(req[h].app, req[h].scopes)

Granted == \A a \in Apps : Filed(a) => Shown(a, app[a].granted)

Carried ==
  /\ \A h \in Handlers : req[h].pc \in {"countApp", "countUser", "issue"}
                           => Left(req[h].app, req[h].scopes)
  /\ \A t \in Tokens : pat[t] # None => Left(pat[t].app, pat[t].scopes)

ScopeInv == Decisive /\ Reviewed /\ Granted /\ Carried

\* What was shown stays shown.
LEMMA ShownStays ==
  ASSUME TypeInv, [HNext]_hvars, NEW a \in Apps, Filed(a), NEW S, Shown(a, S)
  PROVE  Shown(a, S)'
  <1>1. app'[a].requested = app[a].requested
    BY FiledStays DEF TypeInv
  <1>2. shown[a] \subseteq shown'[a]
    BY DEF HNext, hvars
  <1> QED
    BY <1>1, <1>2 DEF Shown

\* What a decision left stays, until there is another.
LEMMA LeftStays ==
  ASSUME TypeInv, [HNext]_hvars, NEW a \in Apps, NEW S, Left(a, S)
  PROVE  Left(a, S)'
  <1>0. decisions[a] \in Nat
    BY DEF TypeInv, HTypeOK
  <1>1. Filed(a) /\ Shown(a, S)
    BY DEF Left
  <1>2. Filed(a)' /\ Shown(a, S)'
    BY <1>1, FiledStays, ShownStays DEF TypeInv
  <1>3. CASE \E h \in Handlers : Decide(h)
    <2>1. PICK h \in Handlers : Decide(h)
      BY <1>3
    <2>2. CASE req[h].app = a
      BY <1>0, <1>2, <2>1, <2>2, DecideEffect DEF Left
    <2>3. CASE req[h].app # a
      BY <1>2, <2>1, <2>3, DecideEffect DEF Left
    <2> QED
      BY <2>2, <2>3
  <1>4. CASE ~\E h \in Handlers : Decide(h)
    BY <1>1, <1>2, <1>4, NoDecision DEF Left
  <1> QED
    BY <1>3, <1>4

LEMMA StepGranted == TypeInv /\ ScopeInv /\ [HNext]_hvars => Granted'
  <1> SUFFICES ASSUME TypeInv, ScopeInv, [HNext]_hvars, NEW a \in Apps, Filed(a)'
               PROVE  Shown(a, app[a].granted)'
    BY DEF Granted
  <1>1. Filed(a) => Shown(a, app[a].granted)
    BY DEF ScopeInv, Granted
  <1>2. Filed(a) /\ app'[a].granted = app[a].granted => Shown(a, app[a].granted)'
    <2> SUFFICES ASSUME Filed(a), app'[a].granted = app[a].granted
                 PROVE  Shown(a, app[a].granted)'
      OBVIOUS
    <2>1. PICK S : S = app[a].granted
      OBVIOUS
    <2>2. Shown(a, S)'
      BY <1>1, <2>1, ShownStays
    <2> QED
      BY <2>1, <2>2 DEF Shown
  <1>3. CASE \E h \in Handlers : Decide(h)
    <2>1. PICK h \in Handlers : Decide(h)
      BY <1>3
    <2>2. CASE req[h].app = a
      <3>0. Filed(a) /\ app[a] \in Row /\ app \in [Apps -> Row \cup {None}]
        BY <2>1, <2>2, DecideEffect DEF Concerns, TypeInv, HTypeOK, TypeOK
      <3>1. CASE Approve(h)
        <4>1. PICK S : S = req[h].scopes
          OBVIOUS
        <4>2. Shown(a, S)
          BY <2>2, <3>1, <4>1 DEF ScopeInv, Reviewed, Approve
        <4>3. app'[a].granted = S
          BY <2>2, <3>0, <3>1, <4>1 DEF Approve, Row
        <4>4. Shown(a, S)'
          BY <3>0, <4>2, ShownStays
        <4> QED
          BY <4>3, <4>4 DEF Shown
      <3>2. CASE Reject(h)
        BY <1>2, <2>2, <3>0, <3>2 DEF Reject, Row
      <3> QED
        BY <2>1, <3>1, <3>2 DEF Decide
    <2>3. CASE req[h].app # a
      BY <1>2, <2>1, <2>3, DecideEffect DEF Filed
    <2> QED
      BY <2>2, <2>3
  <1>4. CASE ~\E h \in Handlers : Decide(h)
    <2>1. CASE app'[a] = app[a]
      BY <1>2, <2>1 DEF Filed
    <2>2. CASE app'[a].granted = {}
      BY <2>2 DEF Shown
    <2> QED
      BY <1>4, <2>1, <2>2, NoDecision
  <1> QED
    BY <1>3, <1>4

\* A request that has just come to a place in a review or an issue.
LEMMA StepReviewed == TypeInv /\ ScopeInv /\ [HNext]_hvars => Reviewed'
  <1> SUFFICES ASSUME TypeInv, ScopeInv, [HNext]_hvars, NEW k \in Handlers,
                      req'[k].pc \in {"review", "approve"}
               PROVE  /\ At(k, "review")'  => req'[k].scopes = app'[req'[k].app].requested
                      /\ At(k, "approve")' => Shown(req[k].app, req[k].scopes)'
    BY DEF Reviewed, At
  <1>0. req \in [Handlers -> Req] /\ app \in [Apps -> Row \cup {None}]
    BY DEF TypeInv, HTypeOK, TypeOK
  <1>1. CASE req'[k] = req[k]
    <2>1. PICK a \in Apps, S \in {req[k].scopes} : a = req[k].app /\ Filed(a)
      BY <1>1 DEF TypeInv, Concerned, Concerns
    <2>2. app'[a].requested = app[a].requested
      BY <2>1, FiledStays DEF TypeInv
    <2>3. At(k, "approve") => Shown(a, S)'
      BY <2>1, ShownStays DEF ScopeInv, Reviewed
    <2> QED
      BY <1>1, <2>1, <2>2, <2>3 DEF At, ScopeInv, Reviewed, Shown
  <1>2. CASE req'[k] # req[k]
    <2>1. PICK h \in Handlers : Create(h) \/ Review(h) \/ Issue(h) \/ Delete(h) \/ Abort(h)
      BY <1>2, StepKinds DEF hvars, vars, Other, ChangeScopes, ChangeStatus, Withdraw
    <2>2. h = k
      BY <1>2, <2>1, HandlerMoves DEF TypeInv
    <2>3. ReviewRead(k) \/ ReviewScopes(k)
      BY <1>0, <2>1, <2>2
         DEF Create, CreateRead, CreateScopes, CreateInsert, Review,
             Approve, Reject, Issue, IssueRead, IssueCountApp, IssueCountUser,
             IssueInsert, Delete, DeleteRead, DeleteCheck, Unroute, Remove, Abort,
             Done, Become
    <2>4. CASE ReviewRead(k)
      <3>1. PICK b \in Apps, pc \in {"review", "reject"} : Become(k, pc, b, app[b].requested)
        BY <2>4 DEF ReviewRead
      <3>2. app' = app
        BY <2>4 DEF ReviewRead
      <3> QED
        BY <1>0, <3>1, <3>2 DEF Become, At
    <2>5. CASE ReviewScopes(k)
      <3>1. PICK a \in Apps : a = req[k].app /\ Filed(a) /\ req[k].pc = "review"
        BY <2>5 DEF ReviewScopes, At, TypeInv, Concerned, Concerns
      <3>2. req'[k] = [pc |-> "approve", app |-> a, scopes |-> req[k].scopes \cap published]
        <4>1. CASE req[k].scopes \cap published = {}
          <5>1. Done(k)
            BY <2>5, <4>1 DEF ReviewScopes
          <5>2. req'[k].pc = "idle"
            BY <1>0, <5>1 DEF Done, Become
          <5> QED
            BY <5>2
        <4>2. CASE req[k].scopes \cap published # {}
          <5>1. Become(k, "approve", a, req[k].scopes \cap published)
            BY <2>5, <3>1, <4>2 DEF ReviewScopes
          <5> QED
            BY <1>0, <5>1 DEF Become
        <4> QED
          BY <4>1, <4>2
      <3>3. app' = app /\ published' = published
        BY <2>5 DEF ReviewScopes
      <3>4. req[k].scopes = app[a].requested
        BY <3>1 DEF ScopeInv, Reviewed, At
      <3>5. k \in Reviewers(a)'
        BY <3>2 DEF Reviewers, Reviewing
      <3>6. published \subseteq shown'[a]
        BY <1>2, <3>3, <3>5 DEF HNext, hvars, vars
      <3> QED
        BY <3>2, <3>3, <3>4, <3>6 DEF At, Shown
    <2> QED
      BY <2>3, <2>4, <2>5
  <1> QED
    BY <1>1, <1>2

LEMMA StepCarried == TypeInv /\ ScopeInv /\ [HNext]_hvars => Carried'
  <1> SUFFICES ASSUME TypeInv, ScopeInv, [HNext]_hvars PROVE Carried'
    OBVIOUS
  <1>0. /\ req \in [Handlers -> Req] /\ pat \in [Tokens -> Pat \cup {None}]
        /\ Carried
    BY DEF TypeInv, HTypeOK, TypeOK, ScopeInv
  <1>1. ASSUME NEW k \in Handlers, req'[k].pc \in {"countApp", "countUser", "issue"}
        PROVE  Left(req[k].app, req[k].scopes)'
    <2>1. CASE /\ req[k].pc \in {"countApp", "countUser", "issue"}
               /\ req'[k].app = req[k].app /\ req'[k].scopes = req[k].scopes
      <3>1. PICK a \in Apps, S \in {req[k].scopes} : a = req[k].app /\ Left(a, S)
        BY <1>0, <2>1 DEF TypeInv, Concerned, Concerns, Carried
      <3>2. Left(a, S)'
        BY <3>1, LeftStays
      <3> QED
        BY <2>1, <3>1, <3>2 DEF Left, Shown, Filed
    <2>2. CASE ~(/\ req[k].pc \in {"countApp", "countUser", "issue"}
                 /\ req'[k].app = req[k].app /\ req'[k].scopes = req[k].scopes)
      <3>1. req'[k] # req[k]
        BY <1>1, <2>2
      <3>2. PICK h \in Handlers : Create(h) \/ Review(h) \/ Issue(h) \/ Delete(h) \/ Abort(h)
        BY <3>1, StepKinds DEF hvars, vars, Other, ChangeScopes, ChangeStatus, Withdraw
      <3>3. h = k
        BY <3>1, <3>2, HandlerMoves DEF TypeInv
      <3>4. IssueRead(k)
        BY <1>0, <1>1, <2>2, <3>2, <3>3
           DEF Create, CreateRead, CreateScopes, CreateInsert, Review, ReviewRead,
               ReviewScopes, Approve, Reject, Issue, IssueCountApp, IssueCountUser,
               IssueInsert, Delete, DeleteRead, DeleteCheck, Unroute, Remove, Abort,
               Done, Become, At
      <3>5. PICK a \in Apps : /\ Filed(a) /\ app[a].status = "APPROVED"
                              /\ \E S \in {app[a].granted} : Become(k, "countApp", a, S)
        BY <3>4 DEF IssueRead
      <3>s. PICK S \in {app[a].granted} : Become(k, "countApp", a, S)
        BY <3>5
      <3>6. Left(a, S)
        BY <3>5, <3>s DEF ScopeInv, Decisive, PendingUndecided, Granted, Left
      <3>7. Left(a, S)'
        BY <3>6, LeftStays
      <3>8. req'[k].app = a /\ req'[k].scopes = S
        BY <1>0, <3>s DEF Become
      <3> QED
        BY <3>7, <3>8 DEF Left, Shown, Filed
    <2> QED
      BY <2>1, <2>2
  <1>2. ASSUME NEW t \in Tokens, pat'[t] # None
        PROVE  Left(pat[t].app, pat[t].scopes)'
    <2>1. CASE pat'[t] = pat[t]
      <3>1. PICK a \in Apps, S \in {pat[t].scopes} : a = pat[t].app /\ Left(a, S)
        BY <1>0, <1>2, <2>1 DEF Pat, Carried
      <3>2. Left(a, S)'
        BY <3>1, LeftStays
      <3> QED
        BY <2>1, <3>1, <3>2 DEF Left, Shown, Filed
    <2>2. CASE pat'[t] # pat[t]
      <3>1. PICK h \in Handlers : IssueInsert(h)
        <4>1. CASE \E h \in Handlers : IssueCountApp(h) \/ IssueCountUser(h)
          BY <2>2, <4>1 DEF IssueCountApp, IssueCountUser
        <4> QED
          BY <1>2, <2>2, <4>1, ElseFree
      <3>2. PICK a \in Apps, S \in {req[h].scopes} : a = req[h].app /\ Left(a, S)
        BY <1>0, <3>1 DEF IssueInsert, At, TypeInv, Concerned, Concerns, Carried
      <3>3. pat'[t] = [app |-> a, scopes |-> S]
        BY <1>0, <2>2, <3>1, <3>2 DEF IssueInsert
      <3>4. Left(a, S)'
        BY <3>2, LeftStays
      <3> QED
        BY <3>3, <3>4 DEF Left, Shown, Filed
    <2> QED
      BY <2>1, <2>2
  <1> QED
    BY <1>1, <1>2 DEF Carried

LEMMA InitScopeInv == HInit => ScopeInv
  BY InitDecisive DEF HInit, Init, ScopeInv, Reviewed, Granted, Carried, Filed, At

LEMMA AlwaysScoped == HSpec => []ScopeInv
  <1>1. TypeInv /\ ScopeInv /\ [HNext]_hvars => ScopeInv'
    BY StepDecisive, StepReviewed, StepGranted, StepCarried DEF ScopeInv
  <1> QED
    BY <1>1, InitScopeInv, AlwaysTyped, PTL DEF HSpec

\* Unless an application was decided twice, its ACTIVE tokens have its approval
\* and carry just what it granted (patch_application, issue_pat).
THEOREM TokensFollowDecision == HSpec => []TokensAsDecided
  <1>1. ScopeInv => TokensAsDecided
    BY DEF ScopeInv, Carried, Left, TokensAsDecided
  <1> QED
    BY <1>1, AlwaysScoped, PTL

\* R-08, whatever overlapped: a token carries only scopes that were requested,
\* and published during a review (patch_application).
THEOREM OnlyShownScopes == HSpec => []ScopesWereShown
  <1>1. ScopeInv => ScopesWereShown
    BY DEF ScopeInv, Carried, Left, Shown, ScopesWereShown
  <1> QED
    BY <1>1, AlwaysScoped, PTL

-----------------------------------------------------------------------------
(* Deletion.                                                               *)

Overtaken ==
  /\ UsedIsRouted
  /\ (\E a \in Apps : Filed(a)) /\ (\E h \in Handlers : Deleting(h)) => cutShort

LEMMA InitOvertaken == HInit => Overtaken
  BY DEF HInit, Init, Overtaken, UsedIsRouted, Filed

\* The other steps of a request begin and end no deletion, and file nothing.
LEMMA Aside ==
  ASSUME TypeInv, NEW h \in Handlers,
         \/ Decide(h)
         \/ /\ UNCHANGED cutShort
            /\ \/ CreateRead(h) \/ CreateScopes(h) \/ ReviewRead(h) \/ ReviewScopes(h)
               \/ Issue(h) \/ DeleteRead(h)
  PROVE  /\ UNCHANGED <<api, routed, cutShort>>
         /\ \A k \in Handlers : At(k, "remove")' <=> At(k, "remove")
         /\ \A k \in Handlers : Deleting(k)' <=> Deleting(k)
         /\ \A a \in Apps : Filed(a)' => Filed(a)
  <1>0. req \in [Handlers -> Req]
    BY DEF TypeInv, HTypeOK, TypeOK
  <1>1. CASE Decide(h)
    <2>1. \A a \in Apps : Filed(a)' => Filed(a)
      BY <1>1, DecideEffect DEF Filed, Concerns
    <2>2. req[h].pc \notin {"unroute", "remove"}
      BY <1>1, DecideEffect DEF Reviewers, Reviewing
    <2>3. \A k \in Handlers : req'[k] = req[k] \/ (k = h /\ req'[k].pc = "idle")
      BY <1>0, <1>1, DecideEffect
    <2>4. UNCHANGED <<api, routed, cutShort>>
      BY <1>1 DEF Decide, Approve, Reject
    <2> QED
      BY <2>1, <2>2, <2>3, <2>4 DEF At, Deleting
  <1>2. CASE /\ UNCHANGED cutShort
             /\ \/ CreateRead(h) \/ CreateScopes(h) \/ ReviewRead(h) \/ ReviewScopes(h)
                \/ Issue(h) \/ DeleteRead(h)
    <2>1. /\ UNCHANGED <<api, routed, app>>
          /\ req[h].pc \notin {"unroute", "remove"}
      BY <1>2 DEF CreateRead, CreateScopes, ReviewRead, ReviewScopes, Issue, IssueRead,
                  IssueCountApp, IssueCountUser, IssueInsert, DeleteRead, At
    <2>2. \A k \in Handlers : req'[k] = req[k] \/ (k = h /\ req'[k].pc \notin {"unroute", "remove"})
      BY <1>0, <1>2 DEF CreateRead, CreateScopes, ReviewRead, ReviewScopes, Issue,
                        IssueRead, IssueCountApp, IssueCountUser, IssueInsert,
                        DeleteRead, Done, Become
    <2> QED
      BY <1>2, <2>1, <2>2 DEF At, Deleting, Filed
  <1> QED
    BY <1>1, <1>2

LEMMA StepOvertaken == TypeInv /\ Overtaken /\ [HNext]_hvars => Overtaken'
  <1> SUFFICES ASSUME TypeInv, Overtaken, [HNext]_hvars PROVE Overtaken'
    OBVIOUS
  <1>0. req \in [Handlers -> Req]
    BY DEF TypeInv, HTypeOK, TypeOK
  <1>1. ASSUME NEW h \in Handlers, Insert(h)
        PROVE  Overtaken'
    <2>1. \A k \in Handlers : Deleting(k)' => Deleting(k)
      BY <1>0, <1>1 DEF Insert, CreateInsert, Done, Become, Deleting, TypeInv, HTypeOK, TypeOK
    <2>2. \A k \in Handlers : At(k, "remove") => Deleting(k)
      BY DEF At, Deleting
    <2> QED
      BY <1>1, <2>1, <2>2 DEF Insert, CreateInsert, Overtaken, UsedIsRouted
  <1>2. ASSUME NEW h \in Handlers, GiveUp(h)
        PROVE  Overtaken'
    <2>1. \A k \in Handlers : \/ req'[k] = req[k]
                              \/ k = h /\ req'[k].pc = "idle"
      BY <1>2 DEF GiveUp, Abort, Done, Become, TypeInv, HTypeOK, TypeOK
    <2>2. /\ UNCHANGED <<api, routed, app>>
          /\ cutShort' = (cutShort \/ Deleting(h))
      BY <1>2 DEF GiveUp, Abort
    <2>3. \A k \in Handlers : At(k, "remove") => At(k, "remove")' \/ cutShort'
      BY <2>1, <2>2 DEF At, Deleting
    <2>4. \A k \in Handlers : Deleting(k)' => Deleting(k)
      BY <2>1 DEF Deleting
    <2> QED
      BY <2>2, <2>3, <2>4 DEF Overtaken, UsedIsRouted, Filed
  <1>3. ASSUME NEW h \in Handlers, Unroute(h), UNCHANGED cutShort
        PROVE  Overtaken'
    <2>1. At(h, "remove")' /\ Deleting(h) /\ UNCHANGED app
      BY <1>3 DEF Unroute, Become, At, Deleting, TypeInv, HTypeOK, TypeOK
    <2> QED
      BY <1>3, <2>1 DEF Overtaken, UsedIsRouted, Filed
  <1>4. ASSUME NEW h \in Handlers, Remove(h), UNCHANGED cutShort
        PROVE  Overtaken'
    <2>1. \A k \in Handlers : Deleting(k)' => Deleting(k)
      BY <1>4 DEF Remove, Done, Become, Deleting, TypeInv, HTypeOK, TypeOK
    <2>2. Deleting(h) /\ UNCHANGED <<routed, app>>
      BY <1>4 DEF Remove, At, Deleting
    <2>3. CASE \A a \in Apps : ~Filed(a)
      <3>1. api' # "PUBLISHED"
        BY <1>4, <2>3, ApprovalAssumption DEF Remove, ApiStatuses
      <3> QED
        BY <2>2, <2>3, <3>1 DEF Overtaken, UsedIsRouted, Filed
    <2>4. CASE \E a \in Apps : Filed(a)
      BY <1>4, <2>2, <2>4 DEF Overtaken, UsedIsRouted
    <2> QED
      BY <2>3, <2>4
  <1>5. ASSUME NEW h \in Handlers, DeleteCheck(h), UNCHANGED cutShort
        PROVE  Overtaken'
    <2>1. /\ \A a \in Apps : ~Filed(a)'
          /\ UNCHANGED <<api, routed>>
      BY <1>5 DEF DeleteCheck, Filed
    <2>2. \A k \in Handlers : At(k, "remove") => At(k, "remove")'
      BY <1>5 DEF DeleteCheck, Become, At, TypeInv, HTypeOK, TypeOK
    <2> QED
      BY <1>5, <2>1, <2>2 DEF Overtaken, UsedIsRouted
  <1>6. ASSUME NEW h \in Handlers,
               \/ Decide(h)
               \/ /\ UNCHANGED cutShort
                  /\ \/ CreateRead(h) \/ CreateScopes(h) \/ ReviewRead(h)
                     \/ ReviewScopes(h) \/ Issue(h) \/ DeleteRead(h)
        PROVE  Overtaken'
    BY <1>6, Aside DEF Overtaken, UsedIsRouted
  <1>7. CASE (Other /\ UNCHANGED cutShort) \/ UNCHANGED hvars
    BY <1>7 DEF Other, ChangeScopes, ChangeStatus, Withdraw, hvars, vars, Overtaken,
                UsedIsRouted, Filed, Deleting, At
  <1> QED
    BY <1>1, <1>2, <1>3, <1>4, <1>5, <1>6, <1>7 DEF HNext, Quiet, Delete

\* A PUBLISHED API is without routes only while it is being deleted, or after an
\* application overtook its deletion or the request died (delete_api).
THEOREM UsedStaysRouted == HSpec => []UsedIsRouted
  <1>1. Overtaken => UsedIsRouted
    BY DEF Overtaken
  <1> QED
    BY <1>1, InitOvertaken, StepOvertaken, AlwaysTyped, PTL DEF HSpec
=============================================================================
