-------------------------- MODULE PatHistoryProofs --------------------------
(* Proofs about the token life cycle, for every number of tokens, handlers *)
(* and requests.                                                           *)
EXTENDS PatHistory, TLAPS

\* The initial state has the right type.
LEMMA InitTyped == HInit => HTypeOK
  BY DataAssumption, BoundAssumption
  DEF HInit, Init, HTypeOK, TypeOK, Coroutine, Fields, Idle, Pcs, Call, NoCall, Statuses

USE DEF pg, redis

\* The part of the type invariant that is about the coroutines.
JobOK == job \in [Handlers -> Coroutine]

\* The three ways an action updates a coroutine keep the coroutines' type.
LEMMA EndTyped ==
  ASSUME JobOK, NEW h \in Handlers, End(h)
  PROVE  JobOK'
<1>1. Idle \in Coroutine
  BY DEF Idle, Coroutine, Fields, Pcs
<1> QED
  BY <1>1 DEF End, JobOK

\* The pcs at which a coroutine need hold no quota.
Quiet == Pcs \ {"exists", "hset", "fill"}

\* A coroutine that walks on keeps its type, if the pc it walks to needs no
\* quota or it holds one, and it has tokens to drop only at its drops.
LEMMA WalkTyped ==
  ASSUME JobOK, NEW h \in Handlers, NEW pc \in Pcs,
         NEW ids \in SUBSET Tokens, NEW todo \in SUBSET Tokens,
         Walk(h, pc, ids, todo),
         pc \in Quiet \/ job[h].pc = "exists",
         pc \in {"drop", "sweep"} \/ todo = {},
         job[h].op # "none"
  PROVE  JobOK'
<1>1. [op |-> job[h].op, pc |-> pc, ids |-> ids, todo |-> todo,
       quota |-> job[h].quota, req |-> job[h].req] \in Coroutine
  BY DEF JobOK, Coroutine, Fields, Quiet
<1> QED
  BY <1>1 DEF Walk, JobOK

\* So does one that only changes its pc.
LEMMA GoTyped ==
  ASSUME JobOK, NEW h \in Handlers, NEW pc \in Pcs, Go(h, pc),
         pc \in Quiet \/ job[h].pc = "exists",
         job[h].pc \notin {"drop", "sweep"},
         job[h].op # "none"
  PROVE  JobOK'
<1>1. job[h].ids \in SUBSET Tokens /\ job[h].todo \in SUBSET Tokens
      /\ job[h].todo = {}
  BY DEF JobOK, Coroutine, Fields
<1> QED
  BY <1>1, WalkTyped DEF Go

\* So does one that begins.
LEMMA BeginTyped ==
  ASSUME JobOK, NEW h \in Handlers, NEW op \in AllOps, NEW pc \in Pcs,
         NEW ids \in SUBSET Tokens, NEW todo \in SUBSET Tokens,
         NEW q \in Quotas \cup {NoQuota}, NEW r \in Requests \cup {NoReq},
         Begin(h, op, pc, ids, todo, q, r),
         pc \in {"exists", "hset", "fill"} => q \in Quotas,
         pc \in {"drop", "sweep"} \/ todo = {}
  PROVE  JobOK'
<1>1. [op |-> op, pc |-> pc, ids |-> ids, todo |-> todo, quota |-> q,
       req |-> r] \in Coroutine
  BY DEF Coroutine, Fields, AllOps
<1> QED
  BY <1>1 DEF Begin, JobOK

\* A step of the issuing coroutine keeps the types.
LEMMA IssueTyped ==
  ASSUME TypeOK, NEW h \in Handlers, Issue(h)
  PROVE  TypeOK'
<1> USE DEF TypeOK, JobOK
<1>1. CASE \E t \in Tokens : IssueCountApp(h, t)
  <2>1. JobOK'
    BY <1>1, BeginTyped DEF IssueCountApp, AllOps, Pcs
  <2> QED
    BY <1>1, <2>1 DEF IssueCountApp
<1>2. CASE \E t \in Tokens : IssueCountUser(h, t)
  <2>1. JobOK'
    BY <1>2, EndTyped, GoTyped DEF IssueCountUser, At, Pcs, Quiet
  <2> QED
    BY <1>2, <2>1 DEF IssueCountUser
<1>3. CASE \E t \in Tokens : IssueInsert(h, t)
  <2>1. JobOK'
    <3>1. PICK t \in Tokens : IssueInsert(h, t)
      BY <1>3
    <3>2. {t} \in SUBSET Tokens /\ {} \in SUBSET Tokens
      OBVIOUS
    <3>3. Walk(h, "cache", {t}, {}) /\ job[h].op # "none"
      BY <3>1 DEF IssueInsert, At
    <3> QED
      BY <3>2, <3>3, WalkTyped DEF Pcs, Quiet
  <2> QED
    BY <1>3, <2>1, DataAssumption DEF IssueInsert, Statuses
<1>4. CASE \E t \in Tokens : IssueCache(h, t)
  <2>1. JobOK'
    BY <1>4, GoTyped DEF IssueCache, At, Pcs, Quiet
  <2> QED
    BY <1>4, <2>1, DataAssumption DEF IssueCache, Entry
<1>5. CASE IssueAudit(h)
  <2>1. JobOK'
    BY <1>5, EndTyped DEF IssueAudit
  <2> QED
    BY <1>5, <2>1 DEF IssueAudit
<1> QED
  BY <1>1, <1>2, <1>3, <1>4, <1>5 DEF Issue

\* A step of a coroutine that revokes keeps the types.
LEMMA RevokeTyped ==
  ASSUME TypeOK, NEW h \in Handlers, Revoke(h)
  PROVE  TypeOK'
<1> USE DEF TypeOK, JobOK
<1>1. CASE \E t \in Tokens : RevokeUpdate(h, t)
  <2>1. JobOK'
    BY <1>1, BeginTyped DEF RevokeUpdate, AllOps, Pcs
  <2> QED
    BY <1>1, <2>1 DEF RevokeUpdate, Statuses
<1>2. CASE \E t \in Tokens : EventSelect(h, t)
  <2>1. JobOK'
    <3>1. PICK t \in Tokens : EventSelect(h, t)
      BY <1>2
    <3> DEFINE ids == {u \in Tokens : OwnerOf[u] = OwnerOf[t] /\ Live(u)}
    <3>2. ids \in SUBSET Tokens /\ {} \in SUBSET Tokens
      OBVIOUS
    <3>3. Begin(h, "event", "update", ids, {}, NoQuota, NoReq)
      BY <3>1 DEF EventSelect
    <3> HIDE DEF ids
    <3> QED
      BY <3>2, <3>3, BeginTyped DEF AllOps, Pcs
  <2> QED
    BY <1>2, <2>1 DEF EventSelect
<1>3. CASE \E t \in Tokens : Drop(h, t)
  <2>1. JobOK'
    <3>1. PICK t \in Tokens : Drop(h, t)
      BY <1>3
    <3>2. AfterDrop(h, t) \in Pcs \cap Quiet
      BY DEF AfterDrop, Pcs, Quiet
    <3> DEFINE left == job[h].todo \ {t}
    <3>3. job[h].ids \in SUBSET Tokens /\ left \in SUBSET Tokens
      BY DEF Coroutine, Fields
    <3>4. Walk(h, AfterDrop(h, t), job[h].ids, left)
      BY <3>1 DEF Drop
    <3>5. /\ job[h].op # "none"
          /\ AfterDrop(h, t) \in {"drop", "sweep"} \/ left = {}
      BY <3>1 DEF Drop, AfterDrop, Coroutine
    <3> HIDE DEF left
    <3> QED
      BY <3>2, <3>3, <3>4, <3>5, WalkTyped
  <2> QED
    BY <1>3, <2>1 DEF Drop
<1>4. CASE \E ids \in SUBSET Tokens : BulkSelect(h, ids)
  <2>1. JobOK'
    BY <1>4, BeginTyped DEF BulkSelect, AllOps, Pcs
  <2> QED
    BY <1>4, <2>1 DEF BulkSelect
<1>5. CASE BulkUpdate(h)
  <2>1. JobOK'
    <3>1. job[h].ids \in SUBSET Tokens
      BY DEF Coroutine, Fields
    <3>2. Walk(h, "drop", job[h].ids, job[h].ids)
      BY <1>5 DEF BulkUpdate
    <3>3. job[h].op # "none"
      BY <1>5 DEF BulkUpdate, At
    <3> QED
      BY <3>1, <3>2, <3>3, WalkTyped DEF Pcs, Quiet
  <2> QED
    BY <1>5, <2>1 DEF BulkUpdate, Statuses
<1>6. CASE EventUpdate(h)
  <2>1. JobOK'
    <3>1. job[h].ids \in SUBSET Tokens
      BY DEF Coroutine, Fields
    <3>2. Walk(h, "drop", job[h].ids, job[h].ids)
      BY <1>6 DEF EventUpdate
    <3>3. job[h].op # "none"
      BY <1>6 DEF EventUpdate, At
    <3> QED
      BY <3>1, <3>2, <3>3, WalkTyped DEF Pcs, Quiet
  <2> QED
    BY <1>6, <2>1 DEF EventUpdate, Statuses
<1>7. CASE RevokeAudit(h)
  <2>1. JobOK'
    BY <1>7, EndTyped DEF RevokeAudit
  <2> QED
    BY <1>7, <2>1 DEF RevokeAudit, Coroutine, Fields
<1> QED
  BY <1>1, <1>2, <1>3, <1>4, <1>5, <1>6, <1>7 DEF Revoke

\* A step of a batch job keeps the types.
LEMMA BatchTyped ==
  ASSUME TypeOK, NEW h \in Handlers, Batch(h)
  PROVE  TypeOK'
<1> USE DEF TypeOK, JobOK
<1>1. CASE \E op \in BatchOps : BatchLock(h, op)
  <2>1. JobOK'
    <3>1. PICK op \in AllOps : Begin(h, op, "select", {}, {}, NoQuota, NoReq)
      BY <1>1 DEF BatchLock, BatchOps, AllOps
    <3> QED
      BY <3>1, BeginTyped DEF Pcs
  <2> QED
    BY <1>1, <2>1 DEF BatchLock
<1>2. CASE \E ids \in SUBSET Tokens : BatchSelect(h, ids)
  <2>1. JobOK'
    BY <1>2, WalkTyped DEF BatchSelect, BatchOps, Pcs, Quiet
  <2> QED
    BY <1>2, <2>1 DEF BatchSelect
<1>3. CASE \E t \in Tokens : BatchUpdate(h, t)
  <2>1. JobOK'
    <3>1. PICK t \in Tokens : BatchUpdate(h, t)
      BY <1>3
    <3> DEFINE left == job[h].ids \ {t}
    <3>2. left \in SUBSET Tokens /\ {t} \in SUBSET Tokens
      BY DEF Coroutine, Fields
    <3>3. Walk(h, "drop", left, {t})
      BY <3>1 DEF BatchUpdate
    <3>4. job[h].op # "none"
      BY <3>1 DEF BatchUpdate, BatchOps
    <3> HIDE DEF left
    <3> QED
      BY <3>2, <3>3, <3>4, WalkTyped DEF Pcs, Quiet
  <2> QED
    BY <1>3, <2>1 DEF BatchUpdate, BatchStatus, Statuses
<1>4. CASE BatchFinish(h)
  <2>1. JobOK'
    BY <1>4, EndTyped DEF BatchFinish
  <2> QED
    BY <1>4, <2>1 DEF BatchFinish
<1> QED
  BY <1>1, <1>2, <1>3, <1>4 DEF Batch

\* What the fallback and a change make of a quota is one.
LEMMA QuotaValues ==
  /\ \A q \in Quotas : Filled(q) \in Quotas
  /\ \A q, c \in Quotas : /\ WithBurst(q, c) \in Quotas
                           /\ WithBurst(q, c)["burst"] = c["burst"]
                           /\ WithBurst(q, c)["rest"] = q["rest"]
  /\ DefaultQuota \in Quotas /\ Changed \subseteq Quotas
<1>1. ASSUME NEW q \in Quotas
      PROVE  Filled(q) \in Quotas
  <2>1. \A l \in Limits : q[l] \in Values /\ DefaultQuota[l] \in Values
    BY DataAssumption DEF Quotas
  <2> QED
    BY <2>1 DEF Filled, Quotas
<1>2. ASSUME NEW q \in Quotas, NEW c \in Quotas
      PROVE  /\ WithBurst(q, c) \in Quotas
             /\ WithBurst(q, c)["burst"] = c["burst"]
             /\ WithBurst(q, c)["rest"] = q["rest"]
  BY DEF WithBurst, Quotas, Limits
<1> QED
  BY <1>1, <1>2, DataAssumption

\* A step of a quota change keeps the types.
LEMMA QuotaTyped ==
  ASSUME TypeOK, NEW h \in Handlers, Quota(h)
  PROVE  TypeOK'
<1> USE DEF TypeOK, JobOK
<1>1. CASE \E t \in Tokens, q \in Changed : QuotaUpdate(h, t, q)
  <2>1. PICK t \in Tokens, q \in Changed : QuotaUpdate(h, t, q)
    BY <1>1
  <2>2. q \in Quotas /\ WithBurst(DefaultQuota, q) \in Quotas
    BY QuotaValues
  <2>3. ASSUME Begin(h, "quota", "exists", {t}, {}, WithBurst(DefaultQuota, q), NoReq)
        PROVE  JobOK'
    <3> DEFINE c == WithBurst(DefaultQuota, q)
    <3>1. c \in Quotas /\ Begin(h, "quota", "exists", {t}, {}, c, NoReq)
      BY <2>2, <2>3
    <3> HIDE DEF c
    <3> QED
      BY <3>1, BeginTyped DEF AllOps, Pcs
  <2>4. JobOK'
    BY <2>1, <2>3 DEF QuotaUpdate
  <2> QED
    BY <2>1, <2>2, <2>4 DEF QuotaUpdate
<1>2. CASE \E t \in Tokens : QuotaExists(h, t)
  <2>1. JobOK'
    <3>1. job[h].pc = "exists" /\ job[h].op # "none"
      BY <1>2 DEF QuotaExists, At
    <3>2. CASE Go(h, "hset")
      BY <3>1, <3>2, GoTyped DEF Pcs
    <3>3. CASE End(h)
      BY <3>3, EndTyped
    <3> QED
      BY <1>2, <3>2, <3>3 DEF QuotaExists
  <2> QED
    BY <1>2, <2>1 DEF QuotaExists
<1>3. CASE \E t \in Tokens : QuotaHset(h, t)
  <2>1. JobOK'
    BY <1>3, EndTyped DEF QuotaHset
  <2> QED
    <3>1. PICK t \in Tokens : QuotaHset(h, t)
      BY <1>3
    <3>2. job[h].quota \in Quotas
      BY <3>1 DEF QuotaHset, At, Coroutine
    <3> DEFINE kept == WithBurst(cache[t].quota, job[h].quota)
               bare == WithBurst(DefaultQuota, job[h].quota)
    <3>3. (cache[t] # NoEntry => kept \in Quotas) /\ bare \in Quotas
      BY <3>2, QuotaValues DEF Entry
    <3>4. cache' = [cache EXCEPT ![t] =
                      IF Cached(t) THEN [@ EXCEPT !.quota = kept]
                      ELSE [full |-> FALSE, ttl |-> FALSE, quota |-> bare]]
      BY <3>1 DEF QuotaHset
    <3> HIDE DEF kept, bare
    <3>5. cache' \in [Tokens -> Entry \cup {NoEntry}]
      BY <3>3, <3>4 DEF Cached, Entry
    <3> QED
      BY <3>1, <2>1, <3>5 DEF QuotaHset
<1> QED
  BY <1>1, <1>2, <1>3 DEF Quota

\* A step of the fallback handler keeps the types.
LEMMA GetMetaTyped ==
  ASSUME TypeOK, NEW h \in Handlers, GetMeta(h)
  PROVE  TypeOK'
<1> USE DEF TypeOK, JobOK
<1>1. CASE \E r \in Requests : GetMetaSelect(h, r)
  <2>1. PICK r \in Requests : GetMetaSelect(h, r)
    BY <1>1
  <2>2. req' \in [Requests -> Call]
    BY <2>1 DEF GetMetaSelect, Call, NoCall
  <2>3. JobOK'
    <3>1. CASE Live(req[r].tok)
      <4> DEFINE t == req[r].tok
                 q == Filled(quotaRow[t])
      <4>1. t \in Tokens
        BY <2>1 DEF GetMetaSelect, Call, NoCall
      <4>2. q \in Quotas /\ {t} \in SUBSET Tokens /\ {} \in SUBSET Tokens
        BY <4>1, QuotaValues
      <4>3. Begin(h, "getmeta", "fill", {t}, {}, q, r)
        BY <2>1, <3>1 DEF GetMetaSelect
      <4> HIDE DEF t, q
      <4> QED
        BY <4>2, <4>3, BeginTyped DEF AllOps, Pcs
    <3>2. CASE ~Live(req[r].tok)
      BY <2>1, <3>2 DEF GetMetaSelect
    <3> QED
      BY <3>1, <3>2
  <2> QED
    BY <2>1, <2>2, <2>3 DEF GetMetaSelect
<1>2. CASE \E t \in Tokens : GetMetaFill(h, t)
  <2>1. PICK t \in Tokens : GetMetaFill(h, t)
    BY <1>2
  <2>2. JobOK'
    BY <2>1, EndTyped DEF GetMetaFill
  <2>3. job[h].quota \in Quotas
    BY <2>1 DEF GetMetaFill, At, Coroutine
  <2>4. cache' \in [Tokens -> Entry \cup {NoEntry}]
    BY <2>1, <2>3 DEF GetMetaFill, Entry
  <2>5. req' \in [Requests -> Call]
    BY <2>1 DEF GetMetaFill, Call, NoCall
  <2> QED
    BY <2>1, <2>2, <2>4, <2>5 DEF GetMetaFill
<1> QED
  BY <1>1, <1>2 DEF GetMeta

\* A step of the gateway keeps the types.
LEMMA GatewayTyped ==
  ASSUME TypeOK, Gateway
  PROVE  TypeOK'
<1> USE DEF TypeOK, JobOK
<1>1. PICK r \in Requests :
        \/ \E t \in Tokens : GwStart(r, t)
        \/ GwRedisDown(r) \/ GwHit(r) \/ GwMiss(r) \/ GwNeg(r)
        \/ GwFetchFailed(r) \/ GwFetched(r) \/ GwDone(r)
  BY DEF Gateway
<1>2. CASE \E t \in Tokens : GwStart(r, t)
  BY <1>2 DEF GwStart, Call, NoCall
<1>3. CASE GwRedisDown(r)
  BY <1>3 DEF GwRedisDown, Call, NoCall
<1>4. CASE GwHit(r)
  BY <1>4 DEF GwHit, Call, NoCall
<1>5. CASE GwMiss(r)
  BY <1>5 DEF GwMiss, Call, NoCall
<1>6. CASE GwNeg(r)
  BY <1>6 DEF GwNeg, Call, NoCall
<1>7. CASE GwFetchFailed(r)
  <2>1. JobOK'
    <3>1. \A h \in Handlers : job'[h] \in Coroutine
      BY <1>7 DEF GwFetchFailed, Coroutine, Fields
    <3> QED
      BY <1>7, <3>1 DEF GwFetchFailed
  <2>2. neg' \subseteq Tokens
    BY <1>7 DEF GwFetchFailed, Call, NoCall
  <2> QED
    BY <1>7, <2>1, <2>2 DEF GwFetchFailed, Call, NoCall
<1>8. CASE GwFetched(r)
  BY <1>8 DEF GwFetched, Call, NoCall
<1>9. CASE GwDone(r)
  BY <1>9 DEF GwDone, Call, NoCall
<1> QED
  BY <1>1, <1>2, <1>3, <1>4, <1>5, <1>6, <1>7, <1>8, <1>9

\* A step of time, of Redis or of a failure keeps the types.
LEMMA EnvironmentTyped ==
  ASSUME TypeOK, Environment
  PROVE  TypeOK'
<1> USE DEF TypeOK, JobOK
<1>1. CASE \E t \in Tokens : Expire(t) \/ CacheTtl(t) \/ NegTtl(t) \/ Evict(t)
  BY <1>1 DEF Expire, CacheTtl, NegTtl, Evict
<1>2. CASE \E op \in BatchOps : LockTtl(op)
  BY <1>2 DEF LockTtl
<1>3. CASE \E h \in Handlers : Raise(h)
  <2>1. JobOK'
    BY <1>3, EndTyped DEF Raise
  <2> QED
    BY <1>3, <2>1, BoundAssumption DEF Raise
<1>4. CASE Crash
  <2>1. Idle \in Coroutine
    BY DEF Idle, Coroutine, Fields, Pcs
  <2> QED
    BY <1>4, <2>1, BoundAssumption DEF Crash
<1> QED
  BY <1>1, <1>2, <1>3, <1>4 DEF Environment

\* Every step of the system keeps the types.
LEMMA NextTyped ==
  ASSUME TypeOK, Next
  PROVE  TypeOK'
  BY IssueTyped, RevokeTyped, BatchTyped, QuotaTyped, GetMetaTyped,
     GatewayTyped, EnvironmentTyped
  DEF Next, Portal

\* Type correctness: whatever coroutines, calls, evictions and failures do,
\* the state and its history keep their types.
THEOREM TypeCorrect == HSpec => []HTypeOK
<1>1. HTypeOK /\ [HNext]_hvars => HTypeOK'
  <2> SUFFICES ASSUME HTypeOK, [HNext]_hvars
               PROVE  HTypeOK'
    OBVIOUS
  <2>1. CASE HNext
    BY <2>1, NextTyped
    DEF HNext, HTypeOK, RacedNext, UnauditedNext, BegunNext, SkewedNext
  <2>2. CASE UNCHANGED hvars
    BY <2>2 DEF hvars, vars, HTypeOK, TypeOK
  <2> QED
    BY <2>1, <2>2
<1> QED
  BY InitTyped, <1>1, PTL DEF HSpec

-----------------------------------------------------------------------------
(* A dead token gains no copy, and a drop leaves copies only to those who   *)
(* hold one.                                                               *)

Holds(c, t) == /\ t \in c.ids
               /\ \/ c.op = "issue" /\ c.pc = "cache"
                  \/ c.op = "getmeta" /\ c.pc = "fill"

\* A step that changes one coroutine so that it does not come to hold t, and
\* does not lose t from its drops, adds no holder and takes no drop away.
LEMMA OneCoroutine ==
  ASSUME JobOK, NEW h \in Handlers, NEW c, NEW t \in Tokens,
         job' = [job EXCEPT ![h] = c],
         ~Holds(c, t),
         t \in job[h].todo => t \in c.todo
  PROVE  (Holding(t)' => Holding(t)) /\ ~Leaves(t)
  BY DEF JobOK, Holding, Holds, Leaves

\* A coroutine that ends adds no holder of t.
LEMMA EndHolds ==
  ASSUME JobOK, NEW h \in Handlers, NEW t \in Tokens, End(h),
         job[h].pc \notin {"drop", "sweep"}
  PROVE  (Holding(t)' => Holding(t)) /\ ~Leaves(t)
<1>1. ~Holds(Idle, t) /\ t \notin job[h].todo
  BY DEF Holds, Idle, JobOK, Coroutine
<1> QED
  BY <1>1, OneCoroutine DEF End

\* Nor does one that walks on, unless it walks to the cache write of an issue
\* or of a fallback; it leaves t only if t is no longer among its drops.
LEMMA WalkHolds ==
  ASSUME JobOK, NEW h \in Handlers, NEW t \in Tokens, NEW pc, NEW ids, NEW todo,
         Walk(h, pc, ids, todo),
         pc \notin {"cache", "fill"},
         t \in job[h].todo => t \in todo
  PROVE  (Holding(t)' => Holding(t)) /\ ~Leaves(t)
<1> DEFINE c == [op |-> job[h].op, pc |-> pc, ids |-> ids, todo |-> todo,
                 quota |-> job[h].quota, req |-> job[h].req]
<1>1. ~Holds(c, t) /\ (t \in job[h].todo => t \in c.todo)
  BY DEF Holds
<1>2. job' = [job EXCEPT ![h] = c]
  BY DEF Walk
<1> HIDE DEF c
<1> QED
  BY <1>1, <1>2, OneCoroutine

\* Nor does one that begins, unless it begins at such a write of t.
LEMMA BeginHolds ==
  ASSUME JobOK, NEW h \in Handlers, NEW t \in Tokens, NEW op, NEW pc, NEW ids,
         NEW todo, NEW q, NEW r,
         Begin(h, op, pc, ids, todo, q, r),
         job[h].op = "none",
         pc \in {"cache", "fill"} => t \notin ids
  PROVE  (Holding(t)' => Holding(t)) /\ ~Leaves(t)
<1> DEFINE c == [op |-> op, pc |-> pc, ids |-> ids, todo |-> todo,
                 quota |-> q, req |-> r]
<1>1. ~Holds(c, t)
  BY DEF Holds
<1>2. t \notin job[h].todo
  BY DEF JobOK, Coroutine
<1>3. job' = [job EXCEPT ![h] = c]
  BY DEF Begin
<1> HIDE DEF c
<1> QED
  BY <1>1, <1>2, <1>3, OneCoroutine

\* What is wanted of every step, for a token that is dead before it.
\* A step gives t no new holder, makes its entry full only from a copy it had,
\* and removes the entry when it drops it.
Harmless(t) == /\ Holding(t)' => Holding(t)
               /\ FullEntry(t)' => Copy(t)
               /\ Dropped(t) => ~FullEntry(t)'

\* Issuing a token is harmless to one that is dead: it is another token.
LEMMA IssueHarmless ==
  ASSUME TypeOK, NEW t \in Tokens, Dead(t), NEW h \in Handlers, Issue(h)
  PROVE  Harmless(t)
<1>0. JobOK
  BY DEF TypeOK, JobOK
<1>1. CASE \E u \in Tokens : IssueCountApp(h, u)
  <2>1. (Holding(t)' => Holding(t)) /\ ~Leaves(t)
    BY <1>0, <1>1, BeginHolds DEF IssueCountApp, Starts
  <2> QED
    BY <1>1, <2>1 DEF IssueCountApp, Harmless, Dropped, FullEntry, Cached, Copy
<1>2. CASE \E u \in Tokens : IssueCountUser(h, u)
  <2>1. job[h].pc = "countUser" /\ (End(h) \/ Go(h, "insert"))
    BY <1>2 DEF IssueCountUser, At
  <2>2. (Holding(t)' => Holding(t)) /\ ~Leaves(t)
    BY <1>0, <2>1, EndHolds, WalkHolds DEF Go
  <2> QED
    BY <1>2, <2>2 DEF IssueCountUser, Harmless, Dropped, FullEntry, Cached, Copy
<1>3. CASE \E u \in Tokens : IssueInsert(h, u)
  <2>1. PICK u \in Tokens : IssueInsert(h, u)
    BY <1>3
  <2> DEFINE c == [op |-> job[h].op, pc |-> "cache", ids |-> {u}, todo |-> {},
                   quota |-> job[h].quota, req |-> job[h].req]
  <2>2. ~Holds(c, t)
    BY <2>1 DEF IssueInsert, Dead, Absent, Holds
  <2>3. t \notin job[h].todo
    BY <1>0, <2>1 DEF IssueInsert, At, JobOK, Coroutine
  <2>4. job' = [job EXCEPT ![h] = c]
    BY <2>1 DEF IssueInsert, Walk
  <2> HIDE DEF c
  <2>5. (Holding(t)' => Holding(t)) /\ ~Leaves(t)
    BY <1>0, <2>2, <2>3, <2>4, OneCoroutine
  <2> QED
    BY <2>1, <2>5 DEF IssueInsert, Harmless, Dropped, FullEntry, Cached, Copy
<1>4. CASE \E u \in Tokens : IssueCache(h, u)
  <2>1. PICK u \in Tokens : IssueCache(h, u)
    BY <1>4
  <2>2. (Holding(t)' => Holding(t)) /\ ~Leaves(t)
    <3>1. job[h].pc = "cache" /\ Go(h, "audit")
      BY <2>1 DEF IssueCache, At
    <3> QED
      BY <1>0, <3>1, WalkHolds DEF Go
  <2>3. t # u => (FullEntry(t)' => FullEntry(t))
    BY <2>1 DEF IssueCache, TypeOK, FullEntry, Cached
  <2>4. t = u => Holding(t)
    BY <2>1 DEF IssueCache, At, Holding
  <2> QED
    BY <2>2, <2>3, <2>4 DEF Harmless, Dropped, Copy
<1>5. CASE IssueAudit(h)
  <2>1. (Holding(t)' => Holding(t)) /\ ~Leaves(t)
    BY <1>0, <1>5, EndHolds DEF IssueAudit, At
  <2> QED
    BY <1>5, <2>1 DEF IssueAudit, Harmless, Dropped, FullEntry, Cached, Copy
<1> QED
  BY <1>1, <1>2, <1>3, <1>4, <1>5 DEF Issue

\* Revoking is harmless: it drops entries and writes none.
LEMMA RevokeHarmless ==
  ASSUME TypeOK, NEW t \in Tokens, Dead(t), NEW h \in Handlers, Revoke(h)
  PROVE  Harmless(t)
<1>0. JobOK
  BY DEF TypeOK, JobOK
<1>1. CASE \E u \in Tokens : RevokeUpdate(h, u) \/ EventSelect(h, u)
  <2>1. (Holding(t)' => Holding(t)) /\ ~Leaves(t)
    BY <1>0, <1>1, BeginHolds DEF RevokeUpdate, EventSelect, Starts
  <2> QED
    BY <1>1, <2>1
    DEF RevokeUpdate, EventSelect, Harmless, Dropped, FullEntry, Cached, Copy
<1>2. CASE \E ids \in SUBSET Tokens : BulkSelect(h, ids)
  <2>1. (Holding(t)' => Holding(t)) /\ ~Leaves(t)
    BY <1>0, <1>2, BeginHolds DEF BulkSelect, Starts
  <2> QED
    BY <1>2, <2>1 DEF BulkSelect, Harmless, Dropped, FullEntry, Cached, Copy
<1>3. CASE BulkUpdate(h) \/ EventUpdate(h)
  <2>1. t \notin job[h].todo
    BY <1>0, <1>3 DEF BulkUpdate, EventUpdate, At, JobOK, Coroutine
  <2>2. (Holding(t)' => Holding(t)) /\ ~Leaves(t)
    BY <1>0, <1>3, <2>1, WalkHolds DEF BulkUpdate, EventUpdate
  <2> QED
    BY <1>3, <2>2
    DEF BulkUpdate, EventUpdate, Harmless, Dropped, FullEntry, Cached, Copy
<1>4. CASE RevokeAudit(h)
  <2>1. (Holding(t)' => Holding(t)) /\ ~Leaves(t)
    BY <1>0, <1>4, EndHolds DEF RevokeAudit
  <2> QED
    BY <1>4, <2>1 DEF RevokeAudit, Harmless, Dropped, FullEntry, Cached, Copy
<1>5. CASE \E u \in Tokens : Drop(h, u)
  <2>1. PICK u \in Tokens : Drop(h, u)
    BY <1>5
  <2>2. AfterDrop(h, u) \notin {"cache", "fill"}
    BY DEF AfterDrop
  <2>3. CASE t = u
    <3>1. ~FullEntry(t)'
      BY <2>1, <2>3 DEF Drop, TypeOK, FullEntry, Cached
    <3>2. Holding(t)' => Holding(t)
      BY <1>0, <2>1, <2>2 DEF Drop, Walk, JobOK, Holding
    <3> QED
      BY <3>1, <3>2 DEF Harmless
  <2>4. CASE t # u
    <3>1. (Holding(t)' => Holding(t)) /\ ~Leaves(t)
      BY <1>0, <2>1, <2>2, <2>4, WalkHolds DEF Drop
    <3>2. FullEntry(t)' => FullEntry(t)
      BY <2>1, <2>4 DEF Drop, TypeOK, FullEntry, Cached
    <3> QED
      BY <3>1, <3>2 DEF Harmless, Dropped, Copy
  <2> QED
    BY <2>3, <2>4
<1> QED
  BY <1>1, <1>2, <1>3, <1>4, <1>5 DEF Revoke

\* So are the batch jobs.
LEMMA BatchHarmless ==
  ASSUME TypeOK, NEW t \in Tokens, Dead(t), NEW h \in Handlers, Batch(h)
  PROVE  Harmless(t)
<1>0. JobOK
  BY DEF TypeOK, JobOK
<1>1. CASE \E op \in BatchOps : BatchLock(h, op)
  <2>1. (Holding(t)' => Holding(t)) /\ ~Leaves(t)
    BY <1>0, <1>1, BeginHolds DEF BatchLock, Starts
  <2> QED
    BY <1>1, <2>1 DEF BatchLock, Harmless, Dropped, FullEntry, Cached, Copy
<1>2. CASE \/ \E ids \in SUBSET Tokens : BatchSelect(h, ids)
           \/ \E u \in Tokens : BatchUpdate(h, u)
  <2>1. t \notin job[h].todo
    BY <1>0, <1>2 DEF BatchSelect, BatchUpdate, JobOK, Coroutine
  <2>2. (Holding(t)' => Holding(t)) /\ ~Leaves(t)
    <3>1. CASE \E ids \in SUBSET Tokens : Walk(h, "update", ids, {})
      BY <1>0, <3>1, <2>1, WalkHolds
    <3>2. CASE \E u \in Tokens : Walk(h, "drop", job[h].ids \ {u}, {u})
      BY <1>0, <3>2, <2>1, WalkHolds
    <3> QED
      BY <1>2, <3>1, <3>2 DEF BatchSelect, BatchUpdate
  <2> QED
    BY <1>2, <2>2
    DEF BatchSelect, BatchUpdate, Harmless, Dropped, FullEntry, Cached, Copy
<1>3. CASE BatchFinish(h)
  <2>1. (Holding(t)' => Holding(t)) /\ ~Leaves(t)
    BY <1>0, <1>3, EndHolds DEF BatchFinish
  <2> QED
    BY <1>3, <2>1 DEF BatchFinish, Harmless, Dropped, FullEntry, Cached, Copy
<1> QED
  BY <1>1, <1>2, <1>3 DEF Batch

\* A quota change writes the cache, but never makes an entry full.
LEMMA QuotaHarmless ==
  ASSUME TypeOK, NEW t \in Tokens, Dead(t), NEW h \in Handlers, Quota(h)
  PROVE  Harmless(t)
<1>0. JobOK
  BY DEF TypeOK, JobOK
<1>1. CASE \E u \in Tokens, q \in Changed : QuotaUpdate(h, u, q)
  <2>1. (Holding(t)' => Holding(t)) /\ ~Leaves(t)
    <3>1. job[h].op = "none"
      BY <1>1 DEF QuotaUpdate, Starts
    <3>2. CASE UNCHANGED job
      BY <3>2 DEF Holding, Leaves
    <3>3. ASSUME NEW u, NEW q, Begin(h, "quota", "exists", {u}, {}, q, NoReq)
          PROVE  (Holding(t)' => Holding(t)) /\ ~Leaves(t)
      BY <1>0, <3>1, <3>3, BeginHolds
    <3> QED
      BY <1>1, <3>2, <3>3 DEF QuotaUpdate
  <2> QED
    BY <1>1, <2>1 DEF QuotaUpdate, Harmless, Dropped, FullEntry, Cached, Copy
<1>2. CASE \E u \in Tokens : QuotaExists(h, u)
  <2>1. job[h].pc = "exists" /\ (Go(h, "hset") \/ End(h))
    BY <1>2 DEF QuotaExists, At
  <2>2. (Holding(t)' => Holding(t)) /\ ~Leaves(t)
    BY <1>0, <2>1, EndHolds, WalkHolds DEF Go
  <2> QED
    BY <1>2, <2>2 DEF QuotaExists, Harmless, Dropped, FullEntry, Cached, Copy
<1>3. CASE \E u \in Tokens : QuotaHset(h, u)
  <2>1. (Holding(t)' => Holding(t)) /\ ~Leaves(t)
    BY <1>0, <1>3, EndHolds DEF QuotaHset, At
  <2>2. FullEntry(t)' => FullEntry(t)
    BY <1>3 DEF QuotaHset, TypeOK, Entry, FullEntry, Cached
  <2> QED
    BY <2>1, <2>2 DEF Harmless, Dropped, Copy
<1> QED
  BY <1>1, <1>2, <1>3 DEF Quota

\* The fallback writes a full entry, of a token it already holds.
LEMMA GetMetaHarmless ==
  ASSUME TypeOK, NEW t \in Tokens, Dead(t), NEW h \in Handlers, GetMeta(h)
  PROVE  Harmless(t)
<1>0. JobOK
  BY DEF TypeOK, JobOK
<1>1. CASE \E r \in Requests : GetMetaSelect(h, r)
  <2>1. PICK r \in Requests : GetMetaSelect(h, r)
    BY <1>1
  <2>2. (Holding(t)' => Holding(t)) /\ ~Leaves(t)
    <3>1. CASE Live(req[r].tok)
      <4> DEFINE u == req[r].tok
                 q == Filled(quotaRow[u])
      <4>1. Begin(h, "getmeta", "fill", {u}, {}, q, r) /\ job[h].op = "none"
        BY <2>1, <3>1 DEF GetMetaSelect, Starts
      <4>2. t \notin {u}
        BY <3>1 DEF Live, Dead
      <4> HIDE DEF u, q
      <4> QED
        BY <1>0, <4>1, <4>2, BeginHolds
    <3>2. CASE ~Live(req[r].tok)
      BY <2>1, <3>2 DEF GetMetaSelect, Holding, Leaves
    <3> QED
      BY <3>1, <3>2
  <2> QED
    BY <2>1, <2>2 DEF GetMetaSelect, Harmless, Dropped, FullEntry, Cached, Copy
<1>2. CASE \E u \in Tokens : GetMetaFill(h, u)
  <2>1. PICK u \in Tokens : GetMetaFill(h, u)
    BY <1>2
  <2>2. (Holding(t)' => Holding(t)) /\ ~Leaves(t)
    BY <1>0, <2>1, EndHolds DEF GetMetaFill, At
  <2>3. t # u => (FullEntry(t)' => FullEntry(t))
    BY <2>1 DEF GetMetaFill, TypeOK, FullEntry, Cached
  <2>4. t = u => Holding(t)
    BY <2>1 DEF GetMetaFill, At, Holding
  <2> QED
    BY <2>2, <2>3, <2>4 DEF Harmless, Dropped, Copy
<1> QED
  BY <1>1, <1>2 DEF GetMeta

\* The gateway writes only the negative cache.
LEMMA GatewayHarmless ==
  ASSUME TypeOK, NEW t \in Tokens, Gateway
  PROVE  Harmless(t)
<1>1. UNCHANGED cache
  BY DEF Gateway, GwStart, GwRedisDown, GwHit, GwMiss, GwNeg, GwFetchFailed,
         GwFetched, GwDone
<1>2. \A h \in Handlers : /\ job'[h].op = job[h].op /\ job'[h].pc = job[h].pc
                          /\ job'[h].ids = job[h].ids
                          /\ job'[h].todo = job[h].todo
  <2>1. CASE \E r \in Requests : GwFetchFailed(r)
    BY <2>1 DEF GwFetchFailed, TypeOK, Coroutine, Fields
  <2>2. CASE UNCHANGED job
    BY <2>2
  <2> QED
    BY <2>1, <2>2 DEF Gateway, GwStart, GwRedisDown, GwHit, GwMiss, GwNeg,
                      GwFetched, GwDone
<1> QED
  BY <1>1, <1>2 DEF Harmless, Holding, Dropped, Leaves, FullEntry, Cached, Copy

\* Time and eviction only remove; failures only end coroutines.
LEMMA EnvironmentHarmless ==
  ASSUME TypeOK, NEW t \in Tokens, Environment
  PROVE  Harmless(t)
<1>1. CASE \E u \in Tokens : Expire(u) \/ CacheTtl(u) \/ NegTtl(u) \/ Evict(u)
  BY <1>1 DEF Expire, CacheTtl, NegTtl, Evict, TypeOK,
              Harmless, Holding, Dropped, Leaves, FullEntry, Cached, Copy
<1>2. CASE \E op \in BatchOps : LockTtl(op)
  BY <1>2 DEF LockTtl, Harmless, Holding, Dropped, Leaves, FullEntry, Cached, Copy
<1>3. CASE \E h \in Handlers : Raise(h)
  <2>1. faults' # faults
    BY <1>3 DEF Raise, TypeOK
  <2>2. Holding(t)' => Holding(t)
    BY <1>3 DEF Raise, End, Idle, TypeOK, Holding
  <2> QED
    BY <1>3, <2>1, <2>2 DEF Raise, Harmless, Dropped, FullEntry, Cached, Copy
<1>4. CASE Crash
  <2>1. faults' # faults
    BY <1>4 DEF Crash, TypeOK
  <2>2. ~Holding(t)'
    BY <1>4 DEF Crash, Idle, Holding
  <2> QED
    BY <1>4, <2>1, <2>2 DEF Crash, Harmless, Dropped, FullEntry, Cached, Copy
<1> QED
  BY <1>1, <1>2, <1>3, <1>4 DEF Environment

\* No step gives a dead token a copy it had not, and a step that drops it
\* leaves a copy only with those who already held one.
LEMMA StepHarmless ==
  ASSUME TypeOK, NEW t \in Tokens, Dead(t), Next
  PROVE  Harmless(t)
  BY IssueHarmless, RevokeHarmless, BatchHarmless, QuotaHarmless,
     GetMetaHarmless, GatewayHarmless, EnvironmentHarmless
  DEF Next, Portal

\* A dead token's copies are always accounted for (StaleOnlyIfRaced): they
\* outlive an invalidation only when a cache write was in progress as the
\* token was dropped, or when the drop was lost or never planned.
THEOREM StaleAccounted == HSpec => []StaleOnlyIfRaced
<1>1. HInit => StaleOnlyIfRaced
  BY DEF HInit, Init, StaleOnlyIfRaced, Dead
<1>2. HTypeOK /\ StaleOnlyIfRaced /\ [HNext]_hvars => StaleOnlyIfRaced'
  <2> SUFFICES ASSUME HTypeOK, StaleOnlyIfRaced, [HNext]_hvars,
                      NEW t \in Tokens, Dead(t)', Copy(t)'
               PROVE  Invalidating(t)' \/ t \in raced'
    BY DEF StaleOnlyIfRaced
  <2>1. CASE UNCHANGED hvars
    BY <2>1 DEF hvars, vars, StaleOnlyIfRaced, Dead, Copy, FullEntry, Cached,
                Holding, Invalidating
  <2>2. CASE HNext /\ ~Dead(t)
    BY <2>2 DEF HNext, RacedNext, Escaped
  <2>3. CASE HNext /\ Dead(t)
    <3>1. Harmless(t)
      BY <2>3, StepHarmless DEF HNext, HTypeOK
    <3>2. Invalidating(t) \/ t \in raced
      BY <2>3, <3>1 DEF StaleOnlyIfRaced, Harmless, Copy
    <3>3. Dropped(t) => Holding(t)
      BY <3>1 DEF Harmless, Copy
    <3>4. CASE Invalidating(t)
      BY <2>3, <3>3, <3>4 DEF HNext, RacedNext, Invalidating, Leaves, Dropped, Lost
    <3>5. CASE t \in raced
      BY <2>3, <3>3, <3>5 DEF HNext, RacedNext
    <3> QED
      BY <3>2, <3>4, <3>5
  <2> QED
    BY <2>1, <2>2, <2>3
<1> QED
  BY <1>1, <1>2, TypeCorrect, PTL DEF HSpec

-----------------------------------------------------------------------------
(* Calls: a call is let in only if its token was open when it began.        *)

\* A token that has been issued stays issued, and a dead one stays dead.
LEMMA LedgerForward ==
  ASSUME TypeOK, NEW t \in Tokens, Next
  PROVE  /\ ~Absent(t) => ~Absent(t)'
         /\ Dead(t) => Dead(t)'
<1>1. CASE UNCHANGED ledger
  BY <1>1 DEF Absent, Dead
<1>2. CASE \E h \in Handlers, u \in Tokens : IssueInsert(h, u)
  BY <1>2 DEF IssueInsert, TypeOK, Absent, Dead
<1>3. CASE \E h \in Handlers, u \in Tokens : RevokeUpdate(h, u)
  BY <1>3 DEF RevokeUpdate, TypeOK, Absent, Dead
<1>4. CASE \E h \in Handlers : BulkUpdate(h)
  BY <1>4 DEF BulkUpdate, TypeOK, Absent, Dead
<1>5. CASE \E h \in Handlers : EventUpdate(h)
  BY <1>5 DEF EventUpdate, TypeOK, Absent, Dead
<1>6. CASE \E h \in Handlers, u \in Tokens : BatchUpdate(h, u)
  BY <1>6 DEF BatchUpdate, BatchStatus, TypeOK, Absent, Dead
<1>7. CASE \E h \in Handlers, u \in Tokens :
             \/ IssueCountApp(h, u) \/ IssueCountUser(h, u) \/ IssueCache(h, u)
             \/ EventSelect(h, u) \/ Drop(h, u)
  BY <1>1, <1>7 DEF IssueCountApp, IssueCountUser, IssueCache, EventSelect, Drop
<1>9. CASE \E h \in Handlers : \/ IssueAudit(h) \/ RevokeAudit(h) \/ BatchFinish(h)
                              \/ Quota(h) \/ GetMeta(h)
  BY <1>1, <1>9 DEF IssueAudit, RevokeAudit, BatchFinish, Quota, QuotaUpdate,
     QuotaExists, QuotaHset, GetMeta, GetMetaSelect, GetMetaFill
<1>10. CASE \E h \in Handlers :
              \/ \E ids \in SUBSET Tokens : BulkSelect(h, ids) \/ BatchSelect(h, ids)
              \/ \E op \in BatchOps : BatchLock(h, op)
  BY <1>1, <1>10 DEF BulkSelect, BatchSelect, BatchLock
<1>8. CASE Gateway \/ Environment
  <2>1. UNCHANGED ledger
    BY <1>8 DEF Gateway, GwStart, GwRedisDown, GwHit, GwMiss, GwNeg,
                GwFetchFailed, GwFetched, GwDone, Environment, Expire, CacheTtl,
                NegTtl, Evict, LockTtl, Raise, Crash
  <2> QED
    BY <1>1, <2>1
<1> QED
  BY <1>2, <1>3, <1>4, <1>5, <1>6, <1>7, <1>8, <1>9, <1>10
  DEF Next, Portal, Issue, Revoke, Batch

\* A token that is open after a step, and issued before it, was open before it.
LEMMA OpenBackward ==
  ASSUME TypeOK, NEW t \in Tokens, Next, ~Absent(t), OpenNow(t)'
  PROVE  OpenNow(t)
<1>1. Live(t) \/ Dead(t)
  BY DEF TypeOK, Statuses, Live, Dead, Absent
<1>2. CASE Dead(t)
  <2>1. Dead(t)' /\ Copy(t)'
    BY <1>2, LedgerForward DEF OpenNow, Live, Dead
  <2>2. Copy(t)
    BY <1>2, <2>1, StepHarmless DEF Harmless, Copy
  <2> QED
    BY <1>2, <2>2 DEF OpenNow
<1> QED
  BY <1>1, <1>2 DEF OpenNow

\* A call on its way to being accepted.
Winning == {"wait", "answered", "accepted"}

\* What a step may do to a call: begin it on an issued token, end it, or take
\* it further on the token it has; it comes to be accepted, or to be told of an
\* ACTIVE row, only for a token that is open at that moment.
CallMoves(r) ==
  \/ req'[r] = req[r]
  \/ req'[r].pc = "idle"
  \/ /\ req[r].pc = "idle" /\ req'[r].pc = "lookup"
     /\ req'[r].tok \in Tokens /\ ~Absent(req'[r].tok)
  \/ /\ req[r].pc # "idle" /\ req'[r].tok = req[r].tok
     /\ req'[r].pc \in Winning
          => req[r].pc \in Winning \/ OpenNow(req[r].tok)

\* The gateway's steps move a call as CallMoves says.
LEMMA GatewayMoves ==
  ASSUME TypeOK, NEW r \in Requests, Gateway,
         req[r].pc # "idle" => ~Absent(req[r].tok)
  PROVE  CallMoves(r)
<1> USE DEF TypeOK, Call, NoCall
<1>1. PICK s \in Requests :
        \/ \E t \in Tokens : GwStart(s, t)
        \/ GwRedisDown(s) \/ GwHit(s) \/ GwMiss(s) \/ GwNeg(s)
        \/ GwFetchFailed(s) \/ GwFetched(s) \/ GwDone(s)
  BY DEF Gateway
<1>2. CASE \E t \in Tokens : GwStart(s, t)
  BY <1>2 DEF GwStart, CallMoves
<1>3. CASE GwRedisDown(s)
  BY <1>3 DEF GwRedisDown, CallMoves, Winning
<1>4. CASE GwHit(s)
  <2>1. CASE s # r
    BY <1>4, <2>1 DEF GwHit, CallMoves
  <2>2. CASE s = r
    <3>1. /\ req[r].pc # "idle" /\ req[r].tok \in Tokens
          /\ req'[r].tok = req[r].tok
          /\ req'[r].pc = "accepted" => FullEntry(req[r].tok)
          /\ req'[r].pc \in {"accepted", "refused"}
      BY <1>4, <2>2 DEF GwHit, FullEntry
    <3>2. FullEntry(req[r].tok) => OpenNow(req[r].tok)
      BY <3>1 DEF OpenNow, Copy, Live, Dead, Absent, Statuses
    <3> QED
      BY <3>1, <3>2 DEF CallMoves, Winning
  <2> QED
    BY <2>1, <2>2
<1>5. CASE GwMiss(s) \/ GwNeg(s) \/ GwFetched(s)
  BY <1>5 DEF GwMiss, GwNeg, GwFetched, CallMoves, Winning
<1>6. CASE GwFetchFailed(s) \/ GwDone(s)
  BY <1>6 DEF GwFetchFailed, GwDone, CallMoves, Winning
<1> QED
  BY <1>1, <1>2, <1>3, <1>4, <1>5, <1>6

\* So does the portal's fallback, the only other code that touches a call.
LEMMA GetMetaMoves ==
  ASSUME TypeOK, NEW r \in Requests, NEW h \in Handlers, GetMeta(h)
  PROVE  CallMoves(r)
<1> USE DEF TypeOK, Call, NoCall
<1>1. CASE \E s \in Requests : GetMetaSelect(h, s)
  BY <1>1 DEF GetMetaSelect, CallMoves, Winning, OpenNow
<1>2. CASE \E t \in Tokens : GetMetaFill(h, t)
  BY <1>2 DEF GetMetaFill, CallMoves, Winning
<1> QED
  BY <1>1, <1>2 DEF GetMeta

\* Every step moves a call as CallMoves says.
LEMMA StepMoves ==
  ASSUME TypeOK, NEW r \in Requests, Next,
         req[r].pc # "idle" => ~Absent(req[r].tok)
  PROVE  CallMoves(r)
<1>1. CASE Gateway
  BY <1>1, GatewayMoves
<1>2. CASE \E h \in Handlers : GetMeta(h)
  BY <1>2, GetMetaMoves
<1>3. CASE \E h \in Handlers : Issue(h) \/ Quota(h)
  BY <1>3 DEF Issue, IssueCountApp, IssueCountUser, IssueInsert, IssueCache,
     IssueAudit, Quota, QuotaUpdate, QuotaExists, QuotaHset, CallMoves
<1>4. CASE \E h \in Handlers : Revoke(h)
  BY <1>4 DEF Revoke, RevokeUpdate, BulkSelect, BulkUpdate, EventSelect,
     EventUpdate, Drop, RevokeAudit, CallMoves
<1>5. CASE \E h \in Handlers : Batch(h)
  BY <1>5 DEF Batch, BatchLock, BatchSelect, BatchUpdate, BatchFinish, CallMoves
<1>6. CASE Environment
  BY <1>6 DEF Environment, Expire, CacheTtl, NegTtl, Evict, LockTtl, Raise,
     Crash, CallMoves
<1> QED
  BY <1>1, <1>2, <1>3, <1>4, <1>5, <1>6 DEF Next, Portal

\* The inductive form: a call in progress has an issued token, and began open
\* if its token is open still, or if it has been told of an ACTIVE row.
CallsBeganOpen ==
  \A r \in Requests :
    req[r].pc # "idle" =>
      /\ ~Absent(req[r].tok)
      /\ OpenNow(req[r].tok) \/ req[r].pc \in Winning => r \in begunOpen

\* It is inductive: a token opens for no call already in progress.
LEMMA AlwaysBeganOpen == HSpec => []CallsBeganOpen
<1>1. HInit => CallsBeganOpen
  BY DEF HInit, Init, NoCall, CallsBeganOpen
<1>2. HTypeOK /\ CallsBeganOpen /\ [HNext]_hvars => CallsBeganOpen'
  <2> SUFFICES ASSUME HTypeOK, CallsBeganOpen, [HNext]_hvars,
                      NEW r \in Requests, req'[r].pc # "idle"
               PROVE  /\ ~Absent(req[r].tok)'
                      /\ (OpenNow(req[r].tok) \/ req[r].pc \in Winning)'
                           => r \in begunOpen'
    BY DEF CallsBeganOpen
  <2>1. CASE UNCHANGED hvars
    BY <2>1 DEF hvars, vars, CallsBeganOpen, Absent, OpenNow, Live, Dead, Copy,
                FullEntry, Cached, Holding
  <2>2. CASE HNext
    <3>1. TypeOK /\ Next /\ BegunNext
      BY <2>2 DEF HNext, HTypeOK
    <3>2. CallMoves(r)
      BY <3>1, StepMoves DEF CallsBeganOpen
    <3>4. CASE req[r].pc = "idle"
      <4>1. req'[r].pc = "lookup" /\ req'[r].tok \in Tokens /\ ~Absent(req'[r].tok)
        BY <3>1, <3>2, <3>4 DEF CallMoves, TypeOK, Call, NoCall
      <4>2. ~Absent(req[r].tok)'
        BY <3>1, <4>1, LedgerForward
      <4>3. r \in begunOpen' <=> OpenNow(req'[r].tok)
        BY <3>1, <3>4, <4>1 DEF BegunNext
      <4>4. OpenNow(req[r].tok)' => OpenNow(req'[r].tok)
        BY <3>1, <4>1, OpenBackward
      <4> QED
        BY <4>1, <4>2, <4>3, <4>4 DEF Winning
    <3>5. CASE req[r].pc # "idle"
      <4>1. /\ req'[r].tok = req[r].tok
            /\ req'[r].pc \in Winning
                 => req[r].pc \in Winning \/ OpenNow(req[r].tok)
        BY <3>2, <3>5 DEF CallMoves
      <4>2. req[r].tok \in Tokens /\ ~Absent(req[r].tok)
        BY <3>1, <3>5 DEF TypeOK, Call, NoCall, CallsBeganOpen
      <4>3. r \in begunOpen' <=> r \in begunOpen
        BY <3>1, <3>5 DEF BegunNext
      <4>4. ~Absent(req[r].tok)'
        BY <3>1, <4>1, <4>2, LedgerForward
      <4>5. OpenNow(req[r].tok)' => OpenNow(req[r].tok)
        BY <3>1, <4>1, <4>2, OpenBackward
      <4> QED
        BY <3>5, <4>1, <4>3, <4>4, <4>5 DEF CallsBeganOpen
    <3> QED
      BY <3>4, <3>5
  <2> QED
    BY <2>1, <2>2
<1> QED
  BY <1>1, <1>2, TypeCorrect, PTL DEF HSpec

\* A call is let in only if its token was open when the call began.
THEOREM AcceptedOpen == HSpec => []AcceptedBeganOpen
<1>1. CallsBeganOpen => AcceptedBeganOpen
  BY DEF CallsBeganOpen, AcceptedBeganOpen, Winning
<1> QED
  BY <1>1, AlwaysBeganOpen, PTL

-----------------------------------------------------------------------------
(* Audit rows: a coroutine that revoked t keeps t in hand until its row.    *)

Trails(c, t) == /\ c.op \in Revokers
                /\ c.pc \in {"drop", "sweep", "audit"}
                /\ t \in c.ids

\* A step that changes one coroutine takes no other off its way.
LEMMA OneTrail ==
  ASSUME JobOK, NEW h \in Handlers, NEW c, NEW t \in Tokens,
         job' = [job EXCEPT ![h] = c],
         Trails(job[h], t) => Trails(c, t)
  PROVE  Auditing(t) => Auditing(t)'
  BY DEF JobOK, Auditing, Trails

\* What a step does for the row of t: what is recorded stays recorded, a
\* coroutine on its way to the row stays on it or gets there, unless it fails,
\* and a dead token is only revoked by one that sets out for the row.
Trailed(t) == /\ t \in audit => t \in audit'
              /\ Auditing(t) => \/ Auditing(t)' \/ t \in audit'
                                \/ faults' # faults
              /\ Dead(t) /\ ledger[t] # "REVOKED" /\ ledger'[t] = "REVOKED"
                   => Auditing(t)'

\* Coroutines that revoke keep t in hand from the UPDATE to the row.
LEMMA RevokeTrailed ==
  ASSUME TypeOK, NEW t \in Tokens, NEW h \in Handlers, Revoke(h)
  PROVE  Trailed(t)
<1>0. JobOK
  BY DEF TypeOK, JobOK
<1>1. CASE \E u \in Tokens : RevokeUpdate(h, u)
  <2>1. PICK u \in Tokens : RevokeUpdate(h, u)
    BY <1>1
  <2>2. Auditing(t) => Auditing(t)'
    BY <1>0, <2>1, OneTrail DEF RevokeUpdate, Starts, Begin, Trails, Revokers
  <2>3. t = u => Auditing(t)'
    BY <1>0, <2>1 DEF RevokeUpdate, Begin, Auditing, Revokers, JobOK
  <2> QED
    BY <2>1, <2>2, <2>3 DEF RevokeUpdate, Trailed, TypeOK
<1>2. CASE \/ \E u \in Tokens : EventSelect(h, u)
           \/ \E ids \in SUBSET Tokens : BulkSelect(h, ids)
  <2>1. Auditing(t) => Auditing(t)'
    BY <1>0, <1>2, OneTrail DEF EventSelect, BulkSelect, Starts, Begin, Trails, Revokers
  <2> QED
    BY <1>2, <2>1 DEF EventSelect, BulkSelect, Trailed
<1>3. CASE BulkUpdate(h)
  <2>1. Auditing(t) => Auditing(t)'
    BY <1>0, <1>3, OneTrail DEF BulkUpdate, At, Walk, Trails
  <2>2. t \in job[h].ids => Auditing(t)'
    BY <1>0, <1>3 DEF BulkUpdate, At, Walk, Auditing, Revokers, JobOK
  <2> QED
    BY <1>3, <2>1, <2>2 DEF BulkUpdate, Trailed
<1>4. CASE EventUpdate(h)
  <2>1. Auditing(t) => Auditing(t)'
    BY <1>0, <1>4, OneTrail DEF EventUpdate, At, Walk, Trails
  <2>2. Dead(t) => ledger'[t] = ledger[t]
    BY <1>4 DEF EventUpdate, Dead, Live
  <2> QED
    BY <1>4, <2>1, <2>2 DEF EventUpdate, Trailed
<1>5. CASE \E u \in Tokens : Drop(h, u)
  <2>1. PICK u \in Tokens : Drop(h, u)
    BY <1>5
  <2>2. job[h].op \in Revokers => AfterDrop(h, u) \in {"sweep", "audit"}
    BY DEF AfterDrop, Revokers, BatchOps
  <2>3. Auditing(t) => Auditing(t)'
    BY <1>0, <2>1, <2>2, OneTrail DEF Drop, Walk, Trails
  <2> QED
    BY <2>1, <2>3 DEF Drop, Trailed
<1>6. CASE RevokeAudit(h)
  <2>1. CASE t \in job[h].ids
    BY <1>6, <2>1 DEF RevokeAudit, Trailed
  <2>2. CASE t \notin job[h].ids
    <3>1. Auditing(t) => Auditing(t)'
      BY <1>0, <1>6, <2>2, OneTrail DEF RevokeAudit, End, Trails
    <3> QED
      BY <1>6, <3>1 DEF RevokeAudit, Trailed
  <2> QED
    BY <2>1, <2>2
<1> QED
  BY <1>1, <1>2, <1>3, <1>4, <1>5, <1>6 DEF Revoke

\* Batch jobs are on no such way, and write neither REVOKED nor a row.
LEMMA BatchTrailed ==
  ASSUME TypeOK, NEW t \in Tokens, NEW h \in Handlers, Batch(h)
  PROVE  Trailed(t)
<1>0. JobOK
  BY DEF TypeOK, JobOK
<1>1. ~Trails(job[h], t)
  BY DEF Batch, BatchLock, BatchSelect, BatchUpdate, BatchFinish, Starts, Trails,
         Revokers, BatchOps
<1>2. \E c : job' = [job EXCEPT ![h] = c]
  BY DEF Batch, BatchLock, BatchSelect, BatchUpdate, BatchFinish, Begin, Walk, End
<1>3. Auditing(t) => Auditing(t)'
  BY <1>0, <1>1, <1>2, OneTrail
<1>4. ledger'[t] = ledger[t] \/ ledger'[t] # "REVOKED"
  <2>1. CASE \E u \in Tokens : BatchUpdate(h, u)
    BY <2>1 DEF BatchUpdate, BatchStatus, TypeOK
  <2>2. CASE UNCHANGED ledger
    BY <2>2
  <2> QED
    BY <2>1, <2>2 DEF Batch, BatchLock, BatchSelect, BatchFinish
<1>5. UNCHANGED audit
  BY DEF Batch, BatchLock, BatchSelect, BatchUpdate, BatchFinish
<1> QED
  BY <1>3, <1>4, <1>5 DEF Trailed

\* Nor are the other coroutines of the portal.
LEMMA PortalTrailed ==
  ASSUME TypeOK, NEW t \in Tokens, NEW h \in Handlers,
         Issue(h) \/ Quota(h) \/ GetMeta(h)
  PROVE  Trailed(t)
<1>0. JobOK
  BY DEF TypeOK, JobOK
<1>1. ~Trails(job[h], t)
  BY DEF Issue, IssueCountApp, IssueCountUser, IssueInsert, IssueCache, IssueAudit,
         Quota, QuotaUpdate, QuotaExists, QuotaHset, GetMeta, GetMetaSelect,
         GetMetaFill, Starts, At, Trails, Revokers
<1>2. UNCHANGED job \/ \E c : job' = [job EXCEPT ![h] = c]
  <2>1. CASE Issue(h)
    BY <2>1 DEF Issue, IssueCountApp, IssueCountUser, IssueInsert, IssueCache,
       IssueAudit, Begin, Walk, Go, End
  <2>2. CASE Quota(h)
    BY <2>2 DEF Quota, QuotaUpdate, QuotaExists, QuotaHset, Begin, Walk, Go, End
  <2>3. CASE GetMeta(h)
    BY <2>3 DEF GetMeta, GetMetaSelect, GetMetaFill, Begin, End
  <2> QED
    BY <2>1, <2>2, <2>3
<1>3. Auditing(t) => Auditing(t)'
  <2>1. CASE UNCHANGED job
    BY <2>1 DEF Auditing
  <2> QED
    BY <1>0, <1>1, <1>2, <2>1, OneTrail
<1>4. ledger'[t] = ledger[t] \/ ledger'[t] # "REVOKED"
  <2>1. CASE \E u \in Tokens : IssueInsert(h, u)
    BY <2>1 DEF IssueInsert, TypeOK
  <2>2. CASE UNCHANGED ledger
    BY <2>2
  <2> QED
    BY <2>1, <2>2 DEF Issue, IssueCountApp, IssueCountUser, IssueCache, IssueAudit,
       Quota, QuotaUpdate, QuotaExists, QuotaHset, GetMeta, GetMetaSelect, GetMetaFill
<1>5. UNCHANGED audit
  BY DEF Issue, IssueCountApp, IssueCountUser, IssueInsert, IssueCache, IssueAudit,
         Quota, QuotaUpdate, QuotaExists, QuotaHset, GetMeta, GetMetaSelect, GetMetaFill
<1> QED
  BY <1>3, <1>4, <1>5 DEF Trailed

\* A call takes no coroutine off its way; a failure does, and is counted.
LEMMA OutsideTrailed ==
  ASSUME TypeOK, NEW t \in Tokens, Gateway \/ Environment
  PROVE  Trailed(t)
<1>1. UNCHANGED <<ledger, audit>>
  BY DEF Gateway, GwStart, GwRedisDown, GwHit, GwMiss, GwNeg, GwFetchFailed,
         GwFetched, GwDone, Environment, Expire, CacheTtl, NegTtl, Evict, LockTtl,
         Raise, Crash
<1>2. CASE Gateway
  <2>1. \A h \in Handlers : /\ job'[h].op = job[h].op /\ job'[h].pc = job[h].pc
                            /\ job'[h].ids = job[h].ids
    <3>1. CASE \E r \in Requests : GwFetchFailed(r)
      BY <3>1 DEF GwFetchFailed, TypeOK, Coroutine, Fields
    <3>2. CASE UNCHANGED job
      BY <3>2
    <3> QED
      BY <1>2, <3>1, <3>2 DEF Gateway, GwStart, GwRedisDown, GwHit, GwMiss, GwNeg,
                              GwFetched, GwDone
  <2> QED
    BY <1>1, <2>1 DEF Trailed, Auditing
<1>3. CASE Environment
  <2>1. UNCHANGED job \/ faults' # faults
    BY <1>3 DEF Environment, Expire, CacheTtl, NegTtl, Evict, LockTtl, Raise, Crash,
                TypeOK
  <2> QED
    BY <1>1, <2>1 DEF Trailed, Auditing
<1> QED
  BY <1>2, <1>3

\* Every revocation leaves its audit row, or was lost on the way, or reached a
\* token that its coroutine had not selected (RevokedAudited), for any number
\* of tokens and of coroutines that revoke the same ones.
THEOREM RevocationsAudited == HSpec => []RevokedAudited
<1>1. HInit => RevokedAudited
  BY DEF HInit, Init, RevokedAudited
<1>2. HTypeOK /\ RevokedAudited /\ [HNext]_hvars => RevokedAudited'
  <2> SUFFICES ASSUME HTypeOK, RevokedAudited, [HNext]_hvars,
                      NEW t \in Tokens, ledger'[t] = "REVOKED"
               PROVE  t \in audit' \/ Auditing(t)' \/ t \in unaudited'
    BY DEF RevokedAudited
  <2>1. CASE UNCHANGED hvars
    BY <2>1 DEF hvars, vars, RevokedAudited, Auditing
  <2>2. CASE HNext
    <3>1. TypeOK /\ Next /\ UnauditedNext
      BY <2>2 DEF HNext, HTypeOK
    <3>2. Trailed(t)
      BY <3>1, RevokeTrailed, BatchTrailed, PortalTrailed, OutsideTrailed
      DEF Next, Portal
    <3>3. CASE ledger[t] = "REVOKED"
      BY <3>1, <3>2, <3>3 DEF Trailed, RevokedAudited, UnauditedNext
    <3>4. CASE Dead(t) /\ ledger[t] # "REVOKED"
      BY <3>2, <3>4 DEF Trailed
    <3>5. CASE ~Dead(t)
      <4>1. Dead(t)'
        BY DEF Dead
      <4> QED
        BY <3>1, <3>5, <4>1 DEF UnauditedNext
    <3> QED
      BY <3>3, <3>4, <3>5
  <2> QED
    BY <2>1, <2>2
<1> QED
  BY <1>1, <1>2, TypeCorrect, PTL DEF HSpec

-----------------------------------------------------------------------------
(* Quotas: whoever writes the cache writes the quota it holds.              *)

\* A row that does not exist yet is the default, as IssueInsert makes it.
Unset(t) == Absent(t) => quotaRow[t] = DefaultQuota

\* A coroutine writes the value it holds for t to the cache.
Writes(h, t, l) ==
  /\ t \in job[h].ids
  /\ \/ /\ job[h].op = "issue" /\ job[h].pc = "cache"
        /\ cache'[t].quota[l] = DefaultQuota[l]
     \/ /\ job[h].op = "getmeta" /\ job[h].pc = "fill"
        /\ cache'[t].quota[l] = job[h].quota[l]
     \/ l = "burst" /\ job[h].pc = "hset" /\ cache'[t].quota[l] = job[h].quota[l]

Kept(t, l) == cache'[t] = cache[t] \/ (FullEntry(t) /\ cache'[t].quota[l] = cache[t].quota[l])

\* What a step does to a limit of t: it leaves no full entry, or writes what
\* its coroutine holds, or leaves the value alone; then it changes the row only
\* by a coroutine that sets out for the cache, or where nothing is to be brought,
\* and none gives up on the way but by a failure.
QuotaMoves(t, l) ==
  \/ ~FullEntry(t)'
  \/ quotaRow'[t] = quotaRow[t] /\ \E h \in Handlers : Writes(h, t, l)
  \/ /\ Kept(t, l)
     /\ \/ l = "burst" /\ Changing(t)'
        \/ Unbrought(t, l)
        \/ /\ quotaRow'[t][l] = quotaRow[t][l]
           /\ l = "burst" /\ Changing(t) => faults' # faults

\* A coroutine that is not on its way to the cache with a change takes no
\* other off that way.
LEMMA OneChange ==
  ASSUME JobOK, NEW h \in Handlers, NEW c, NEW t \in Tokens,
         job' = [job EXCEPT ![h] = c], job[h].pc \notin {"exists", "hset"}
  PROVE  Changing(t) => Changing(t)'
  BY DEF JobOK, Changing

\* A coroutine that touches neither the cache nor a row of t.
LEMMA BystanderMoves ==
  ASSUME JobOK, NEW h \in Handlers, NEW t \in Tokens, NEW l \in Limits,
         UNCHANGED job \/ \E c : job' = [job EXCEPT ![h] = c],
         job[h].pc \notin {"exists", "hset"}, cache'[t] = cache[t], quotaRow'[t] = quotaRow[t]
  PROVE  QuotaMoves(t, l)
<1>1. Changing(t) => Changing(t)'
  BY OneChange DEF Changing
<1> QED
  BY <1>1 DEF QuotaMoves, Kept

\* An issue writes the default, to the row and then to the cache.
LEMMA IssueMovesQuota ==
  ASSUME TypeOK, NEW t \in Tokens, NEW l \in Limits, Unset(t), NEW h \in Handlers, Issue(h)
  PROVE  QuotaMoves(t, l)
<1>0. JobOK /\ \E c : job' = [job EXCEPT ![h] = c]
  BY DEF TypeOK, JobOK, Issue, IssueCountApp, IssueCountUser, IssueInsert, IssueCache,
     IssueAudit, Begin, Walk, Go, End
<1>1. job[h].pc \notin {"exists", "hset"}
  BY DEF TypeOK, Coroutine, Issue, IssueCountApp, IssueCountUser, IssueInsert, IssueCache,
     IssueAudit, Starts, At
<1>2. CASE \E u \in Tokens : IssueInsert(h, u)
  <2>1. cache' = cache /\ quotaRow'[t] = quotaRow[t]
    BY <1>2 DEF IssueInsert, Unset, TypeOK
  <2> QED
    BY <1>0, <1>1, <2>1, BystanderMoves
<1>3. CASE \E u \in Tokens : IssueCache(h, u)
  <2>1. PICK u \in Tokens : IssueCache(h, u)
    BY <1>3
  <2>2. quotaRow' = quotaRow
    BY <2>1 DEF IssueCache
  <2>3. CASE t = u
    <3>1. t \in job[h].ids /\ job[h].op = "issue" /\ job[h].pc = "cache"
      BY <2>1, <2>3 DEF IssueCache, At
    <3>2. cache'[t].quota[l] = DefaultQuota[l]
      BY <2>1, <2>3 DEF IssueCache, TypeOK
    <3> QED
      BY <2>2, <3>1, <3>2 DEF QuotaMoves, Kept, Writes
  <2>4. CASE t # u
    <3>1. cache'[t] = cache[t]
      BY <2>1, <2>4 DEF IssueCache, TypeOK
    <3> QED
      BY <1>0, <1>1, <2>2, <3>1, BystanderMoves
  <2> QED
    BY <2>3, <2>4
<1>4. CASE UNCHANGED <<cache, quotaRow>>
  BY <1>0, <1>1, <1>4, BystanderMoves
<1> QED
  BY <1>2, <1>3, <1>4 DEF Issue, IssueCountApp, IssueCountUser, IssueAudit

\* Revocation and the batch jobs write no quota.
LEMMA WithdrawMovesQuota ==
  ASSUME TypeOK, NEW t \in Tokens, NEW l \in Limits, NEW h \in Handlers, Revoke(h) \/ Batch(h)
  PROVE  QuotaMoves(t, l)
<1>1. JobOK /\ quotaRow' = quotaRow /\ \E c : job' = [job EXCEPT ![h] = c]
  <2>1. CASE Revoke(h)
    BY <2>1 DEF TypeOK, JobOK, Revoke, RevokeUpdate, BulkSelect, BulkUpdate, EventSelect,
       EventUpdate, Drop, RevokeAudit, Begin, Walk, End
  <2>2. CASE Batch(h)
    BY <2>2 DEF TypeOK, JobOK, Batch, BatchLock, BatchSelect, BatchUpdate, BatchFinish, Begin,
       Walk, End
  <2> QED
    BY <2>1, <2>2
<1>2. job[h].pc \notin {"exists", "hset"}
  <2>1. CASE Revoke(h)
    BY <2>1 DEF TypeOK, Coroutine, Revoke, RevokeUpdate, BulkSelect, BulkUpdate, EventSelect,
       EventUpdate, Drop, RevokeAudit, Starts, At
  <2>2. CASE Batch(h)
    BY <2>2 DEF TypeOK, Coroutine, Batch, BatchLock, BatchSelect, BatchUpdate, BatchFinish, Starts
  <2> QED
    BY <2>1, <2>2
<1>3. CASE \E u \in Tokens : Drop(h, u)
  <2>1. cache'[t] \in {cache[t], NoEntry}
    BY <1>3 DEF Drop, TypeOK
  <2>2. CASE cache'[t] = cache[t]
    BY <1>1, <1>2, <2>2, BystanderMoves
  <2>3. CASE cache'[t] = NoEntry
    BY <2>3 DEF QuotaMoves, Kept, FullEntry, Cached
  <2> QED
    BY <2>1, <2>2, <2>3
<1>4. CASE cache' = cache
  BY <1>1, <1>2, <1>4, BystanderMoves
<1> QED
  BY <1>3, <1>4 DEF Revoke, RevokeUpdate, BulkSelect, BulkUpdate, EventSelect, EventUpdate,
     RevokeAudit, Batch, BatchLock, BatchSelect, BatchUpdate, BatchFinish

\* A coroutine that brings a change of quota to the cache works for one token.
OneToken ==
  \A h \in Handlers :
    job[h].pc \in {"exists", "hset"} => \A t, u \in job[h].ids : t = u

\* A coroutine that does not come to bring such a change keeps that so.
LEMMA ElsewhereOne ==
  ASSUME JobOK, OneToken, NEW h \in Handlers, NEW c, job' = [job EXCEPT ![h] = c],
         c.pc \notin {"exists", "hset"}
  PROVE  OneToken'
  BY DEF JobOK, OneToken

LEMMA StepOneToken == TypeOK /\ OneToken /\ [Next]_vars => OneToken'
<1> SUFFICES ASSUME TypeOK, OneToken, [Next]_vars PROVE OneToken'
  OBVIOUS
<1>0. JobOK
  BY DEF TypeOK, JobOK
<1>1. ASSUME NEW h \in Handlers, UNCHANGED job \/ \E c : job' = [job EXCEPT ![h] = c],
             UNCHANGED job \/ job'[h].pc \notin {"exists", "hset"}
      PROVE  OneToken'
  BY <1>0, <1>1 DEF JobOK, OneToken
<1>3. ASSUME NEW h \in Handlers, End(h)
      PROVE  OneToken'
  BY <1>0, <1>3, ElsewhereOne DEF End, Idle
<1>4. ASSUME NEW h \in Handlers, Issue(h)
      PROVE  OneToken'
  <2>1. \E c : job' = [job EXCEPT ![h] = c]
    BY <1>4 DEF Issue, IssueCountApp, IssueCountUser, IssueInsert, IssueCache, IssueAudit, Begin,
       Walk, Go, End
  <2>2. job'[h].pc \notin {"exists", "hset"}
    BY <1>0, <1>4 DEF JobOK, Issue, IssueCountApp, IssueCountUser, IssueInsert, IssueCache,
       IssueAudit, Begin, Walk, Go, End, Idle
  <2> QED
    BY <1>1, <2>1, <2>2
<1>5. ASSUME NEW h \in Handlers, Revoke(h)
      PROVE  OneToken'
  <2>1. \E c : job' = [job EXCEPT ![h] = c]
    BY <1>5 DEF Revoke, RevokeUpdate, BulkSelect, BulkUpdate, EventSelect, EventUpdate, Drop,
       RevokeAudit, Begin, Walk, End
  <2>2. job'[h].pc \notin {"exists", "hset"}
    BY <1>0, <1>5 DEF JobOK, Revoke, RevokeUpdate, BulkSelect, BulkUpdate, EventSelect,
       EventUpdate, Drop, AfterDrop, RevokeAudit, Begin, Walk, End, Idle
  <2> QED
    BY <1>1, <2>1, <2>2
<1>6. ASSUME NEW h \in Handlers, Batch(h)
      PROVE  OneToken'
  <2>1. \E c : job' = [job EXCEPT ![h] = c]
    BY <1>6 DEF Batch, BatchLock, BatchSelect, BatchUpdate, BatchFinish, Begin, Walk, End
  <2>2. job'[h].pc \notin {"exists", "hset"}
    BY <1>0, <1>6 DEF JobOK, Batch, BatchLock, BatchSelect, BatchUpdate, BatchFinish, Begin,
       Walk, End, Idle
  <2> QED
    BY <1>1, <2>1, <2>2
<1>7. CASE \E h \in Handlers : Quota(h)
  <2>1. PICK h \in Handlers, u \in Tokens :
          \/ \E q \in Changed : QuotaUpdate(h, u, q)
          \/ QuotaExists(h, u) \/ QuotaHset(h, u)
    BY <1>7 DEF Quota
  <2>2. CASE \E q \in Changed : QuotaUpdate(h, u, q)
    BY <1>0, <2>2 DEF QuotaUpdate, Begin, JobOK, OneToken
  <2>3. CASE QuotaExists(h, u)
    BY <1>0, <1>3, <2>3 DEF QuotaExists, At, Go, Walk, JobOK, OneToken
  <2>4. CASE QuotaHset(h, u)
    BY <1>3, <2>4 DEF QuotaHset
  <2> QED
    BY <2>1, <2>2, <2>3, <2>4
<1>8. ASSUME NEW h \in Handlers, GetMeta(h)
      PROVE  OneToken'
  <2>1. UNCHANGED job \/ \E c : job' = [job EXCEPT ![h] = c]
    BY <1>8 DEF GetMeta, GetMetaSelect, GetMetaFill, Begin, End
  <2>2. UNCHANGED job \/ job'[h].pc \notin {"exists", "hset"}
    BY <1>0, <1>8 DEF JobOK, GetMeta, GetMetaSelect, GetMetaFill, Begin, End, Idle
  <2> QED
    BY <1>1, <2>1, <2>2
<1>9. CASE Gateway
  <2>1. \A h \in Handlers : job'[h].pc = job[h].pc /\ job'[h].ids = job[h].ids
    <3>1. CASE \E r \in Requests : GwFetchFailed(r)
      BY <3>1 DEF GwFetchFailed, TypeOK, Coroutine, Fields
    <3>2. CASE UNCHANGED job
      BY <3>2
    <3> QED
      BY <1>9, <3>1, <3>2 DEF Gateway, GwStart, GwRedisDown, GwHit, GwMiss, GwNeg, GwFetched,
                              GwDone
  <2> QED
    BY <2>1 DEF OneToken
<1>10. CASE Environment
  <2>1. CASE Crash
    BY <2>1 DEF Crash, Idle, OneToken
  <2>2. CASE UNCHANGED job
    BY <2>2 DEF OneToken
  <2> QED
    BY <1>3, <1>10, <2>1, <2>2 DEF Environment, Expire, CacheTtl, NegTtl, Evict, LockTtl, Raise
<1>11. CASE UNCHANGED vars
  BY <1>11 DEF vars, OneToken
<1> QED
  BY <1>4, <1>5, <1>6, <1>7, <1>8, <1>9, <1>10, <1>11 DEF Next, Portal

\* A quota change sets out for the cache as it writes the row, and gives up only
\* when it finds no entry.
LEMMA ChangeMovesQuota ==
  ASSUME TypeOK, OneToken, NEW t \in Tokens, NEW l \in Limits, NEW h \in Handlers, Quota(h)
  PROVE  QuotaMoves(t, l)
<1>0. JobOK
  BY DEF TypeOK, JobOK
<1>1. ASSUME NEW u \in Tokens, NEW q \in Changed, QuotaUpdate(h, u, q)
      PROVE  QuotaMoves(t, l)
  <2>1. /\ cache' = cache /\ job[h].pc = "idle"
        /\ UNCHANGED job \/ \E c : job' = [job EXCEPT ![h] = c]
    BY <1>0, <1>1 DEF QuotaUpdate, Starts, Begin, JobOK, Coroutine
  <2>2. CASE t = u
    <3>1. quotaRow'[t] = q
      BY <1>1, <2>2 DEF QuotaUpdate, TypeOK
    <3>2. CASE l = "burst"
      <4>1. CASE q["burst"] = quotaRow[t]["burst"] /\ UNCHANGED job
        BY <2>1, <3>1, <3>2, <4>1 DEF QuotaMoves, Kept, Changing
      <4>2. CASE Begin(h, "quota", "exists", {u}, {}, WithBurst(DefaultQuota, q), NoReq)
        <5>1. t \in job'[h].ids /\ job'[h].pc = "exists"
          BY <1>0, <2>2, <4>2 DEF Begin, JobOK
        <5> QED
          BY <2>1, <3>2, <5>1 DEF QuotaMoves, Kept, Changing
      <4> QED
        BY <1>1, <2>2, <4>1, <4>2 DEF QuotaUpdate
    <3>3. CASE l # "burst"
      BY <2>1, <3>3 DEF QuotaMoves, Kept, Unbrought, FullEntry, Cached
    <3> QED
      BY <3>2, <3>3
  <2>3. CASE t # u
    <3>1. quotaRow'[t] = quotaRow[t]
      BY <1>1, <2>3 DEF QuotaUpdate, TypeOK
    <3> QED
      BY <1>0, <2>1, <3>1, BystanderMoves
  <2> QED
    BY <2>2, <2>3
<1>2. ASSUME NEW u \in Tokens, QuotaExists(h, u)
      PROVE  QuotaMoves(t, l)
  <2>1. cache' = cache /\ quotaRow' = quotaRow /\ job[h].pc = "exists" /\ u \in job[h].ids
    BY <1>2 DEF QuotaExists, At
  <2>2. CASE ~Cached(t)
    BY <2>1, <2>2 DEF QuotaMoves, Kept, FullEntry, Cached
  <2>3. CASE t \notin job[h].ids /\ \E c : job' = [job EXCEPT ![h] = c]
    <3>1. Changing(t) => Changing(t)'
      BY <1>0, <2>3 DEF JobOK, Changing
    <3> QED
      BY <2>1, <3>1 DEF QuotaMoves, Kept
  <2>4. CASE t \in job[h].ids /\ Cached(t)
    <3>1. Go(h, "hset") /\ t = u
      BY <1>2, <2>1, <2>4 DEF QuotaExists, OneToken
    <3>2. Changing(t)'
      BY <1>0, <2>4, <3>1 DEF Go, Walk, JobOK, Changing
    <3> QED
      BY <2>1, <3>2 DEF QuotaMoves, Kept
  <2> QED
    BY <1>2, <2>2, <2>3, <2>4 DEF QuotaExists, Go, Walk, End
<1>3. ASSUME NEW u \in Tokens, QuotaHset(h, u)
      PROVE  QuotaMoves(t, l)
  <2>1. quotaRow' = quotaRow /\ job[h].pc = "hset" /\ u \in job[h].ids /\ job' = [job EXCEPT ![h] = Idle]
    BY <1>3 DEF QuotaHset, At, End
  <2>2. CASE t = u
    <3> DEFINE kept == WithBurst(cache[t].quota, job[h].quota)
               bare == WithBurst(DefaultQuota, job[h].quota)
    <3>1. job[h].quota \in Quotas
      BY <1>3, <2>1 DEF TypeOK, Coroutine
    <3>2. cache[t] # NoEntry => kept["burst"] = job[h].quota["burst"]
                                /\ kept["rest"] = cache[t].quota["rest"]
      BY <3>1, QuotaValues DEF TypeOK, Entry
    <3>3. cache' = [cache EXCEPT ![t] =
                      IF Cached(t) THEN [@ EXCEPT !.quota = kept]
                      ELSE [full |-> FALSE, ttl |-> FALSE, quota |-> bare]]
      BY <1>3, <2>2 DEF QuotaHset
    <3> HIDE DEF kept, bare
    <3>4. CASE ~Cached(t)
      <4>1. cache'[t].full = FALSE
        BY <3>3, <3>4 DEF TypeOK
      <4> QED
        BY <4>1 DEF QuotaMoves, FullEntry
    <3>5. CASE Cached(t)
      <4>1. cache'[t].full = cache[t].full /\ cache'[t].quota = kept
        BY <3>3, <3>5 DEF TypeOK, Entry, Cached
      <4>2. CASE l = "burst"
        BY <2>1, <2>2, <3>2, <3>5, <4>1, <4>2 DEF QuotaMoves, Writes, Cached
      <4>3. CASE l = "rest" /\ FullEntry(t)
        BY <2>1, <3>2, <3>5, <4>1, <4>3 DEF QuotaMoves, Kept, Cached
      <4>4. CASE ~FullEntry(t)
        BY <3>5, <4>1, <4>4 DEF QuotaMoves, FullEntry
      <4> QED
        BY <4>2, <4>3, <4>4 DEF Limits
    <3> QED
      BY <3>4, <3>5
  <2>3. CASE t # u
    <3>1. t \notin job[h].ids /\ cache'[t] = cache[t]
      BY <1>3, <2>1, <2>3 DEF QuotaHset, OneToken, TypeOK
    <3>2. Changing(t) => Changing(t)'
      BY <1>0, <2>1, <3>1 DEF JobOK, Changing
    <3> QED
      BY <2>1, <3>1, <3>2 DEF QuotaMoves, Kept
  <2> QED
    BY <2>2, <2>3
<1> QED
  BY <1>1, <1>2, <1>3 DEF Quota

\* The fallback writes what it read.
LEMMA GetMetaMovesQuota ==
  ASSUME TypeOK, NEW t \in Tokens, NEW l \in Limits, NEW h \in Handlers, GetMeta(h)
  PROVE  QuotaMoves(t, l)
<1>0. JobOK /\ (UNCHANGED job \/ \E c : job' = [job EXCEPT ![h] = c]) /\ quotaRow' = quotaRow
  BY DEF TypeOK, JobOK, GetMeta, GetMetaSelect, GetMetaFill, Begin, End
<1>1. job[h].pc \notin {"exists", "hset"}
  BY DEF TypeOK, Coroutine, GetMeta, GetMetaSelect, GetMetaFill, Starts, At
<1>2. CASE cache'[t] = cache[t]
  BY <1>0, <1>1, <1>2, BystanderMoves
<1>3. CASE cache'[t] # cache[t]
  <2>1. PICK u \in Tokens : GetMetaFill(h, u)
    BY <1>3 DEF GetMeta, GetMetaSelect
  <2>2. t = u /\ cache'[t].quota[l] = job[h].quota[l]
    BY <1>3, <2>1 DEF GetMetaFill, TypeOK
  <2> QED
    BY <1>0, <2>1, <2>2 DEF GetMetaFill, At, QuotaMoves, Writes
<1> QED
  BY <1>2, <1>3

\* Calls and time write no quota; a failure that ends a change is counted.
LEMMA OutsideMovesQuota ==
  ASSUME TypeOK, NEW t \in Tokens, NEW l \in Limits, Gateway \/ Environment
  PROVE  QuotaMoves(t, l)
<1>1. quotaRow' = quotaRow
  BY DEF Gateway, GwStart, GwRedisDown, GwHit, GwMiss, GwNeg, GwFetchFailed,
         GwFetched, GwDone, Environment, Expire, CacheTtl, NegTtl, Evict, LockTtl,
         Raise, Crash
<1>2. cache'[t] \in {cache[t], NoEntry}
  <2>1. CASE \E u \in Tokens : CacheTtl(u) \/ Evict(u)
    BY <2>1 DEF CacheTtl, Evict, TypeOK
  <2>2. CASE cache' = cache
    BY <2>2
  <2> QED
    BY <2>1, <2>2 DEF Gateway, GwStart, GwRedisDown, GwHit, GwMiss, GwNeg, GwFetchFailed,
       GwFetched, GwDone, Environment, Expire, NegTtl, LockTtl, Raise, Crash
<1>3. Changing(t) => Changing(t)' \/ faults' # faults
  <2>1. CASE \A h \in Handlers : job'[h].pc = job[h].pc /\ job'[h].ids = job[h].ids
    BY <2>1 DEF Changing
  <2>2. CASE Gateway
    <3>1. CASE \E r \in Requests : GwFetchFailed(r)
      BY <2>1, <3>1 DEF GwFetchFailed, TypeOK, Coroutine, Fields
    <3>2. CASE UNCHANGED job
      BY <2>1, <3>2
    <3> QED
      BY <2>2, <3>1, <3>2 DEF Gateway, GwStart, GwRedisDown, GwHit, GwMiss, GwNeg, GwFetched,
                              GwDone
  <2>3. CASE Environment
    <3>1. UNCHANGED job \/ faults' # faults
      BY <2>3 DEF Environment, Expire, CacheTtl, NegTtl, Evict, LockTtl, Raise, Crash, TypeOK
    <3> QED
      BY <2>1, <3>1
  <2> QED
    BY <2>2, <2>3
<1>4. CASE cache'[t] = cache[t]
  BY <1>1, <1>3, <1>4 DEF QuotaMoves, Kept
<1>5. CASE cache'[t] = NoEntry
  BY <1>5 DEF QuotaMoves, Kept, FullEntry, Cached
<1> QED
  BY <1>2, <1>4, <1>5

LEMMA StepMovesQuota ==
  ASSUME TypeOK, OneToken, NEW t \in Tokens, NEW l \in Limits, Unset(t), Next
  PROVE  QuotaMoves(t, l)
  BY IssueMovesQuota, WithdrawMovesQuota, ChangeMovesQuota, GetMetaMovesQuota, OutsideMovesQuota
  DEF Next, Portal

\* A row that does not exist yet is not changed.
LEMMA StaysUnset ==
  ASSUME TypeOK, NEW t \in Tokens, Unset(t), Next
  PROVE  Unset(t)'
<1>1. Absent(t)' => Absent(t)
  BY LedgerForward
<1>2. Absent(t) => quotaRow'[t] \in {quotaRow[t], DefaultQuota}
  <2>1. CASE \E h \in Handlers, u \in Tokens, q \in Changed : QuotaUpdate(h, u, q)
    BY <2>1 DEF QuotaUpdate, TypeOK
  <2>2. CASE \E h \in Handlers, u \in Tokens : IssueInsert(h, u)
    BY <2>2 DEF IssueInsert, TypeOK
  <2>3. CASE quotaRow' = quotaRow
    BY <2>3
  <2>4. CASE \E h \in Handlers : Issue(h)
    BY <2>2, <2>3, <2>4
    DEF Issue, IssueCountApp, IssueCountUser, IssueCache, IssueAudit
  <2>5. CASE \E h \in Handlers : Quota(h)
    BY <2>1, <2>3, <2>5 DEF Quota, QuotaExists, QuotaHset
  <2>6. CASE \E h \in Handlers : Revoke(h) \/ Batch(h) \/ GetMeta(h)
    BY <2>3, <2>6
    DEF Revoke, RevokeUpdate, BulkSelect, BulkUpdate, EventSelect, EventUpdate, Drop,
        RevokeAudit, Batch, BatchLock, BatchSelect, BatchUpdate, BatchFinish, GetMeta,
        GetMetaSelect, GetMetaFill
  <2>7. CASE Gateway \/ Environment
    BY <2>3, <2>7
    DEF Gateway, GwStart, GwRedisDown, GwHit, GwMiss, GwNeg, GwFetchFailed, GwFetched, GwDone,
        Environment, Expire, CacheTtl, NegTtl, Evict, LockTtl, Raise, Crash
  <2> QED
    BY <2>4, <2>5, <2>6, <2>7 DEF Next, Portal
<1> QED
  BY <1>1, <1>2 DEF Unset

\* The inductive form: whoever is on the way to the cache with a quota that is
\* not the row's has marked its token.
QuotaCarried ==
  \A t \in Tokens :
    /\ Unset(t)
    /\ \A l \in Limits :
         t \notin skewed[l] =>
           /\ ~Outdated(t, l)
           /\ FullEntry(t) /\ (l = "burst" => ~Changing(t)) => cache[t].quota[l] = quotaRow[t][l]

LEMMA StepCarried == HTypeOK /\ OneToken /\ QuotaCarried /\ HNext => QuotaCarried'
<1> SUFFICES ASSUME HTypeOK, OneToken, QuotaCarried, HNext, NEW t \in Tokens
             PROVE  /\ Unset(t)'
                    /\ \A l \in Limits :
                         t \notin skewed'[l] =>
                           /\ ~Outdated(t, l)'
                           /\ FullEntry(t)' /\ (l = "burst" => ~Changing(t)')
                                => cache'[t].quota[l] = quotaRow'[t][l]
  BY DEF QuotaCarried
<1>1. TypeOK /\ Next /\ SkewedNext /\ Unset(t)
  BY DEF HNext, HTypeOK, QuotaCarried
<1>2. Unset(t)'
  BY <1>1, StaysUnset
<1>3. ASSUME NEW l \in Limits, t \notin skewed'[l]
      PROVE  /\ ~Outdated(t, l)' /\ ~Unbrought(t, l)
             /\ ~(l = "burst" /\ faults' # faults /\ Changing(t))
             /\ t \notin skewed[l] \/ ~(Cached(t) \/ Holding(t) \/ Changing(t))
  BY <1>1, <1>3 DEF SkewedNext
<1>5. ASSUME NEW l \in Limits, t \notin skewed'[l], FullEntry(t)', l = "burst" => ~Changing(t)'
      PROVE  cache'[t].quota[l] = quotaRow'[t][l]
  <2>0. QuotaMoves(t, l)
    BY <1>1, StepMovesQuota
  <2>1. CASE t \notin skewed[l]
    <3>1. /\ ~Outdated(t, l)
          /\ FullEntry(t) /\ (l = "burst" => ~Changing(t)) => cache[t].quota[l] = quotaRow[t][l]
      BY <2>1 DEF QuotaCarried
    <3>2. ASSUME NEW h \in Handlers, Writes(h, t, l)
          PROVE  cache'[t].quota[l] = quotaRow[t][l]
      BY <3>1, <3>2 DEF Writes, Outdated
    <3>3. Kept(t, l) => FullEntry(t) /\ cache'[t].quota[l] = cache[t].quota[l]
      BY <1>5 DEF Kept, FullEntry, Cached
    <3> QED
      BY <1>3, <1>5, <2>0, <3>1, <3>2, <3>3 DEF QuotaMoves
  <2>2. CASE ~Cached(t) /\ ~Holding(t) /\ ~Changing(t)
    <3>1. \A h \in Handlers : ~Writes(h, t, l)
      BY <2>2 DEF Writes, Holding, Changing
    <3>2. ~Kept(t, l)
      BY <1>5, <2>2 DEF Kept, FullEntry, Cached
    <3> QED
      BY <1>5, <2>0, <3>1, <3>2 DEF QuotaMoves
  <2> QED
    BY <1>3, <1>5, <2>1, <2>2
<1> QED
  BY <1>2, <1>3, <1>5

\* Every limit the gateway takes from the cache is the ledger's, unless it is another
\* than burst that was changed while cached, or a change of the burst is on its way,
\* or one overlapped another or a fill, failed, or was to 0 (update_quota).
THEOREM QuotasAgree == HSpec => []QuotaAgrees
<1>1. HInit => OneToken /\ QuotaCarried
  BY DEF HInit, Init, Idle, OneToken, QuotaCarried, Unset, Outdated, FullEntry, Cached
<1>2. HTypeOK /\ OneToken /\ QuotaCarried /\ [HNext]_hvars => OneToken' /\ QuotaCarried'
  <2>1. CASE UNCHANGED hvars
    BY <2>1 DEF hvars, vars, OneToken, QuotaCarried, Unset, Absent, Outdated, FullEntry, Cached,
                Changing
  <2> QED
    BY <2>1, StepOneToken, StepCarried DEF HNext, HTypeOK
<1>3. QuotaCarried => QuotaAgrees
  BY DEF QuotaCarried, QuotaAgrees
<1> QED
  BY <1>1, <1>2, <1>3, TypeCorrect, PTL DEF HSpec

-----------------------------------------------------------------------------
(* The token life cycle implements PatAccess, for every number of tokens,  *)
(* handlers and requests: each of its steps is a step of PatAccess or none. *)

\* What the abstract state of a token says of the concrete one.
LEMMA AccessValue ==
  ASSUME TypeOK, NEW t \in Tokens
  PROVE  /\ accessMap[t] \in {"none", "open", "closing", "closed"}
         /\ accessMap[t] = "none"    <=> Absent(t)
         /\ accessMap[t] = "open"    <=> Live(t)
         /\ accessMap[t] = "closing" <=> Dead(t) /\ Copy(t)
         /\ accessMap[t] = "closed"  <=> Dead(t) /\ ~Copy(t)
<1>1. \/ Absent(t) /\ ~Live(t) /\ ~Dead(t)
      \/ ~Absent(t) /\ Live(t) /\ ~Dead(t)
      \/ ~Absent(t) /\ ~Live(t) /\ Dead(t)
  BY DEF TypeOK, Statuses, Absent, Live, Dead
<1>2. accessMap[t] = CASE Absent(t) -> "none"
                       [] Live(t) -> "open"
                       [] Dead(t) /\ Copy(t) -> "closing"
                       [] OTHER -> "closed"
  BY DEF accessMap
<1>3. CASE Absent(t)
  BY <1>1, <1>2, <1>3
<1>4. CASE Live(t)
  BY <1>1, <1>2, <1>4
<1>5. CASE Dead(t)
  BY <1>1, <1>2, <1>5
<1> QED
  BY <1>1, <1>3, <1>4, <1>5

\* Its type, and what it says after a step.
LEMMA AccessFunction ==
  /\ accessMap  = [t \in Tokens |-> accessMap[t]]
  /\ accessMap' = [t \in Tokens |-> accessMap'[t]]
  BY DEF accessMap

-----------------------------------------------------------------------------
(* The tokens a coroutine has selected exist.                              *)

Selecting == BatchOps \cup {"bulk", "event"}

Selected ==
  \A h \in Handlers : job[h].op \in Selecting => \A t \in job[h].ids : ~Absent(t)

\* A selection only ever holds tokens that exist, and shrinks afterwards.
LEMMA SelectionMoves ==
  ASSUME TypeOK, Next, NEW h \in Handlers, NEW t \in Tokens,
         job'[h].op \in Selecting, t \in job'[h].ids
  PROVE  (job[h].op \in Selecting /\ t \in job[h].ids) \/ ~Absent(t)
<1> USE DEF TypeOK, Selecting, BatchOps
<1>1. CASE job'[h] = job[h]
  BY <1>1
<1>2. CASE \E g \in Handlers : Issue(g) \/ Quota(g)
  BY <1>2 DEF Issue, IssueCountApp, IssueCountUser, IssueInsert, IssueCache, IssueAudit,
     Quota, QuotaUpdate, QuotaExists, QuotaHset, At, Begin, Go, Walk, End, Idle
<1>3. CASE \E g \in Handlers : Revoke(g)
  BY <1>3 DEF Revoke, RevokeUpdate, BulkSelect, BulkUpdate, EventSelect, EventUpdate,
     Drop, RevokeAudit, At, Begin, Walk, End, Idle, Live, Absent
<1>4. CASE \E g \in Handlers : Batch(g)
  <2>1. CASE \E g \in Handlers, op \in BatchOps : BatchLock(g, op)
    BY <2>1 DEF BatchLock, Begin
  <2>2. CASE \E g \in Handlers, ids \in SUBSET Tokens : BatchSelect(g, ids)
    BY <2>2 DEF BatchSelect, Walk, Live, Absent
  <2>3. CASE \E g \in Handlers, u \in Tokens : BatchUpdate(g, u)
    BY <2>3 DEF BatchUpdate, Walk
  <2>4. CASE \E g \in Handlers : BatchFinish(g)
    BY <2>4 DEF BatchFinish, End, Idle
  <2> QED
    BY <1>4, <2>1, <2>2, <2>3, <2>4 DEF Batch
<1>5. CASE \E g \in Handlers : GetMeta(g)
  <2>1. PICK g \in Handlers : GetMeta(g)
    BY <1>5
  <2>2. g # h => job'[h] = job[h]
    BY <2>1 DEF GetMeta, GetMetaSelect, GetMetaFill, Begin, End
  <2>3. job'[g] = job[g] \/ job'[g].op \in {"getmeta", "none"}
    BY <2>1 DEF GetMeta, GetMetaSelect, GetMetaFill, Begin, End, Idle
  <2> QED
    BY <1>1, <2>2, <2>3
<1>6. CASE Gateway
  <2>1. CASE \E r \in Requests : GwFetchFailed(r)
    <3>1. job'[h].op = job[h].op /\ job'[h].ids = job[h].ids
      BY <2>1 DEF GwFetchFailed, Coroutine, Fields
    <3> QED
      BY <3>1
  <2>2. CASE UNCHANGED job
    BY <2>2
  <2> QED
    BY <1>6, <2>1, <2>2
    DEF Gateway, GwStart, GwRedisDown, GwHit, GwMiss, GwNeg, GwFetched, GwDone
<1>7. CASE Environment
  BY <1>7 DEF Environment, Expire, CacheTtl, NegTtl, Evict, LockTtl, Raise, Crash, End, Idle
<1> QED
  BY <1>2, <1>3, <1>4, <1>5, <1>6, <1>7 DEF Next, Portal

\* So they exist always.
LEMMA AlwaysSelected == HSpec => []Selected
<1>1. HInit => Selected
  BY DEF HInit, Init, Idle, Selected
<1>2. HTypeOK /\ Selected /\ [HNext]_hvars => Selected'
  <2> SUFFICES ASSUME HTypeOK, Selected, [HNext]_hvars, NEW h \in Handlers, NEW t,
                      job'[h].op \in Selecting, t \in job'[h].ids
               PROVE  ~Absent(t)'
    BY DEF Selected, Selecting
  <2>1. CASE UNCHANGED hvars
    BY <2>1 DEF hvars, vars, Selected, Absent
  <2>2. CASE HNext
    <3>1. TypeOK /\ TypeOK' /\ Next
      BY <2>2, NextTyped DEF HTypeOK, HNext
    <3>2. t \in Tokens
      BY <3>1 DEF TypeOK, Coroutine, Fields
    <3>3. ~Absent(t)
      BY <3>1, <3>2, SelectionMoves DEF Selected
    <3> QED
      BY <3>1, <3>2, <3>3, LedgerForward
  <2> QED
    BY <2>1, <2>2
<1> QED
  BY <1>1, <1>2, TypeCorrect, PTL DEF HSpec

-----------------------------------------------------------------------------
(* The abstract view of a step.                                            *)

\* A call is in begunOpen only while it is in progress.
Begun == \A r \in begunOpen : req[r].pc # "idle"

LEMMA AlwaysBegun == HSpec => []Begun
<1>1. HInit => Begun
  BY DEF HInit, Begun
<1>2. Begun /\ [HNext]_hvars => Begun'
  BY DEF Begun, HNext, BegunNext, hvars, vars
<1> QED
  BY <1>1, <1>2, PTL DEF HSpec

\* A token whose row and copies stay keeps its abstract state.
LEMMA SameAccess ==
  ASSUME NEW t \in Tokens, ledger'[t] = ledger[t], Dead(t) => (Copy(t)' <=> Copy(t))
  PROVE  accessMap'[t] = accessMap[t]
<1>1. CASE Dead(t)
  BY <1>1 DEF accessMap, Absent, Live, Dead
<1>2. CASE ~Dead(t)
  BY <1>2 DEF accessMap, Absent, Live, Dead
<1> QED
  BY <1>1, <1>2

\* What the new row of a token says of its new abstract state.
LEMMA NewAccess ==
  ASSUME NEW t \in Tokens
  PROVE  /\ Live(t)' => accessMap'[t] = "open"
         /\ Dead(t)' => accessMap'[t] \in {"closing", "closed"}
<1>1. Live(t)' => accessMap'[t] = "open"
  <2> SUFFICES ASSUME Live(t)' PROVE accessMap'[t] = "open"
    OBVIOUS
  <2>1. ~Absent(t)' /\ ~Dead(t)'
    BY DEF Absent, Live, Dead
  <2> QED
    BY <2>1 DEF accessMap
<1>2. Dead(t)' => accessMap'[t] \in {"closing", "closed"}
  <2> SUFFICES ASSUME Dead(t)' PROVE accessMap'[t] \in {"closing", "closed"}
    OBVIOUS
  <2>1. ~Absent(t)' /\ ~Live(t)'
    BY DEF Absent, Live, Dead
  <2> QED
    BY <2>1 DEF accessMap
<1> QED
  BY <1>1, <1>2

\* The pcs of a call that has no answer yet.
Pending == {"lookup", "neg", "fetch", "wait", "noPat", "answered"}

\* A call that stays, or goes on unanswered on its token, looks the same.
LEMMA SameCall ==
  ASSUME HTypeOK, Begun, BegunNext, NEW r \in Requests,
         \/ req'[r] = req[r]
         \/ /\ req'[r].tok = req[r].tok
            /\ req[r].pc \in Pending /\ req'[r].pc \in Pending
  PROVE  callMap'[r] = callMap[r]
<1>1. (r \in begunOpen)' <=> r \in begunOpen
  BY DEF BegunNext, Begun, Pending
<1>2. CASE req'[r] = req[r]
  BY <1>1, <1>2 DEF callMap
<1>3. CASE req'[r].tok = req[r].tok /\ req[r].pc \in Pending /\ req'[r].pc \in Pending
  BY <1>1, <1>3 DEF callMap, Pending
<1> QED
  BY <1>2, <1>3

LEMMA SameCalls ==
  ASSUME \A r \in Requests : callMap'[r] = callMap[r]
  PROVE  callMap' = callMap
  BY DEF callMap

-----------------------------------------------------------------------------
(* Each kind of step.                                                      *)

\* The insert of a token grants it.
LEMMA InsertGrants ==
  ASSUME HTypeOK, Begun, HNext, NEW h \in Handlers, NEW u \in Tokens, IssueInsert(h, u)
  PROVE  Access!Grant({u})
<1>1. /\ Absent(u) /\ Live(u)'
      /\ \A t \in Tokens \ {u} : ledger'[t] = ledger[t]
      /\ UNCHANGED <<cache, req>>
  BY DEF IssueInsert, HTypeOK, TypeOK, Absent, Live, redis
<1>2. \A t \in Tokens \ {u} : Holding(t)' <=> Holding(t)
  BY DEF IssueInsert, At, Walk, Holding, HTypeOK, TypeOK
<1>3. \A t \in Tokens \ {u} : accessMap'[t] = accessMap[t]
  BY <1>1, <1>2, SameAccess DEF Copy, FullEntry, Cached
<1>4. accessMap[u] = "none" /\ accessMap'[u] = "open"
  BY <1>1, NewAccess, AccessValue DEF HTypeOK
<1>5. accessMap' = [t \in Tokens |-> IF t \in {u} THEN "open" ELSE accessMap[t]]
  BY <1>3, <1>4, AccessFunction
<1>6. callMap' = callMap
  BY <1>1, SameCall, SameCalls DEF HNext
<1> QED
  BY <1>4, <1>5, <1>6 DEF Access!Grant

\* An UPDATE of the status withdraws tokens that are open. Those withdrawn
\* before are as they were, for it touches no copy.
LEMMA UpdateWithdraws ==
  ASSUME HTypeOK, Begun, HNext, UNCHANGED <<cache, req>>,
         \A t \in Tokens : Holding(t)' <=> Holding(t),
         \A t \in Tokens : ledger'[t] = ledger[t] \/ (~Absent(t) /\ Dead(t)')
  PROVE  Access!Next
<1> DEFINE T == {t \in Tokens : Live(t) /\ Dead(t)'}
           to == [t \in T |-> accessMap'[t]]
<1>1. \A t \in Tokens : Copy(t)' <=> Copy(t)
  BY DEF Copy, FullEntry, Cached
<1>2. \A t \in T : accessMap[t] = "open" /\ to[t] \in {"closing", "closed"}
  BY NewAccess, AccessValue DEF HTypeOK
<1>3. \A t \in Tokens \ T : accessMap'[t] = accessMap[t]
  <2> SUFFICES ASSUME NEW t \in Tokens \ T PROVE accessMap'[t] = accessMap[t]
    OBVIOUS
  <2>1. CASE ledger'[t] = ledger[t]
    BY <1>1, <2>1, SameAccess
  <2>2. CASE ~Absent(t) /\ Dead(t)'
    <3>1. Dead(t)
      BY <2>2 DEF HTypeOK, TypeOK, Statuses, Absent, Live, Dead
    <3> QED
      BY <1>1, <2>2, <3>1 DEF accessMap, Absent, Live, Dead
  <2> QED
    BY <2>1, <2>2
<1>4. accessMap' = [t \in Tokens |-> IF t \in T THEN to[t] ELSE accessMap[t]]
  BY <1>3, AccessFunction
<1>5. callMap' = callMap
  BY SameCall, SameCalls DEF HNext
<1>6. T \in SUBSET Tokens /\ to \in [T -> {"closing", "closed"}]
  BY <1>2
<1>7. Access!Withdraw(T, to)
  BY <1>2, <1>4, <1>5 DEF Access!Withdraw
<1> HIDE DEF T, to
<1> QED
  BY <1>6, <1>7 DEF Access!Next

\* Any other step but of the gateway closes the tokens that lose their last
\* copy, if any.
LEMMA QuietCloses ==
  ASSUME HTypeOK, Begun, HNext, UNCHANGED ledger,
         \A r \in Requests : \/ req'[r] = req[r]
                             \/ /\ req'[r].tok = req[r].tok
                                /\ req[r].pc \in Pending /\ req'[r].pc \in Pending
  PROVE  Access!Next
<1> DEFINE T == {t \in Tokens : Dead(t) /\ Copy(t) /\ ~Copy(t)'}
<1>1. \A t \in T : accessMap[t] = "closing" /\ accessMap'[t] = "closed"
  <2> SUFFICES ASSUME NEW t \in T PROVE accessMap[t] = "closing" /\ accessMap'[t] = "closed"
    OBVIOUS
  <2>1. ~Absent(t)' /\ ~Live(t)' /\ ~Copy(t)'
    BY DEF Absent, Live, Dead
  <2> QED
    BY <2>1, AccessValue DEF HTypeOK, accessMap
<1>2. \A t \in Tokens \ T : accessMap'[t] = accessMap[t]
  <2> SUFFICES ASSUME NEW t \in Tokens \ T PROVE accessMap'[t] = accessMap[t]
    OBVIOUS
  <2>1. Dead(t) => (Copy(t)' <=> Copy(t))
    BY StepHarmless DEF Harmless, Copy, HNext, HTypeOK
  <2> QED
    BY <2>1, SameAccess
<1>3. accessMap' = [t \in Tokens |-> IF t \in T THEN "closed" ELSE accessMap[t]]
  BY <1>1, <1>2, AccessFunction
<1>4. callMap' = callMap
  BY SameCall, SameCalls DEF HNext
<1>5. Access!Close(T)
  BY <1>1, <1>3, <1>4 DEF Access!Close
<1> QED
  BY <1>5 DEF Access!Next

\* The gateway touches no token.
LEMMA GatewayKeepsAccess ==
  ASSUME HTypeOK, Gateway
  PROVE  accessMap' = accessMap
<1>1. UNCHANGED <<ledger, cache>>
  BY DEF Gateway, GwStart, GwRedisDown, GwHit, GwMiss, GwNeg, GwFetchFailed,
         GwFetched, GwDone, pg, redis
<1>2. ASSUME NEW t \in Tokens PROVE Holding(t)' <=> Holding(t)
  <2>1. CASE \E r \in Requests : GwFetchFailed(r)
    <3>1. \A h \in Handlers : /\ job'[h].op = job[h].op /\ job'[h].pc = job[h].pc
                              /\ job'[h].ids = job[h].ids
      BY <2>1 DEF GwFetchFailed, HTypeOK, TypeOK, Coroutine, Fields
    <3> QED
      BY <3>1 DEF Holding
  <2>2. CASE UNCHANGED job
    BY <2>2 DEF Holding
  <2> QED
    BY <2>1, <2>2
    DEF Gateway, GwStart, GwRedisDown, GwHit, GwMiss, GwNeg, GwFetched, GwDone
<1>3. \A t \in Tokens : accessMap'[t] = accessMap[t]
  BY <1>1, <1>2, SameAccess DEF Copy, FullEntry, Cached
<1> QED
  BY <1>3, AccessFunction

\* All calls but one stay.
LEMMA OneCall ==
  ASSUME HTypeOK, Begun, BegunNext, NEW s \in Requests,
         \A r \in Requests \ {s} : req'[r] = req[r]
  PROVE  callMap' = [callMap EXCEPT ![s] = callMap'[s]]
<1>1. \A r \in Requests \ {s} : callMap'[r] = callMap[r]
  BY SameCall
<1> QED
  BY <1>1 DEF callMap

\* A call that is answered, and let in only if it began open.
LEMMA AnswerStep ==
  ASSUME HTypeOK, Begun, BegunNext, CallsBeganOpen', accessMap' = accessMap,
         NEW s \in Requests, \A r \in Requests \ {s} : req'[r] = req[r],
         req[s].pc \in Pending, req'[s].tok = req[s].tok,
         req'[s].pc \in {"accepted", "refused", "unavailable"}
  PROVE  Access!Next
<1> DEFINE a == IF req'[s].pc = "accepted" THEN "accepted" ELSE "refused"
<1>1. /\ req[s].tok \in Tokens
      /\ (s \in begunOpen)' <=> s \in begunOpen
  BY DEF HTypeOK, TypeOK, Call, NoCall, Pending, BegunNext
<1>2. /\ callMap[s]  = [tok |-> req[s].tok, permitted |-> s \in begunOpen, answer |-> "none"]
      /\ callMap'[s] = [tok |-> req[s].tok, permitted |-> s \in begunOpen, answer |-> a]
  BY <1>1 DEF callMap, Pending
<1>3. a = "accepted" => s \in begunOpen
  BY <1>1 DEF CallsBeganOpen, Winning
<1>4. callMap' = [callMap EXCEPT ![s].answer = a]
  BY <1>2, OneCall DEF callMap
<1>5. callMap[s].tok \in Tokens /\ callMap[s].answer = "none"
  BY <1>1, <1>2
<1>6. a = "accepted" => callMap[s].permitted
  <2>1. callMap[s].permitted = (s \in begunOpen)
    BY <1>2
  <2> QED
    BY <1>3, <2>1
<1>7. a \in Access!Answers
  BY DEF Access!Answers
<1> HIDE DEF a
<1>8. Access!Answer(s, a)
  BY <1>4, <1>5, <1>6 DEF Access!Answer
<1> QED
  BY <1>7, <1>8 DEF Access!Next

\* A call that begins.
LEMMA StartStep ==
  ASSUME HTypeOK, Begun, HNext, accessMap' = accessMap,
         NEW s \in Requests, NEW t \in Tokens, GwStart(s, t)
  PROVE  Access!Next
<1>1. /\ \A r \in Requests \ {s} : req'[r] = req[r]
      /\ req[s].pc = "idle" /\ req[s].tok = NoTok
      /\ req'[s] = [pc |-> "lookup", tok |-> t]
      /\ ~Absent(t)
  BY DEF GwStart, HTypeOK, TypeOK, Call, NoCall
<1>2. /\ s \notin begunOpen
      /\ s \in begunOpen' <=> OpenNow(t)
  BY <1>1 DEF Begun, BegunNext, HNext
<1>4. OpenNow(t) <=> Access!Open(t)
  BY AccessValue DEF HTypeOK, OpenNow, Access!Open
<1>5. callMap[s] = Access!Unused
  <2>1. (s \in begunOpen) = FALSE
    BY <1>2
  <2>2. callMap[s] = [tok |-> NoTok, permitted |-> s \in begunOpen, answer |-> "none"]
    BY <1>1 DEF callMap
  <2> QED
    BY <2>1, <2>2 DEF Access!Unused
<1>6. callMap'[s] = [tok |-> t, permitted |-> Access!Open(t), answer |-> "none"]
  <2>1. (s \in begunOpen') = Access!Open(t)
    BY <1>2, <1>4 DEF Access!Open
  <2>2. callMap'[s] = [tok |-> t, permitted |-> s \in begunOpen', answer |-> "none"]
    BY <1>1 DEF callMap
  <2> QED
    BY <2>1, <2>2
<1>7. callMap' = [callMap EXCEPT ![s] = [tok |-> t, permitted |-> Access!Open(t), answer |-> "none"]]
  BY <1>1, <1>6, OneCall DEF HNext
<1>8. accessMap[t] # "none"
  BY <1>1, AccessValue DEF HTypeOK
<1>9. Access!Begin(s, t)
  BY <1>5, <1>7, <1>8 DEF Access!Begin
<1> QED
  BY <1>9 DEF Access!Next

\* A call that ends.
LEMMA DoneStep ==
  ASSUME HTypeOK, Begun, Begun', HNext, accessMap' = accessMap,
         NEW s \in Requests, GwDone(s)
  PROVE  Access!Next
<1>1. /\ \A r \in Requests \ {s} : req'[r] = req[r]
      /\ req[s].pc \in {"accepted", "refused", "unavailable"}
      /\ req'[s].pc = "idle" /\ req'[s].tok = NoTok
  BY DEF GwDone, HTypeOK, TypeOK, NoCall
<1>2. s \notin begunOpen'
  BY <1>1 DEF Begun
<1>3. callMap[s].answer # "none"
  BY <1>1 DEF callMap
<1>4. callMap'[s] = Access!Unused
  <2>1. (s \in begunOpen') = FALSE
    BY <1>2
  <2>2. callMap'[s] = [tok |-> NoTok, permitted |-> s \in begunOpen', answer |-> "none"]
    BY <1>1 DEF callMap
  <2> QED
    BY <2>1, <2>2 DEF Access!Unused
<1>5. Access!Finish(s)
  BY <1>1, <1>3, <1>4, OneCall DEF Access!Finish, HNext
<1> QED
  BY <1>5 DEF Access!Next

\* A step of the gateway begins, answers or ends a call, or shows nothing.
LEMMA GatewayImplements ==
  ASSUME HTypeOK, Begun, Begun', CallsBeganOpen', HNext, Gateway
  PROVE  [Access!Next]_(Access!vars)
<1> USE DEF HTypeOK, TypeOK, Call, NoCall
<1>1. PICK s \in Requests :
        \/ \E t \in Tokens : GwStart(s, t)
        \/ GwRedisDown(s) \/ GwHit(s) \/ GwMiss(s) \/ GwNeg(s)
        \/ GwFetchFailed(s) \/ GwFetched(s) \/ GwDone(s)
  BY DEF Gateway
<1>2. accessMap' = accessMap /\ BegunNext
  BY GatewayKeepsAccess DEF HNext
<1>3. CASE \E t \in Tokens : GwStart(s, t)
  BY <1>2, <1>3, StartStep
<1>4. CASE GwDone(s)
  BY <1>2, <1>4, DoneStep
<1>5. ASSUME /\ \A r \in Requests \ {s} : req'[r] = req[r]
             /\ req[s].pc \in Pending /\ req'[s].tok = req[s].tok
             /\ req'[s].pc \in {"accepted", "refused", "unavailable"}
      PROVE  Access!Next
  BY <1>2, <1>5, AnswerStep
<1>6. ASSUME /\ \A r \in Requests \ {s} : req'[r] = req[r]
             /\ req[s].pc \in Pending /\ req'[s].tok = req[s].tok
             /\ req'[s].pc \in Pending
      PROVE  UNCHANGED Access!vars
  <2>1. \A r \in Requests : callMap'[r] = callMap[r]
    BY <1>2, <1>6, SameCall
  <2> QED
    BY <1>2, <2>1, SameCalls DEF Access!vars
<1>7. CASE GwRedisDown(s) \/ GwHit(s) \/ GwFetchFailed(s) \/ GwFetched(s)
  <2>1. /\ \A r \in Requests \ {s} : req'[r] = req[r]
        /\ req[s].pc \in Pending /\ req'[s].tok = req[s].tok
        /\ req'[s].pc \in {"accepted", "refused", "unavailable"}
    BY <1>7 DEF GwRedisDown, GwHit, GwFetchFailed, GwFetched, Pending
  <2> QED
    BY <1>5, <2>1
<1>8. CASE GwMiss(s) \/ GwNeg(s)
  <2>1. /\ \A r \in Requests \ {s} : req'[r] = req[r]
        /\ req[s].pc \in Pending /\ req'[s].tok = req[s].tok
        /\ req'[s].pc \in Pending \cup {"refused"}
    BY <1>8 DEF GwMiss, GwNeg, Pending
  <2> QED
    BY <1>5, <1>6, <2>1
<1> QED
  BY <1>1, <1>3, <1>4, <1>7, <1>8

\* A step of the portal grants with an insert, withdraws with an UPDATE of
\* the status, and otherwise at most closes what it drops.
LEMMA PortalImplements ==
  ASSUME HTypeOK, Begun, Selected, HNext, Portal
  PROVE  Access!Next
<1> USE DEF HTypeOK, TypeOK, Coroutine, Fields
<1>1. CASE \E h \in Handlers, u \in Tokens : IssueInsert(h, u)
  <2>1. PICK h \in Handlers, u \in Tokens : IssueInsert(h, u)
    BY <1>1
  <2>2. Access!Grant({u})
    BY <2>1, InsertGrants
  <2> QED
    BY <2>2 DEF Access!Next
<1>2. CASE \E h \in Handlers, u \in Tokens : RevokeUpdate(h, u)
  <2>1. /\ UNCHANGED <<cache, req>>
        /\ \A t \in Tokens : ledger'[t] = ledger[t] \/ (~Absent(t) /\ Dead(t)')
    BY <1>2 DEF RevokeUpdate, Dead, redis
  <2>2. \A t \in Tokens : Holding(t)' <=> Holding(t)
    BY <1>2 DEF RevokeUpdate, Starts, Begin, Holding
  <2> QED
    BY <2>1, <2>2, UpdateWithdraws
<1>3. CASE \E h \in Handlers : BulkUpdate(h)
  <2>1. /\ UNCHANGED <<cache, req>>
        /\ \A t \in Tokens : ledger'[t] = ledger[t] \/ (~Absent(t) /\ Dead(t)')
    BY <1>3 DEF BulkUpdate, At, Dead, Selected, Selecting, redis
  <2>2. \A t \in Tokens : Holding(t)' <=> Holding(t)
    BY <1>3 DEF BulkUpdate, At, Walk, Holding
  <2> QED
    BY <2>1, <2>2, UpdateWithdraws
<1>4. CASE \E h \in Handlers : EventUpdate(h)
  <2>1. /\ UNCHANGED <<cache, req>>
        /\ \A t \in Tokens : ledger'[t] = ledger[t] \/ (~Absent(t) /\ Dead(t)')
    BY <1>4 DEF EventUpdate, Live, Absent, Dead, redis
  <2>2. \A t \in Tokens : Holding(t)' <=> Holding(t)
    BY <1>4 DEF EventUpdate, At, Walk, Holding
  <2> QED
    BY <2>1, <2>2, UpdateWithdraws
<1>5. CASE \E h \in Handlers, u \in Tokens : BatchUpdate(h, u)
  <2>1. /\ UNCHANGED <<cache, req>>
        /\ \A t \in Tokens : ledger'[t] = ledger[t] \/ (~Absent(t) /\ Dead(t)')
    BY <1>5 DEF BatchUpdate, BatchStatus, Dead, Selected, Selecting, redis
  <2>2. \A t \in Tokens : Holding(t)' <=> Holding(t)
    BY <1>5 DEF BatchUpdate, BatchOps, Walk, Holding
  <2> QED
    BY <2>1, <2>2, UpdateWithdraws
<1>6. CASE \E h \in Handlers, u \in Tokens : Drop(h, u)
  BY <1>6, QuietCloses DEF Drop, pg
<1>7. CASE \E h \in Handlers : GetMeta(h)
  <2>1. CASE \E h \in Handlers, r \in Requests : GetMetaSelect(h, r)
    BY <2>1, QuietCloses DEF GetMetaSelect, Call, NoCall, Pending, pg
  <2>2. CASE \E h \in Handlers, u \in Tokens : GetMetaFill(h, u)
    BY <2>2, QuietCloses DEF GetMetaFill, Call, NoCall, Pending, pg
  <2> QED
    BY <1>7, <2>1, <2>2 DEF GetMeta
<1>8. ASSUME UNCHANGED <<ledger, req>>
      PROVE  Access!Next
  BY <1>8, QuietCloses
<1> QED
  BY <1>1, <1>2, <1>3, <1>4, <1>5, <1>6, <1>7, <1>8
  DEF Portal, Issue, Revoke, Batch, Quota, IssueCountApp, IssueCountUser, IssueCache,
      IssueAudit, BulkSelect, EventSelect, RevokeAudit, BatchLock, BatchSelect,
      BatchFinish, QuotaUpdate, QuotaExists, QuotaHset, pg

\* Time, Redis and failures only close.
LEMMA EnvironmentImplements ==
  ASSUME HTypeOK, Begun, HNext, Environment
  PROVE  Access!Next
<1>1. UNCHANGED <<ledger, req>>
  BY DEF Environment, Expire, CacheTtl, NegTtl, Evict, LockTtl, Raise, Crash, pg
<1> QED
  BY <1>1, QuietCloses

-----------------------------------------------------------------------------
\* The portal, Redis and pat-auth implement the promise of PatAccess, however
\* their steps interleave: a withdrawn token closes with its last copy, stays
\* closed, and lets in no call that begins afterwards.
THEOREM AccessImplemented == HSpec => ImplementsAccess
<1>1. HInit => Access!Init
  <2> SUFFICES ASSUME HInit PROVE Access!Init
    OBVIOUS
  <2>1. accessMap = [t \in Tokens |-> "none"]
    BY DEF HInit, Init, accessMap, Absent, Live, Dead
  <2>2. \A r \in Requests : (r \in begunOpen) = FALSE
    BY DEF HInit
  <2>3. callMap = [r \in Requests |->
                     [tok |-> NoTok, permitted |-> r \in begunOpen, answer |-> "none"]]
    BY DEF HInit, Init, NoCall, callMap
  <2>4. callMap = [r \in Requests |-> Access!Unused]
    BY <2>2, <2>3 DEF Access!Unused
  <2> QED
    BY <2>1, <2>4 DEF Access!Init
<1>2. /\ HTypeOK /\ Selected /\ Begun /\ Begun' /\ CallsBeganOpen'
      /\ [HNext]_hvars
      => [Access!Next]_(Access!vars)
  <2> SUFFICES ASSUME HTypeOK, Selected, Begun, Begun', CallsBeganOpen', [HNext]_hvars
               PROVE  [Access!Next]_(Access!vars)
    OBVIOUS
  <2>1. CASE UNCHANGED hvars
    BY <2>1 DEF hvars, vars, Access!vars, accessMap, callMap, Absent, Live, Dead, Copy,
                FullEntry, Cached, Holding
  <2>2. CASE HNext /\ Portal
    BY <2>2, PortalImplements
  <2>3. CASE HNext /\ Gateway
    BY <2>3, GatewayImplements
  <2>4. CASE HNext /\ Environment
    BY <2>4, EnvironmentImplements
  <2> QED
    BY <2>1, <2>2, <2>3, <2>4 DEF HNext, Next
<1> QED
  BY <1>1, <1>2, TypeCorrect, AlwaysSelected, AlwaysBegun, AlwaysBeganOpen, PTL
  DEF HSpec, ImplementsAccess, Access!Spec
=============================================================================
