---------------------------- MODULE PatLifecycle ----------------------------
(***************************************************************************)
(* The life of a personal access token (PAT): the ledger cdp.pat in        *)
(* Postgres, its copy cdp:pat:{tokenId} in Redis, the portal handlers that *)
(* write both and the gateway's pat-auth plugin that reads them.           *)
(*                                                                         *)
(* The portal is one asyncio process: a handler gives up the thread at     *)
(* every "await db...", and keeps it over its synchronous Redis calls.     *)
(* Each action below is the code between two such points (or between two   *)
(* Redis commands that the gateway can see apart), so handlers interleave  *)
(* at awaits, while the gateway and Redis interleave everywhere.           *)
(***************************************************************************)
EXTENDS Naturals, FiniteSets

CONSTANTS
  Tokens,        \* token ids that may be issued
  AppOf,         \* AppOf[t]: the approved application a token is issued for
  OwnerOf,       \* OwnerOf[t]: the user_sub of that application
  Values,        \* values of a limit
  DefaultQuota,  \* settings.default_* of the portal
  Handlers,      \* portal coroutines that may be in progress at a time
  Requests,      \* gateway requests that may be in progress at a time
  MaxPerApp,     \* settings.pat_max_per_app
  MaxPerUser,    \* settings.pat_max_per_user
  MaxFaults,     \* bound: handler exceptions and portal crashes explored
  Ops,           \* bound: the portal operations explored
  Changed,       \* bound: the rows a change of quota leaves
  NoEntry, NoQuota, NoReq, NoTok

AllOps == {"issue", "revoke", "bulk", "event", "bat03", "bat04", "quota",
           "getmeta"}

\* The limits of a token in the cache: burst, which update_quota brings there,
\* and "rest", one of rate_limit_tps, daily_quota and monthly_quota.
Limits == {"burst", "rest"}
Quotas == [Limits -> Values]

ASSUME DataAssumption ==
  /\ DefaultQuota \in Quotas /\ Changed \subseteq Quotas
  /\ NoQuota \notin Quotas
  /\ NoReq \notin Requests
  /\ NoTok \notin Tokens
  /\ Ops \subseteq AllOps

ASSUME NullAssumption ==
  \A f \in BOOLEAN, l \in BOOLEAN, q \in Quotas :
    NoEntry # [full |-> f, ttl |-> l, quota |-> q]

ASSUME BoundAssumption ==
  /\ MaxFaults \in Nat
  /\ MaxPerApp \in Nat
  /\ MaxPerUser \in Nat

VARIABLES
  ledger,   \* cdp.pat.status, "absent" before the row exists
  quotaRow, \* cdp.quota_policy
  past,     \* tokens whose expires_at has passed
  cache,    \* cdp:pat:{tokenId}
  neg,      \* tokens with a cdp:pat:neg:{tokenId} key
  locks,    \* cdp:batch:lock:{job} keys
  audit,    \* tokens with a PAT_REVOKED row in cdp.audit_log
  job,      \* the portal coroutines in progress
  req,      \* the gateway requests in progress
  faults    \* exceptions and crashes so far

redis  == <<cache, neg, locks>>
pg     == <<ledger, quotaRow, audit>>
vars   == <<ledger, quotaRow, past, cache, neg, locks, audit, job, req, faults>>

Statuses == {"ACTIVE", "REVOKED", "EXPIRED", "INACTIVE"}
Entry    == [full : BOOLEAN, ttl : BOOLEAN, quota : Quotas]
BatchOps == {"bat03", "bat04"}
Revokers == {"revoke", "bulk", "event"}

Pcs == {"idle", "countUser", "insert", "cache", "audit", "select", "update",
        "drop", "sweep", "exists", "hset", "fill"}

\* ids: the tokens the coroutine selected; todo: those whose cache entry it
\* has still to drop; quota, req: what it holds of a row, and for whom.
Fields == [op    : AllOps \cup {"none"},
           pc    : Pcs,
           ids   : SUBSET Tokens,
           todo  : SUBSET Tokens,
           quota : Quotas \cup {NoQuota},
           req   : Requests \cup {NoReq}]

\* A coroutine about to write a quota holds one, and only one at its drops
\* has tokens left to drop.
Coroutine ==
  {c \in Fields : /\ c.pc \in {"exists", "hset", "fill"} => c.quota \in Quotas
                  /\ c.pc \notin {"drop", "sweep"} => c.todo = {}
                  /\ c.op = "none" => c.pc = "idle"}

Idle == [op |-> "none", pc |-> "idle", ids |-> {}, todo |-> {},
         quota |-> NoQuota, req |-> NoReq]

NoCall == [pc |-> "idle", tok |-> NoTok]

Call == [pc  : {"lookup", "neg", "fetch", "wait", "noPat", "answered",
                "accepted", "refused", "unavailable"},
         tok : Tokens] \cup {NoCall}

Absent(t) == ledger[t] = "absent"
Live(t)   == ledger[t] = "ACTIVE"
Dead(t)   == ledger[t] \in {"REVOKED", "EXPIRED", "INACTIVE"}
Cached(t) == cache[t] # NoEntry

Init ==
  /\ ledger   = [t \in Tokens |-> "absent"]
  /\ quotaRow = [t \in Tokens |-> DefaultQuota]
  /\ past     = {}
  /\ cache    = [t \in Tokens |-> NoEntry]
  /\ neg      = {}
  /\ locks    = {}
  /\ audit    = {}
  /\ job      = [h \in Handlers |-> Idle]
  /\ req      = [r \in Requests |-> NoCall]
  /\ faults   = 0

-----------------------------------------------------------------------------
(* The portal's event loop.                                                *)

\* No other coroutine is inside a run of synchronous Redis calls.
HasThread(h) ==
  \A g \in Handlers \ {h} : job[g].pc \notin {"sweep", "hset"}

Starts(h, op) == op \in Ops /\ job[h].op = "none" /\ HasThread(h)

At(h, op, pc) == job[h].op = op /\ job[h].pc = pc /\ HasThread(h)

End(h) == job' = [job EXCEPT ![h] = Idle]
Walk(h, pc, ids, todo) ==
  job' = [job EXCEPT ![h] = [op |-> job[h].op, pc |-> pc, ids |-> ids,
                             todo |-> todo, quota |-> job[h].quota,
                             req |-> job[h].req]]
Go(h, pc) == Walk(h, pc, job[h].ids, job[h].todo)
Begin(h, op, pc, ids, todo, q, r) ==
  job' = [job EXCEPT ![h] = [op |-> op, pc |-> pc, ids |-> ids,
                             todo |-> todo, quota |-> q, req |-> r]]

-----------------------------------------------------------------------------
(* Issue: POST /tokens.                                                    *)

ActiveOfApp(t)  == Cardinality({u \in Tokens : Live(u) /\ AppOf[u] = AppOf[t]})
ActiveOfUser(t) == Cardinality({u \in Tokens : Live(u) /\ OwnerOf[u] = OwnerOf[t]})

\* The coroutine that is issuing t: its tokenId is not yet anyone's.
Issuing(t) == \E h \in Handlers : job[h].op = "issue" /\ t \in job[h].ids

IssueCountApp(h, t) ==
  /\ Starts(h, "issue")
  /\ Absent(t) /\ ~Issuing(t)
  /\ ActiveOfApp(t) < MaxPerApp
  /\ Begin(h, "issue", "countUser", {t}, {}, NoQuota, NoReq)
  /\ UNCHANGED <<pg, redis, past, req, faults>>

IssueCountUser(h, t) ==
  /\ At(h, "issue", "countUser") /\ t \in job[h].ids
  /\ IF ActiveOfUser(t) < MaxPerUser THEN Go(h, "insert") ELSE End(h)
  /\ UNCHANGED <<pg, redis, past, req, faults>>

\* One transaction for cdp.pat and cdp.quota_policy; token_id is its key.
IssueInsert(h, t) ==
  /\ At(h, "issue", "insert") /\ t \in job[h].ids
  /\ Absent(t)
  /\ ledger'   = [ledger EXCEPT ![t] = "ACTIVE"]
  /\ quotaRow' = [quotaRow EXCEPT ![t] = DefaultQuota]
  /\ Walk(h, "cache", {t}, {})
  /\ UNCHANGED <<audit, redis, past, req, faults>>

\* ttl is FALSE when the approved period ends within the second of the issue:
\* ttl_seconds is then 0 and cache_pat_meta sets no expiry.
IssueCache(h, t) ==
  /\ At(h, "issue", "cache") /\ t \in job[h].ids
  /\ \E ttl \in BOOLEAN :
       cache' = [cache EXCEPT ![t] = [full |-> TRUE, ttl |-> ttl,
                                      quota |-> DefaultQuota]]
  /\ Go(h, "audit")
  /\ UNCHANGED <<pg, neg, locks, past, req, faults>>

IssueAudit(h) ==
  /\ At(h, "issue", "audit")
  /\ End(h)
  /\ UNCHANGED <<pg, redis, past, req, faults>>

-----------------------------------------------------------------------------
(* Revocation: by the owner or an admin, in bulk, by the Keycloak webhook. *)

\* The row is read first only for its existence and its owner, which never
\* change; the UPDATE has no condition on the status.
RevokeUpdate(h, t) ==
  /\ Starts(h, "revoke")
  /\ ~Absent(t)
  /\ ledger' = [ledger EXCEPT ![t] = "REVOKED"]
  /\ Begin(h, "revoke", "drop", {t}, {t}, NoQuota, NoReq)
  /\ UNCHANGED <<quotaRow, audit, redis, past, req, faults>>

\* The selectors (ids, users, expired) together pick any tokens not REVOKED.
BulkSelect(h, ids) ==
  /\ Starts(h, "bulk")
  /\ ids # {}
  /\ \A t \in ids : ~Absent(t) /\ ledger[t] # "REVOKED"
  /\ Begin(h, "bulk", "update", ids, {}, NoQuota, NoReq)
  /\ UNCHANGED <<pg, redis, past, req, faults>>

BulkUpdate(h) ==
  /\ At(h, "bulk", "update")
  /\ ledger' = [t \in Tokens |->
                  IF t \in job[h].ids THEN "REVOKED" ELSE ledger[t]]
  /\ Walk(h, "drop", job[h].ids, job[h].ids)
  /\ UNCHANGED <<quotaRow, audit, redis, past, req, faults>>

EventSelect(h, t) ==
  /\ Starts(h, "event")
  /\ LET ids == {u \in Tokens : OwnerOf[u] = OwnerOf[t] /\ Live(u)}
     IN  /\ ids # {}
         /\ Begin(h, "event", "update", ids, {}, NoQuota, NoReq)
  /\ UNCHANGED <<pg, redis, past, req, faults>>

\* The UPDATE re-evaluates "user_sub=$1 AND status='ACTIVE'"; the
\* invalidation that follows walks the ids read before it.
EventUpdate(h) ==
  /\ At(h, "event", "update")
  /\ LET users == {OwnerOf[t] : t \in job[h].ids}
     IN  ledger' = [t \in Tokens |->
                      IF OwnerOf[t] \in users /\ Live(t)
                      THEN "REVOKED" ELSE ledger[t]]
  /\ Walk(h, "drop", job[h].ids, job[h].ids)
  /\ UNCHANGED <<quotaRow, audit, redis, past, req, faults>>

\* invalidate_pat for one of the tokens left. With none left, a batch job
\* returns to its loop and the others go on to their audit rows.
AfterDrop(h, t) ==
  IF job[h].todo # {t} THEN "sweep"
  ELSE IF job[h].op \in BatchOps THEN "update" ELSE "audit"

\* Mutant of Drop: only the negative entry is deleted.
DropNegOnly(h, t) ==
  /\ job[h].pc \in {"drop", "sweep"} /\ HasThread(h)
  /\ t \in job[h].todo
  /\ neg' = neg \ {t}
  /\ Walk(h, AfterDrop(h, t), job[h].ids, job[h].todo \ {t})
  /\ UNCHANGED <<pg, cache, locks, past, req, faults>>

Drop(h, t) ==
  /\ job[h].pc \in {"drop", "sweep"} /\ HasThread(h)
  /\ t \in job[h].todo
  /\ cache' = [cache EXCEPT ![t] = NoEntry]
  /\ neg'   = neg \ {t}
  /\ Walk(h, AfterDrop(h, t), job[h].ids, job[h].todo \ {t})
  /\ UNCHANGED <<pg, locks, past, req, faults>>

\* Mutant of RevokeAudit: the rows are written for the tokens left to drop.
RevokeAuditTodo(h) ==
  /\ job[h].op \in Revokers /\ job[h].pc = "audit" /\ HasThread(h)
  /\ audit' = audit \cup job[h].todo
  /\ End(h)
  /\ UNCHANGED <<ledger, quotaRow, redis, past, req, faults>>

RevokeAudit(h) ==
  /\ job[h].op \in Revokers /\ job[h].pc = "audit" /\ HasThread(h)
  /\ audit' = audit \cup job[h].ids
  /\ End(h)
  /\ UNCHANGED <<ledger, quotaRow, redis, past, req, faults>>

-----------------------------------------------------------------------------
(* BAT-CDP-03 (expired) and BAT-CDP-04 (unused for 30 days).               *)

\* The scheduler runs one instance of a job; the lock is SET NX EX.
BatchLock(h, op) ==
  /\ op \in BatchOps
  /\ Starts(h, op)
  /\ \A g \in Handlers : job[g].op # op
  /\ op \notin locks
  /\ locks' = locks \cup {op}
  /\ Begin(h, op, "select", {}, {}, NoQuota, NoReq)
  /\ UNCHANGED <<pg, cache, neg, past, req, faults>>

\* BAT-CDP-04 selects by last_used_at and issued_at: any ACTIVE tokens.
BatchSelect(h, ids) ==
  /\ job[h].op \in BatchOps /\ job[h].pc = "select" /\ HasThread(h)
  /\ \A t \in ids : Live(t)
  /\ job[h].op = "bat03" => ids = {t \in Tokens : Live(t) /\ t \in past}
  /\ Walk(h, "update", ids, {})
  /\ UNCHANGED <<pg, redis, past, req, faults>>

\* Mutant of BatchStatus: a status the table's CHECK does not list.
BatchStatusUnused(op) == IF op = "bat03" THEN "EXPIRED" ELSE "UNUSED"

BatchStatus(op) == IF op = "bat03" THEN "EXPIRED" ELSE "INACTIVE"

BatchUpdate(h, t) ==
  /\ job[h].op \in BatchOps /\ job[h].pc = "update" /\ HasThread(h)
  /\ t \in job[h].ids
  /\ ledger' = [ledger EXCEPT ![t] = BatchStatus(job[h].op)]
  /\ Walk(h, "drop", job[h].ids \ {t}, {t})
  /\ UNCHANGED <<quotaRow, audit, redis, past, req, faults>>

BatchFinish(h) ==
  /\ job[h].op \in BatchOps /\ job[h].pc = "update" /\ HasThread(h)
  /\ job[h].ids = {}
  /\ locks' = locks \ {job[h].op}
  /\ End(h)
  /\ UNCHANGED <<pg, cache, neg, past, req, faults>>

\* Mutant of LockTtl: the lock is taken without EX.
LockForever(op) == FALSE /\ UNCHANGED vars

LockTtl(op) ==
  /\ op \in locks
  /\ \A h \in Handlers : job[h].op # op
  /\ locks' = locks \ {op}
  /\ UNCHANGED <<pg, cache, neg, past, job, req, faults>>

-----------------------------------------------------------------------------
(* Quota change: PUT /tokens/{tokenId}/quota.                              *)

\* The quota q with the burst of a change.
WithBurst(q, change) == [q EXCEPT !["burst"] = change["burst"]]

\* With a burst in the request the change sets out for the cache. The other limits
\* have the names of the request there, and are not looked for under them.
QuotaUpdate(h, t, q) ==
  /\ Starts(h, "quota")
  /\ ~Absent(t)
  /\ quotaRow' = [quotaRow EXCEPT ![t] = q]
  /\ \/ Begin(h, "quota", "exists", {t}, {}, WithBurst(DefaultQuota, q), NoReq)
     \/ q["burst"] = quotaRow[t]["burst"] /\ UNCHANGED job
  /\ UNCHANGED <<ledger, audit, redis, past, req, faults>>

\* Mutant of QuotaExists: the change is not brought to the cache.
QuotaExistsEnd(h, t) ==
  /\ At(h, "quota", "exists") /\ t \in job[h].ids
  /\ End(h)
  /\ UNCHANGED <<pg, redis, past, req, faults>>

QuotaExists(h, t) ==
  /\ At(h, "quota", "exists") /\ t \in job[h].ids
  /\ IF Cached(t) THEN Go(h, "hset") ELSE End(h)
  /\ UNCHANGED <<pg, redis, past, req, faults>>

\* HSET creates the hash when the entry went away after EXISTS: it then holds
\* the burst only (pat-auth has a default for the others) and has no expiry.
QuotaHset(h, t) ==
  /\ At(h, "quota", "hset") /\ t \in job[h].ids
  /\ LET change == job[h].quota IN
     cache' = [cache EXCEPT ![t] =
       IF Cached(t) THEN [@ EXCEPT !.quota = WithBurst(cache[t].quota, change)]
       ELSE [full |-> FALSE, ttl |-> FALSE, quota |-> WithBurst(DefaultQuota, change)]]
  /\ End(h)
  /\ UNCHANGED <<pg, neg, locks, past, req, faults>>

-----------------------------------------------------------------------------
(* GET /internal/pat/{tokenId}, the gateway's fallback on a cache miss.    *)

\* A limit of 0 counts as none (q or 10, ...).
Filled(q) == [l \in Limits |-> IF q[l] = 0 THEN DefaultQuota[l] ELSE q[l]]

\* Mutant of GetMetaSelect: the status of the row is not looked at.
GetMetaSelectAny(h, r) ==
  /\ Starts(h, "getmeta")
  /\ req[r].pc = "fetch"
  /\ Begin(h, "getmeta", "fill", {req[r].tok}, {}, Filled(quotaRow[req[r].tok]), r)
  /\ req' = [req EXCEPT ![r].pc = "wait"]
  /\ UNCHANGED <<pg, redis, past, faults>>

GetMetaSelect(h, r) ==
  /\ Starts(h, "getmeta")
  /\ req[r].pc = "fetch"
  /\ LET t == req[r].tok
     IN  IF Live(t)
         THEN /\ Begin(h, "getmeta", "fill", {t}, {}, Filled(quotaRow[t]), r)
              /\ req' = [req EXCEPT ![r].pc = "wait"]
         ELSE /\ req' = [req EXCEPT ![r].pc = "noPat"]
              /\ UNCHANGED job
  /\ UNCHANGED <<pg, redis, past, faults>>

\* Re-caches the row as it was read, unless it has expired, and replies to
\* the request if the gateway still waits for it.
GetMetaFill(h, t) ==
  /\ At(h, "getmeta", "fill") /\ t \in job[h].ids
  /\ cache' = IF t \in past THEN cache
              ELSE [cache EXCEPT ![t] = [full |-> TRUE, ttl |-> TRUE,
                                         quota |-> job[h].quota]]
  /\ req' = [r \in Requests |->
               IF r = job[h].req /\ req[r].pc = "wait"
               THEN [req[r] EXCEPT !.pc = "answered"] ELSE req[r]]
  /\ End(h)
  /\ UNCHANGED <<pg, neg, locks, past, faults>>

-----------------------------------------------------------------------------
(* Gateway: pat-auth's rewrite phase.                                      *)

\* A caller presents a PAT only once it has been handed out.
GwStart(r, t) ==
  /\ req[r].pc = "idle"
  /\ ~Absent(t) /\ ~Issuing(t)
  /\ req' = [req EXCEPT ![r] = [pc |-> "lookup", tok |-> t]]
  /\ UNCHANGED <<pg, redis, past, job, faults>>

GwRedisDown(r) ==
  /\ req[r].pc = "lookup"
  /\ req' = [req EXCEPT ![r].pc = "unavailable"]
  /\ UNCHANGED <<pg, redis, past, job, faults>>

\* An entry without status, hash and expiry (a partial hash) is refused, and
\* so is one whose expires_at is over.
GwHit(r) ==
  /\ req[r].pc = "lookup"
  /\ LET t == req[r].tok
     IN  /\ Cached(t)
         /\ req' = [req EXCEPT ![r].pc =
                      IF cache[t].full /\ t \notin past
                      THEN "accepted" ELSE "refused"]
  /\ UNCHANGED <<pg, redis, past, job, faults>>

GwMiss(r) ==
  /\ req[r].pc = "lookup"
  /\ ~Cached(req[r].tok)
  /\ req' = [req EXCEPT ![r].pc = "neg"]
  /\ UNCHANGED <<pg, redis, past, job, faults>>

GwNeg(r) ==
  /\ req[r].pc = "neg"
  /\ req' = [req EXCEPT ![r].pc =
               IF req[r].tok \in neg THEN "refused" ELSE "fetch"]
  /\ UNCHANGED <<pg, redis, past, job, faults>>

\* Mutant of GwFetchFailed: the call to the portal has no timeout.
GwFetchRefused(r) ==
  /\ req[r].pc = "noPat"
  /\ neg' = neg \cup {req[r].tok}
  /\ req' = [req EXCEPT ![r].pc = "refused"]
  /\ UNCHANGED <<pg, cache, locks, past, job, faults>>

\* The portal said no, or the call failed or timed out: either way the token
\* enters the negative cache. A handler at work on a timed-out call goes on.
GwFetchFailed(r) ==
  /\ req[r].pc \in {"fetch", "wait", "noPat"}
  /\ neg' = neg \cup {req[r].tok}
  /\ req' = [req EXCEPT ![r].pc = "refused"]
  /\ job' = [h \in Handlers |->
               IF job[h].req = r THEN [job[h] EXCEPT !.req = NoReq]
               ELSE job[h]]
  /\ UNCHANGED <<pg, cache, locks, past, faults>>

GwFetched(r) ==
  /\ req[r].pc = "answered"
  /\ req' = [req EXCEPT ![r].pc =
               IF req[r].tok \notin past THEN "accepted" ELSE "refused"]
  /\ UNCHANGED <<pg, redis, past, job, faults>>

GwDone(r) ==
  /\ req[r].pc \in {"accepted", "refused", "unavailable"}
  /\ req' = [req EXCEPT ![r] = NoCall]
  /\ UNCHANGED <<pg, redis, past, job, faults>>

-----------------------------------------------------------------------------
(* Time, Redis and failures.                                               *)

Expire(t) ==
  /\ ~Absent(t) /\ t \notin past
  /\ past' = past \cup {t}
  /\ UNCHANGED <<pg, redis, job, req, faults>>

CacheTtl(t) ==
  /\ Cached(t) /\ cache[t].ttl /\ t \in past
  /\ cache' = [cache EXCEPT ![t] = NoEntry]
  /\ UNCHANGED <<pg, neg, locks, past, job, req, faults>>

NegTtl(t) ==
  /\ t \in neg
  /\ neg' = neg \ {t}
  /\ UNCHANGED <<pg, cache, locks, past, job, req, faults>>

\* maxmemory-policy allkeys-lru: any entry may go at any time.
Evict(t) ==
  /\ Cached(t)
  /\ cache' = [cache EXCEPT ![t] = NoEntry]
  /\ UNCHANGED <<pg, neg, locks, past, job, req, faults>>

\* A database or Redis call of the coroutine raises. A batch job logs it and
\* releases its lock on the way out.
Raise(h) ==
  /\ job[h].op # "none" /\ HasThread(h)
  /\ faults < MaxFaults
  /\ faults' = faults + 1
  /\ locks'  = locks \ {job[h].op}
  /\ End(h)
  /\ UNCHANGED <<pg, cache, neg, past, req>>

\* The process dies: every coroutine with it, the Redis locks stay.
Crash ==
  /\ faults < MaxFaults
  /\ \E h \in Handlers : job[h].op # "none"
  /\ faults' = faults + 1
  /\ job' = [h \in Handlers |-> Idle]
  /\ UNCHANGED <<pg, redis, past, req>>

-----------------------------------------------------------------------------
Issue(h) ==
  \/ \E t \in Tokens : \/ IssueCountApp(h, t)
                       \/ IssueCountUser(h, t)
                       \/ IssueInsert(h, t)
                       \/ IssueCache(h, t)
  \/ IssueAudit(h)

Revoke(h) ==
  \/ \E t \in Tokens : RevokeUpdate(h, t) \/ EventSelect(h, t) \/ Drop(h, t)
  \/ \E ids \in SUBSET Tokens : BulkSelect(h, ids)
  \/ BulkUpdate(h) \/ EventUpdate(h) \/ RevokeAudit(h)

Batch(h) ==
  \/ \E op \in BatchOps : BatchLock(h, op)
  \/ \E ids \in SUBSET Tokens : BatchSelect(h, ids)
  \/ \E t \in Tokens : BatchUpdate(h, t)
  \/ BatchFinish(h)

Quota(h) ==
  \E t \in Tokens :
    \/ \E q \in Changed : QuotaUpdate(h, t, q)
    \/ QuotaExists(h, t)
    \/ QuotaHset(h, t)

GetMeta(h) ==
  \/ \E r \in Requests : GetMetaSelect(h, r)
  \/ \E t \in Tokens : GetMetaFill(h, t)

Portal == \E h \in Handlers :
            Issue(h) \/ Revoke(h) \/ Batch(h) \/ Quota(h) \/ GetMeta(h)

Gateway ==
  \E r \in Requests :
    \/ \E t \in Tokens : GwStart(r, t)
    \/ GwRedisDown(r) \/ GwHit(r) \/ GwMiss(r) \/ GwNeg(r)
    \/ GwFetchFailed(r) \/ GwFetched(r) \/ GwDone(r)

Environment ==
  \/ \E t \in Tokens : Expire(t) \/ CacheTtl(t) \/ NegTtl(t) \/ Evict(t)
  \/ \E op \in BatchOps : LockTtl(op)
  \/ \E h \in Handlers : Raise(h)
  \/ Crash

Next == Portal \/ Gateway \/ Environment

\* The types of the state.
TypeOK ==
  /\ ledger \in [Tokens -> Statuses \cup {"absent"}]
  /\ quotaRow \in [Tokens -> Quotas]
  /\ past \subseteq Tokens
  /\ cache \in [Tokens -> Entry \cup {NoEntry}]
  /\ neg \subseteq Tokens
  /\ locks \subseteq BatchOps
  /\ audit \subseteq Tokens
  /\ job \in [Handlers -> Coroutine]
  /\ req \in [Requests -> Call]
  /\ faults \in 0..MaxFaults

Spec == Init /\ [][Next]_vars

\* A step of a coroutine in progress, and of a call in progress.
Continue(h) == job[h].op # "none" /\ (Issue(h) \/ Revoke(h) \/ Batch(h)
                                        \/ Quota(h) \/ GetMeta(h))
Proceed(r)  == GwHit(r) \/ GwMiss(r) \/ GwNeg(r) \/ GwFetchFailed(r)
                 \/ GwFetched(r) \/ GwDone(r)

\* The event loop runs ready coroutines in turn (strong, as another may hold
\* the thread in between); the cron trigger of BAT-CDP-03 fires every day
\* (strong, as Handlers only bounds the coroutines explored); every call to
\* the portal has a timeout of 3 s; the batch locks have an expiry.
Fairness ==
  /\ \A h \in Handlers : SF_vars(Continue(h))
  /\ SF_vars(\E h \in Handlers : BatchLock(h, "bat03"))
  /\ \A op \in BatchOps : WF_vars(LockTtl(op))
  /\ \A r \in Requests : WF_vars(Proceed(r))

FairSpec == Spec /\ Fairness

\* A token whose expires_at has passed does not stay ACTIVE in the ledger: the
\* daily job reaches it, even when an earlier run of the job died half-way
\* and left its lock behind.
ExpiredIsMarked == \A t \in Tokens : (t \in past /\ Live(t)) ~> ~Live(t)

\* Every call the gateway takes is answered, whatever happens to the portal
\* coroutine that works for it.
CallAnswered ==
  \A r \in Requests : (req[r].pc = "lookup") ~> (req[r].pc = "idle")
=============================================================================
