# Verification of the Citizen Developer API Portal

TLA+ modules, TLC configurations and TLAPS proofs for the API portal in this
repository: the portal backend (FastAPI over PostgreSQL and Redis), the APISIX
gateway with its PAT plugins (Lua), and the token exchange service (FastAPI over
Redis and Keycloak). Paths below are relative to `src/services/` unless they
start with `src/`.

## 1. Inventory

A *PAT* (personal access token) is issued for an approved application of a user
on an API of the catalog. A call through the gateway passes the plugins
`pat-auth` (is the token good?), `pat-quota` (is there quota left?),
`pat-token-exchange` (a JWT for the upstream) and, in the log phase, `pat-audit`.

| component | state | operations | talks to |
|---|---|---|---|
| PAT life cycle: `portal-backend/routers/{tokens,admin_tokens,internal}.py`, `redis_client.py` | `cdp.pat`, `cdp.quota_policy`, `PAT_REVOKED` rows; Redis `cdp:pat:{id}`, `cdp:pat:neg:{id}` | issue, revoke, bulk revoke, Keycloak webhook, update quota, look-up for the gateway | PostgreSQL, Redis |
| batch jobs: `batch.py` | lock keys `cdp:batch:lock:*` | BAT-CDP-01 (usage), -03 (expire), -04 (inactive), -06 (partitions), on a cron | PostgreSQL, Redis |
| `pat-auth.lua` | none of its own; reads the PAT cache, writes the negative cache | accept or refuse a call | Redis, portal `/internal/pat-meta` |
| `pat-quota.lua`, `src/infra/redis/quota_deduct.lua` | token bucket and day and month counters in Redis | one atomic script per call | Redis |
| `pat-token-exchange.lua` | none | a JWT for the call | token exchange service |
| audit pipeline: `pat-audit.lua`, `internal.py`, `audit_consumer.py` | a batch and a timer per worker, a Redis stream with a consumer group, `cdp.audit_log`, `last_used_at` | log, flush, push, receive, consume | portal, Redis, PostgreSQL |
| token exchange: `token-exchange-service/cache.py`, `keycloak_client.py` | JWT cache, its index per token, single-flight locks | get or exchange, refresh, invalidate (from the portal) | Redis, Keycloak |
| circuit breaker: `circuit_breaker.py`, `main.py` | `cdp:cb:txs` and a list of latest results | admit, record, judge | Redis |
| catalog and routes: `routers/catalog.py`, `apisix_client.py`, `portal-backend/main.py` | `cdp.api_catalog`, `cdp.api_endpoint`; routes in etcd | create, patch, delete, resync at start | PostgreSQL, APISIX Admin API |
| applications and approval: `routers/applications.py` | `cdp.application` | create, review; read by issue and by the deletion of an API | PostgreSQL |
| schema, partitions, statistics: `db_migrations.py`, `batch.py`, `src/infra/postgres/` | the tables and partitions themselves, `cdp.usage_stat_daily` | migrate at start or by hand, add up a day, create the partitions of two months | PostgreSQL |
| the rest (queries, authentication of users, formatting, mocks, front end) | none that is written | | |

What is hard in it:

* **No locks between processes.** Handlers commit to PostgreSQL, then touch Redis
  or APISIX, and yield at every `await`. Any other handler, worker, service node
  or expiry may act in between. All cache fills are a read of the source followed
  later by a write.
* **Failure.** Every remote call may fail or time out with its work done. Nearly
  all handlers swallow a failed second step; none compensates the first.
* **Expiry and eviction.** Every Redis key has a TTL or may be evicted
  (`allkeys-lru` in `src/infra/redis/redis.conf`), batch and single-flight locks included.
* **Clocks.** The quota script is given the clock of the worker that calls it,
  and the worker read it before the call was queued.
* **Crash.** A portal that dies leaves locks, half-sent batches and half-written
  routes; nothing but a TTL or the resync at start repairs them.

What must be true of each component is stated by the properties of section 4; the
`hazards` of `PROJECT.json` name the line where each could go wrong.

## 2. Modules

| module | models |
|---|---|
| `PatLifecycle` | ledger, quota rows, PAT cache, negative cache, batch locks; the portal's coroutines and the gateway's calls |
| `PatHistory` | history variables over it: which withdrawals were overtaken or lost, which revocations have no audit row, which calls began on an open token; the safety properties and the refinement |
| `PatAccess` | the abstract promise: a token is open, closing, closed; a closed token stays closed and admits no call begun after it closed |
| `PatClaims`, `AuditClaims`, `RouteClaims` | what documents and comments promise and the code does not do |
| `PatHistoryProofs` | theorems of `PatHistory`; that it implements `PatAccess` |
| `Approval`, `ApprovalHistory`, `ApprovalProofs` | applications, their review and their tokens, over an API that changes; decisions, what a review was shown, deletions cut short; theorems |
| `Upkeep`, `UpkeepProofs` | start with its migrations, partitions of the audit table, daily statistics; theorems |
| `AuditPipeline`, `AuditProofs` | both ways from the log phase to `cdp.audit_log`; theorems |
| `JwtCache`, `JwtHistory`, `JwtProofs` | JWT cache, index and single-flight lock; why a stale JWT may be left; theorems |
| `QuotaBucket`, `QuotaHistory`, `QuotaProofs` | the script with its clocks and TTLs; calls let through, measured; theorems |
| `CircuitBreaker`, `BreakerRecovery`, `BreakerProofs` | breaker, endpoint and the plugin that calls it; how an outage is entered and left; theorems |
| `RouteSync`, `RouteHistory` | catalog entry and routes of one API; why they may differ |
| `EndpointRules`, `RouteRules` | what the catalog accepts as endpoints, which route APISIX chooses for a request and what `pat-auth` then asks for; the two together with `RouteHistory` |
| `RouteProofs` | theorems of `RouteHistory` and of `RouteRules` |
| `MC*` | definitions for TLC: small sets, symmetry |

### How state and actions correspond to the code

**PatLifecycle.** `ledger[t]` is `cdp.pat.status`, `cache[t]` the hash
`cdp:pat:{id}` (status and quota fields; it may lack the status, see below),
`neg` the negative cache. `job[h]` is a coroutine of the portal: the operation, the program counter
between two `await`s, the tokens it selected and still has to drop. One action is
the code between two yields: `IssueCountApp`, `IssueCountUser`, `IssueInsert`,
`IssueCache`, `IssueAudit` for `issue_pat`; `RevokeUpdate` for the UPDATE of
`revoke_pat`; `BulkSelect`/`BulkUpdate`, `EventSelect`/`EventUpdate` for the bulk
revocation and the webhook; `Drop` for `invalidate_pat`; `RevokeAudit` for the
`PAT_REVOKED` rows; `BatchLock`, `BatchSelect`, `BatchUpdate`, `BatchFinish` for the
jobs; `QuotaUpdate`, `QuotaExists`, `QuotaHset` for a quota change;
`GetMetaSelect`, `GetMetaFill` for the look-up. Redis calls of the portal are
synchronous, so a coroutine keeps the thread from a Redis call to its next
`await` (`HasThread`). `Gw*` are the steps of `pat-auth`. `Raise` and `Crash` end
a coroutine at any step. The checks of HMAC, address and scope can only
refuse, and `GwHit` may refuse for them. Of the quota there are two limits: `burst`, and
`rest`, which is any one of `rate_limit_tps`, `daily_quota` and `monthly_quota`. They behave
differently: `update_quota` hands the fields of the request to
`update_pat_quota_in_redis` in camelCase (`tokens.py:24-29,247`), which looks for
`rate_limit_tps`, `burst`, `daily_quota`, `monthly_quota` (`redis_client.py:91-98`), so only
`burst` is found. `QuotaUpdate` therefore changes the row of both, and `QuotaHset` writes the
burst alone. `Filled` is the `or 10` of a cache fill, by which 0 becomes the default, for each
limit.

**AuditPipeline.** `Log` is the log phase up to the push: the event goes into the worker's
`batch`; a security event (a 401, 403, 429 or a failed exchange) is then to be added to the
stream by `push_security_event`, which `log()` calls itself (`pat-audit.lua:190-192`), before it
looks at the periodic timer and at the size of the batch. That opens a socket in the log
phase, where OpenResty raises. `LogSockets` holds what the runtime may do, and the variable
`sockets` which of it does in a behaviour (external: it is not in this repository):

* `FALSE`, OpenResty as it is: `log()` ends with the exception. The event stays in the batch, nothing
  is pushed, no timer is started and a full batch is not flushed.
* `TRUE`, as the plugin is written: `Push` is the return of `push_security_event`, with the entry
  in the stream, trimmed, or failed with a warning, and the rest of `log()`. The stream's consumer
  has something to do only here.

The run and the theorems cover both. A full batch or the
periodic timer hands it to a send (`Handoff`, `PeriodicFlush`, `Reschedule`);
`Arrive`, `PostInsert`, `PostTouch` are `receive_audit_batch`, item by item with
no transaction; `Ensure`, `Read`, `Persist`, `Ack` are the consumer.

**JwtCache.** A coroutine (`flight`) of a node: `Hit` (with a background refresh)
or `Miss`, `TryLock`, the exchange (`Mint`, `ExchangeFails`), `SetEx`, `SAdd`,
`Unlock` by compare-and-delete of the node's id, `Poll` for those without the lock.
`Change` is the change of rights that obliges the portal to invalidate, `InvRead` and
`InvDelete` the two steps of `invalidate_jwt_cache`, `InvFails` its end at either of them: the
UPDATE of `patch_api` that comes before it raises (`catalog.py:509`), Redis fails and only a
warning says so (521-528), or the portal dies. Nothing tries again.

**QuotaBucket.** `ReadClock` is where the worker reads its clock, `RateLimited`,
`QuotaExceeded` and `Allowed` are the three results of the script, one atomic step
each; `BucketTtl`, `CounterTtl`, `EvictBucket`, `EvictCounter` are Redis. A
counter is named by the day or month of the clock that was read, not of the
moment the script runs.

**CircuitBreaker.** `Lookup` is the plugin `pat-token-exchange`, which reads the
cache itself and calls the service only for what it does not find, so that a `Hit` of
the service is a JWT cached in between (or a read that failed). `Hit`, `Miss`, `Exchanged`, `ExchangeFailed`, `WaitEnds`,
`WaitTimeout` are the outcomes of a request in `token_exchange`; then `Push`,
`Trim`, `Judge` and `Apply`, one Redis command each, of `record_success` or
`record_failure`. While the circuit is open a request is answered from the cache
or with 503 (`Refused`) and records nothing.

**RouteSync.** `CreateApi`, `PatchApi`, `DeleteApi` and `Resync` begin an
operation with what it read; `Replace`, `Fetch`, `Put`, `ListAll`, `ListOwn`,
`DeleteRoute`, `SmokePasses`, `SmokeFails`, `Update`, `RemoveRow` are its calls of
PostgreSQL and APISIX, in the order `SyncStep` and `Raised` give. `Replace` at `"merge"`
is the second of two overlapping PATCHes: its DELETE waited for the first to commit
and did not see the rows that one had inserted, so both sets stay. A route is
identified by base and pattern as in `endpoint_route_id`. A smoke test can pass
only if the called endpoint has no parameters and has a route; it may fail at
any time (the gateway learns of routes later than the Admin API). `CallFails`
leaves a PUT or DELETE done or not done. `RoutesLost` is an empty etcd, or another
API that takes a route for its own (`_owns_route_id`). `Abort` at `"remove"` stands
also for a DELETE that the foreign key of an application refuses.

**EndpointRules.** Paths are sequences of symbols, a parameter is one symbol.
`Accepted` is `_assert_valid_endpoints` with `_assert_no_duplicate_endpoints`;
`PathOf`, `Prefix`, `Priority` are `build_endpoint_route`; `Fits` is the expression
`_path_to_regex_with_groups` makes of a path: a path fits it if it can be cut into one
part for each symbol, the symbol itself or, for a parameter, some symbols but "/"
(`begins` is where the parts begin). `Like` is the same without case, which is
how `vars` compares. `Chosen` is APISIX's choice of a route (external: it may be any
candidate of the highest priority), `Demands` the check of `pat-auth` against the
route's scope map. `RouteRules!Declares` is the reference they are compared with:
segment by segment, as the specification explains a pattern.

**Approval.** One application handler per action between two `await`s:
`CreateRead`, `CreateScopes`, `CreateInsert`; `ReviewRead`, `ReviewScopes`, then `Approve` or
`Reject`; `IssueRead`, `IssueCountApp`, `IssueCountUser`, `IssueInsert` for the part of
`issue_pat` that `PatLifecycle` takes as passed; `DeleteRead`, `DeleteCheck`, `Unroute`,
`Remove` for the part of `delete_api` that looks at applications. `req[h]` is a request
with what it has read: `scopes` is what was requested, then what is granted, then what
the token will carry. `ChangeScopes` and `ChangeStatus` are `patch_api` (in full in
`RouteSync`), `Withdraw` any end of a token (`PatLifecycle`).

**Upkeep.** `Start`, `Look`, `Migrate`, `Rename`, `Stop` are the portal's start and end. The
database is described by what the migrations tell apart: which of the tables `api_scope` and
`api_endpoint` exist (`tables`), which have a column `upstream_url` (`upstreams`), whether the
endpoints of the three seed APIs are the old or the new ones, or one of the APIs was deleted (`seeds`), the
patterns of another API's endpoints (`paths`), and which of them lack an upstream (`blank`). `Look`
reads the columns (`db_migrations.py:44-51`), `MoveUpstreams` is the transaction after it, which
`MoveRefused` says when the database refuses: the INSERT of the seed endpoints without their API
(70-81), two patterns that become one (96-104), `SET NOT NULL` (109) where nothing filled the
column. `Migrate` is refused also when the `.sql` file was applied between the two
(`raced`). `Rename` is the second migration, refused when both tables are there (134). `MigrateByHand` is the
`.sql` file, which has no guard but the column it reads. `NextDay` sets the jobs of the day; a job whose hour comes
while the portal is down, or that fails, does nothing (`CountCalls`, `BeginPartitions`;
APScheduler keeps its jobs in memory). `CreatePartition` is one turn of the loop of
BAT-CDP-06. `Record` is a row of the audit log, in a partition or in DEFAULT.

## 3. Plan

Done in this order: PAT life cycle, audit pipeline, JWT cache, quota, circuit
breaker, routes; then approval, upkeep, endpoint rules, the quota of a cached token,
and the proofs of section 5. To come:

1. `GatewayRequest`: the plugins of a call in order over the abstract promises of
   PAT access, quota and JWT (a call that is refused later has spent its quota).
2. A change of policy in `QuotaBucket`: bucket and counters outlive it.
3. Two APIs under one public path, and two whose codes are one after `_slug`.
4. Proofs: abstract specifications of the quota (a budget) and of the routes (what is
   served), with the refinement shown for all constants.

## 4. Runs

| run | bounds | what it shows |
|---|---|---|
| `PatOneToken` | 1 token, 2 coroutines of any operation but BAT-CDP-03, 1 gateway call, 2 limits of 2 values (one is 0), changed together, 1 failure | A withdrawn token keeps an acceptable copy only while its invalidation is under way, or was overtaken by a cache fill, lost, or never included it (`StaleOnlyIfRaced`). A call that is let in began while a copy was there (`AcceptedBeganOpen`). Every revocation leaves its audit row with the same exceptions (`RevokedAudited`). The cached burst is that of the ledger unless somebody carried another one to the cache or a change failed half-way; any other limit only until it is changed while the token is cached (`QuotaAgrees`). |
| `PatLiveness` | 1 token, 1 coroutine of any kind, 1 call, 1 failure, fairness | The whole implements `PatAccess`. An expired token is marked though a job died with its lock; every call is answered. |
| `Audit` | 3 events (2 of them security), 1 worker, 2 failures, stream capped at 1, cold start, with and without sockets in the log phase, fairness | No path writes an event twice, whatever fails; `last_used_at` moves only with its row; the consumer acknowledges only what has its row, or what went with the stream (`AckedIsRecorded`). Every event is recorded if nothing fails, without later traffic, but for security events of a worker that has logged no other event (`EventRecorded`). |
| `Jwt` | 2 keys, 2 coroutines on either of 2 nodes, 2 polls, 1 change of rights, 1 lock expiry, 1 failure | Exchanges of a key at a time are at most one more than its lock expired, even though a node releases by its own id what another of its coroutines holds. A stale JWT is left only by an exchange in progress over the change, an index that lost the key, or a last invalidation that failed. |
| `Quota` | 2 calls, burst of 2 calls, 8 moments over 2 days of a month, delay 1 | From whenever one measures, calls fit burst and refill, with clocks out of order; each window's calls fit its limit, across midnight. |
| `Breaker` | 2 requests, window of 4, judged from 2, 1 loss, fairness | After an outage the circuit opens at most half a window plus one per request in progress more times, and then closes for good; while Keycloak is down and exchanges are tried, it opens again and again. |
| `Routes` | 1 API; created with `/a` and `/{x}` or with what is to be refused; patches that unpublish it and rename `/{x}` to `/{y}`, that publish it with one endpoint of another content, that move it to base 2; 2 operations at a time, 1 failure; all requests of up to 3 symbols below a base | At rest routes equal the catalog unless something befell an operation, and again after the first undisturbed one that reconciles. A failed call or smoke test never leaves a PUBLISHED API unrouted. An endpoint that is kept stays served. A request that an endpoint declares gets the route of the literal one, or else of one that declares it, and none is let in for an endpoint that does not declare it (`ServedAsDeclared`). Two endpoints that fit the same paths come only from overlapping PATCHes (`TwinsOnlyMerged`). |
| `Approval` | 1 application, 2 scopes, 3 tokens, 2 requests of any kind, limits 1 and 2 | Decisions of one application are at most one for each review that overlapped the first; a token has the scopes of the decision, all requested and shown to a review; the limits are passed by at most one token for each other request; a PUBLISHED API loses its routes only to a deletion that was overtaken or aborted. |
| `Upkeep` | 6 days of 4 months, every state of tables, columns and seeds that the migrations, a crash, the script or a hand leave, 3 patterns of which 2 become one, 1 row a day, 2 crashes or failures | A month gets rows in DEFAULT only if both runs for it were missed, and no partition is refused otherwise; statistics lack only days whose run was missed or failed; a portal that is up has the whole schema of today (`UpIsMigrated`); the database refuses a start only if it refuses every one, or the script came between (`RefusedOnlyIfStuck`). |
| `ClaimRevoked` | violated | REVOKED is final (specification 02, line 239): BAT-CDP-04 updates by id what it selected earlier, and makes a revoked token INACTIVE. |
| `ClaimRedelivery` | violated | Unacknowledged entries are redelivered (comment in `audit_consumer.py`): the loop reads only new entries. |
| `ClaimDraft` | violated | A failed smoke test rolls the routes back (specification 02, line 704): the entry is DRAFT and its routes are served, also after the entry is deleted. |

**Why the bounds are enough.** Every property is about two actors at one object:
one that reads and later writes, one that acts in between. Two coroutines (and a
gateway call, for `pat-auth`) are all pairs of them, and each step of the second may
fall between any two of the first. One token is enough for `PatLifecycle`, whose safety
properties are proved for any number of them; its run leaves out BAT-CDP-03, which goes the way of
BAT-CDP-04 with another selection and status, is among the operations of `PatLiveness` and covered by the theorems; and
the limits of a row change together (`Changed`), as no property relates one to the other. Two keys and three events are needed
where one operation handles several, and suffice, as operations treat them alike. `PatLiveness`
has one coroutine, since its properties are about its death and not its rivals, and the
refinement, which it checks besides, is proved in general. One failure
is the case the code is written for; the audit pipeline has two paths to one row,
so it is given two. The window of the breaker is four of which two are judged: it fills, is
trimmed, and has room for a majority of either result (50 and 10 in the code).
In `Approval` two requests are two reviews, a review and an issue, two issues, or any of them
and a deletion, with a third token to pass the limit by one. In `Upkeep` the first two months
have partitions from the set-up, the third one run of the job, the fourth two; the months
are shorter than real ones, which no action tells. In `Quota` the burst admits two calls and the windows three and two, so every limit
is met; the horizon passes an expiry of the bucket and the end of a day. Each
cap on a counter is a constant named `Max...`; a coroutine without the lock polls
twice (6 times in the code), enough for one poll to be followed by another; and `Attempts` of the resync is 2
instead of 10. `Routes` reaches a second attempt, but with one failure not the end
of the attempts.

**Fairness** is stated only where liveness is checked. `PatLifecycle`: the event loop
runs every ready coroutine (strong, since another may hold the thread), the daily
cron fires, locks expire, and calls to the portal have a timeout of 3 s.
`AuditPipeline`: timers of a live worker fire, calls end, the portal's loop runs its
tasks. `BreakerRecovery`: requests in progress end, the two TTLs expire; Keycloak
may change at any time, and new requests need not come (`Trips` supposes that exchanges
are attempted). No fairness is assumed of failures, expiry of anything else,
or arrivals.

**Symmetry** is used for interchangeable coroutines, requests, applications, scopes, tokens, keys, nodes, workers and operations, and
never in a run with a liveness property.

`CHECK_DEADLOCK FALSE` stands in every configuration: the counters that bound
failures, clocks and events end behaviours that the system would continue.

## 5. Proofs

TLAPS proves, for all values of the constants:

| theorem | states |
|---|---|
| `PatHistoryProofs!TypeCorrect` | types of ledger, caches, coroutines, calls, history |
| `PatHistoryProofs!StaleAccounted` | `StaleOnlyIfRaced` |
| `PatHistoryProofs!AcceptedOpen` | `AcceptedBeganOpen` |
| `PatHistoryProofs!RevocationsAudited` | `RevokedAudited` |
| `PatHistoryProofs!QuotasAgree` | `QuotaAgrees` |
| `PatHistoryProofs!AccessImplemented` | `ImplementsAccess`: `PatHistory` implements `PatAccess` |
| `QuotaProofs!QuotaTypes` | types of bucket, counters, clocks, history |
| `QuotaProofs!RateLimitHolds` | `RateBounded` |
| `QuotaProofs!WindowQuotaHolds` | `WindowBounded` |
| `ApprovalProofs!ApprovalTypes` | types of catalog, applications, tokens, requests, history |
| `ApprovalProofs!DecisionsSettle` | `DecisionsBounded` |
| `ApprovalProofs!TokensFollowDecision` | `TokensAsDecided` |
| `ApprovalProofs!OnlyShownScopes` | `ScopesWereShown` |
| `ApprovalProofs!LimitsHold` | `TokensBounded` |
| `ApprovalProofs!UsedStaysRouted` | `UsedIsRouted` |
| `UpkeepProofs!UpkeepTypes` | types of schema, partitions, statistics, jobs |
| `UpkeepProofs!UpMeansMigrated` | `UpIsMigrated` |
| `UpkeepProofs!StartsUnlessStuck` | `RefusedOnlyIfStuck` |
| `UpkeepProofs!OneMissIsHarmless` | `StraysMissedTwice` |
| `UpkeepProofs!DaysAreCounted` | `StatsComplete` |
| `AuditProofs!AuditTypes` | types of batches, posts, stream, consumer, table |
| `AuditProofs!NoPathWritesTwice` | `OneRowPerPath` |
| `AuditProofs!UsesAreRecorded` | `TouchedIsRecorded` |
| `AuditProofs!AcksAreRecorded` | `AckedIsRecorded`, an action property |
| `JwtProofs!CacheTypes` | types of cache, index, locks, coroutines, invalidation, history |
| `JwtProofs!ExchangesAreBounded` | `ExchangesBounded` |
| `JwtProofs!StaleIsExplained` | `StaleOnlyIfMissed` |
| `BreakerProofs!BreakerTypes` | types of requests, window, history |
| `BreakerProofs!RelapsesEnd` | `RelapsesBounded` |
| `RouteProofs!RouteTypes` | types of catalog, routes, requests, history |
| `RouteProofs!RoutesFollowCatalog` | `RoutesAgree` |
| `RouteProofs!FailuresKeepRouted` | `PublishedIsRouted` |
| `RouteProofs!ServingIsKept` | `KeepsServing`, an action property |
| `RouteProofs!RoutesServeAsDeclared` | `ServedAsDeclared`, for paths and patterns of any length |
| `RouteProofs!TwinsNeedAMerge` | `TwinsOnlyMerged`, an action property, for paths and patterns of any length |

*PAT.* `StaleOnlyIfRaced` is inductive together with the types: a copy of a dead
token can only appear from a coroutine that read the row while it was ACTIVE, that
is one that was `Holding` it when the drop went by, and the history has marked the token
then. The lemmas `...Harmless` show this for each operation. `AcceptedBeganOpen` is
not inductive: a call in `wait`, `answered` or `accepted` carries an answer from
elsewhere. `CallsBeganOpen` adds that a winning call began open, and that the portal
coroutine which works for it can only answer for a token that was open then;
`LedgerForward` and `OpenBackward` say that a status never returns to ACTIVE and a copy
never reappears without a holder, so open now means open at the start. `RevokedAudited`
is inductive with the types. The refinement needs that a coroutine selects only tokens of the
ledger (`Selected`) and that a call in progress has a token of the ledger (`Begun`); each step of the
portal then changes one token's access, by `Grant`, `Withdraw` or `Close`, or none.
`QuotaAgrees` needs `QuotaCarried`: whoever is on the way to the cache with a value of a limit that is no
longer the row's (`Outdated`) has marked its token for that limit; and `OneToken`: a change of quota is
about one token, or the HSET for one could carry the quota of another.

*Quota.* `RateBounded` needs `Timely` (a clock in flight is at most `MaxDelay`
old) and `Balance`: what was spent plus what the bucket still has fits burst and
refill up to the bucket's own time, whatever the order of the clocks, and a bucket
about to be full has had the time to fill. It rests on the assumption
`ExpiryAssumption`, `Burst + Rate * MaxDelay <= Rate * Ttl`: an idle bucket is full
before it expires, since a missing bucket counts as full. With the defaults
(20 calls, 10 a second, 60 s) and the Redis timeout of 2 s that
bounds the delay, it holds by far; for a policy whose burst is above 58 times its rate
it does not, and neither does the rate limit. `WindowBounded` needs `Counted`: the
counter is at least the calls of its window as long as a clock of that window may
still arrive, which the TTL of the counter outlives by `Grace`.

*Approval.* The types go with `Concerned`: whoever reviews or issues has a filed application.
`TokensBounded` needs `Places`: tokens and requests past the count are together at most the
limit plus the other requests, since whoever passes the count found fewer tokens than the
limit. `DecisionsBounded` needs `Decisive`: decisions and reviews in progress are together
at most the requests once there is a decision, and there is none while the
application is PENDING. `TokensAsDecided` and `ScopesWereShown` share `ScopeInv`, which follows
the scopes from the row through a review (`Reviewed`), the decision (`Granted`), an issue and
the token (`Carried`). `UsedIsRouted` needs `Overtaken`: past its check, a deletion
knows of no application, or has been overtaken.

*Upkeep.* The types go with `Shaped`, what the database has whatever was done to it (with nothing
left to move it is of the new shape throughout; without the new column no endpoint has an upstream),
and `Staged`, what a portal at each stage of its start may count on: one that moves had something to move
when it looked, or the script came between, one that renames has nothing left to move. `UpIsMigrated` follows;
`RefusedOnlyIfStuck` goes along, since nothing but the script touches a database that refused. `StraysMissedTwice` needs `RunsDone`: of every month since the set-up, each of its two
runs has made its partition, was missed, or is still to do it today; and `NoneAhead`: no
month to come has rows in DEFAULT, so that PostgreSQL refuses no partition of one.

*Audit.* `OneRowPerPath` needs that an event is in one place at most of the HTTP path
(`HttpOnce`: a batch, a send, a post) and of the stream's (`StreamOnce`: a push, the stream, the
consumer's hand), and `Room`: its rows and the paths it is still on are together no more than the paths it may
take. `AckedIsRecorded` needs `DoneRecorded`: what the consumer is about to
acknowledge has its row, also after a failure in the middle of a batch, and rows never go.

*JWT.* `ExchangesBounded` needs `SingleFlight`, which counts the lock: the exchanges of a key are at
most its lapses, and one more if the lock is held. `Tracked` makes
`StaleOnlyIfMissed` inductive: a JWT is listed in the index, about to be, about to be deleted, or was cut
off; and one with earlier rights is late, cut off, or spared by a failed invalidation already, or will be
found by the one in progress. A key is `spared` only until the next change, whose invalidation must
find what the failed one left: the run explores one change, the theorem any number.

*Breaker.* `RelapsesBounded` counts openings. `Charged` pays for those that the requests in progress may
still bring: with a failure in the window, openings and verdicts that are held or owed
are at most the requests and the results in front of that failure. A success that is pushed owes a
verdict and moves the failures back by one, which pays for it. A window that fails has a failure with no more than half the results
in front of it (`FailureNearTheFront`), and the window is longer than its
size only by requests that owe both a trim and a verdict (`Sized`); so the verdicts that are held
are within the bound (`Limited`).

*Routes.* `RouteInv` says what a request knows. `Sound` is what it knows by itself, whoever else is
about: which work it may have at its program counter, that the routes it prunes are none of those it aims at. `Undisputed`:
a request that was not raced is the only one, and the row and endpoints it has read are still
those of the catalog; overlaps can be told because the requests in progress are finitely many (`Few`). `Told`: of a request that only failed calls have befallen, which routes
are there at each program counter, and which are no longer (`Story`), so that at rest the routes are `Reconciled`. TLC
has checked `RouteInv` on the instance of the run `Routes`. `KeepsServing` follows from it and the step.

*Endpoint rules.* `ServedAsDeclared` compares three ways to read a pattern: the segments that the
specification speaks of, the anchored expression of `pat-auth`, and the `uris`, `vars` and priority of
APISIX. `Owns` takes a fit apart: each symbol of the path belongs to a place in the pattern, places
come in order, and one that is no parameter takes one symbol (`FitsOwns`, `OwnsFits`). A slash belongs to a
slash, so that as many lie before a symbol as before its place (`OwnSlashes`), segments begin and
end together (`OwnCut`), and what fits has the declared segments (`FitsMatching`). Back from segments to the
expression (`MatchingFits`) parameters must be whole segments, as `ServedAsDeclared` says: `Place`
builds the fit. Such a path also passes `vars` (`FitsLike`) and the `uris` in front
of them (`FitsPrefix`), and a literal pattern fits nothing but itself (`LiteralFits`); `ChosenIs` puts the
priorities on top. That the routes at rest are those the catalog wants is `RoutesAgree`; that they have paths needs
`FromRequests`: endpoints that are held, or are to be, were brought by requests and so were accepted.
TLC has checked it on the instance of the run `Routes`.
`TwinsOnlyMerged` follows from the same invariant: patterns that fit what both are filled to are alike
symbol by symbol but for the names of parameters (`FitsAlike`), so their keys are one and the check of
duplicates refuses one of them (`NoTwins`).

These are facts about sequences of any length, proved by induction without the library's rules, which
the provers cannot use: a set of naturals has a least member because its intervals are
finite sets, of which inclusion is well-founded (`LeastNatural`), and a set with 0 and each successor is
all (`Inductive`). For this `Fits` and `Segments` are stated by counting (`Upto`) and not by recursion.

What is assumed of the constants, and why the code has it: `RulesAssumption`, a change of case makes no
slash and no parameter, nor unmakes one; `CatalogAssumption`, a base begins with "/" (`_assert_valid_public_base`)
and the endpoints of a request have passed the checks of the catalog for some base; `RequestsAssumption`, a
request path begins with "/"; `SampleAssumption`, among the requests that `Twins` compares patterns by there are, for
each pattern, two that differ in what stands for its parameters. TLC evaluates them all on `Routes`.

What the proofs needed of the models, and changed there: the parts of a CASE in
`RouteSync!AfterUnroute` overlapped for a deletion of a PUBLISHED entry, where TLA+ leaves the value open (TLC
takes the first): it is an IF now. `None` is assumed to be no row of the catalog, and the requests of
the breaker to be finitely many. `UNION x \cap y` and `SUBSET x \ y` have parentheses, as the tools group them
differently.

Only model-checked: liveness (`ExpiredIsMarked`, `CallAnswered`, `EventRecorded`, `Recovered`, `Trips`), as
fairness is out of the prover's reach. Each safety invariant and each action property of a passing run is a theorem.

## 6. Divergences without a run of their own

The models show these too; the properties above say exactly how far they go.

* A revocation is not immediate when a cache fill has read the row before it
  (`internal.py:81`, `tokens.py:114`; `docs/invalidation_policy.md:27` says the time
  of disagreement is 0). `StaleOnlyIfRaced` has this as `raced`.
* The webhook's UPDATE reaches tokens its SELECT did not list; they are neither
  dropped nor audited (`internal.py:134-153`).
* A failed look-up is remembered as an unknown token for 30 s (`pat-auth.lua:216-219`).
* Of a quota change only `burst` reaches the cached entry: "Update Redis immediately" (comment at
  `tokens.py:245`), "즉시 반영" (immediately effective; `src/02_시민개발자_API포털_구현상세스펙.md:333`) and
  `docs/invalidation_policy.md:14` say all of it does, but the keys that are passed are in camelCase
  (`tokens.py:24-29,247`) and those that are looked for in snake_case (`redis_client.py:91-98`). The gateway goes on with
  the old rate and the old daily and monthly limits until the entry leaves the cache. `QuotaAgrees` says so (`Unbrought`).
* Two changes of the burst may reach Redis in the other order (`tokens.py:237-247`).
* A quota of 0 blocks a token until its entry leaves the cache: the fill that follows writes
  the default in its place (`internal.py:87-90`).
* Two concurrent issues both pass the limit of PATs per application (`tokens.py:66-110`).
* A review grants scopes of "currently-published" endpoints (comment at `applications.py:151`),
  but does not look at the status of the API.
* After a failed `XGROUP CREATE` the consumer never tries again (`audit_consumer.py:111-114`).
* Security events are to be "XADDed to a Redis Stream" so that they are kept "even if the HTTP
  batch flush loses the buffer" (comment at `pat-audit.lua:21-25`, likewise
  `src/apisix_API_Endpoint_최종개발스펙.md:435`). The push is made in the log phase (190-192), where
  OpenResty opens no socket: it raises, so the stream stays empty and one lost batch loses the event. `log()`
  ends there, too: on a worker that has logged nothing but security events no timer is started and no full
  batch is flushed, until an ordinary request comes (`Waiting` in `EventRecorded`).
* Where sockets do open there, every security event takes both paths, so it has two rows in normal operation
  (`pat-audit.lua:188-192`; the comment at 140 speaks of a rare duplicate).
* A row the database refuses (`client_ip` is cast to `inet`) is refused on both paths: the one redundancy does
  not help, and the post loses the rest of its batch (`internal.py:172-192`, `audit_consumer.py:48-88`).
* A failed invalidation of JWTs is only warned of and not made again (`catalog.py:521-528`): tokens keep
  scopes the API has lost, until their JWTs expire (240 s).
* "재시도 3회, 실패 시 알림" (three retries, then an alert) is specified for BAT-CDP-01, three retries for -03 and -04
  (`src/02_시민개발자_API포털_구현상세스펙.md:718,720-721`). The jobs log the exception and end (`batch.py:28-104`); the
  next run of BAT-CDP-01 counts the next day only. `StatsComplete` has such days as `uncounted`.
* A start is refused for good, although the migrations are to be "idempotent" and upgrade an existing database in place
  (comment at `portal-backend/main.py:97`): when one of the three seed APIs was deleted before the first of them ran (`db_migrations.py:70-81`
  inserts their endpoints by fixed ids), when two patterns become one, when an endpoint has no upstream to take (109), or when
  both tables are there (134). `Stuck` in `Upkeep` lists them.
* The single-flight lock (5 s) may expire during an exchange (up to 6 s), and its value
  is the node's id, so one coroutine releases the lock of another (`cache.py:61,75`).
* The breaker has no HALF_OPEN state, although `is_circuit_open` asks for it: after the
  circuit expires, every request is let through (`circuit_breaker.py:13,34`).
* A smoke test calls GET and expects 401 of an endpoint without parameters; an API
  whose endpoints all have parameters cannot become PUBLISHED (`apisix_client.py:337-353`).
* Two PATCHes that replace endpoints at once leave both sets, and UNIQUE, the "concurrent-insert
  safety net" of the comment at `catalog.py:361-363`, does not see that `/{x}` and `/{y}` are one route.
* `_owns_route_id` is to match routes "belonging to this API only" (`apisix_client.py:268-271`);
  an API with the code `vendor` owns the routes of `vendor-v2` as well, and `A_B` those of `A-B`.
* "GET /vendors and GET /vendors/ hit the same route" (`catalog.py:69-70`): they are one endpoint
  to the catalog, but the route has the path with the slash as it was declared.
* `vars` ignores case and `pat-auth` does not (`apisix_client.py:217`), so a request may get a
  route whose scope map it does not fit, and 403, although another route declares it.
* A parameter that is a part of a segment (`/a{x}`) is accepted and unreachable: the `uris` of its route
  end at a slash (`apisix_client.py:59-63`). `/{a}/x` and `/y/{b}` are accepted together although both fit `/y/x`.
* `check_endpoint` looks for the method in capitals, `create_api` stores it as given
  (`catalog.py:302,357`): an endpoint declared as `get` is not found.
* BAT-CDP-06 logs rows in DEFAULT as the "most likely cause" of a refusal (`batch.py:134-135`). Since it only creates
  months to come, there are none yet: a month that has strays is never tried again.
* A database set up after the last month of the DDL (`01_ddl.sql:125-134`) has rows in DEFAULT
  until the job has run once and its months have come.

## 7. Not modelled

* The order of the gateway's plugins and the headers for the upstream: planned (section 3).
* Queries (`usage.py`, `audit.py`, `me.py`, the look-ups of `catalog.py`), authentication
  (`auth.py`, `caller_auth.py`, `dev_auth.py`): they read, or check one request.
* Who may call what: roles and ownership are checked before the first statement of a handler
  and refuse the request.
* Error mapping, metrics, front end, mocks, example clients.
* In the migrations: the lengths of columns (a derived upstream longer than `VARCHAR(500)` is refused), and patterns
  of more than one API at a time, which no statement compares.
* In the statistics: rows of no token, and rows without a status, which the two counts of `batch.py:34-43` pass over.
* In the breaker: a `record_success` that raises, which the endpoint's handler then records as a
  failure (`main.py:87,105`); and the 300 s expiry of its window over a stretch with little traffic, for which `Trips` supposes
  a bounded number of losses.
* A restart of Redis with the loss of its last second; two APIs that contend for one public path;
  the collision of two route ids, which have 16 bits of a hash (`apisix_client.py:107`).
