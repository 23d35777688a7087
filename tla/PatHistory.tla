----------------------------- MODULE PatHistory -----------------------------
(***************************************************************************)
(* PatLifecycle with three history variables, and the properties of        *)
(* revocation that need them. The history constrains no step.              *)
(***************************************************************************)
EXTENDS PatLifecycle

VARIABLES
  raced,     \* dead tokens a copy of which may have outlived invalidation
  unaudited, \* revoked tokens whose audit row was lost or never planned
  begunOpen, \* the calls whose token was open when they began
  skewed     \* per limit, tokens with a value in the cache, or on its way, that may be old

hvars == <<vars, raced, unaudited, begunOpen, skewed>>

\* A coroutine is about to write t to the cache from what it read before.
Holding(t) ==
  \E h \in Handlers : /\ t \in job[h].ids
                      /\ \/ job[h].op = "issue" /\ job[h].pc = "cache"
                         \/ job[h].op = "getmeta" /\ job[h].pc = "fill"

\* A coroutine is on its way to bring a change of the burst of t to the cache.
Changing(t) == \E h \in Handlers : t \in job[h].ids /\ job[h].pc \in {"exists", "hset"}

\* A coroutine is on its way to the cache with another value than the row's: an
\* older one, or the default for 0.
Outdated(t, l) ==
  \E h \in Handlers :
    /\ t \in job[h].ids
    /\ \/ job[h].op = "issue" /\ job[h].pc = "cache" /\ DefaultQuota[l] # quotaRow[t][l]
       \/ job[h].pc = "fill" /\ job[h].quota[l] # quotaRow[t][l]
       \/ job[h].pc \in {"exists", "hset"} /\ l = "burst" /\ job[h].quota[l] # quotaRow[t][l]

\* A limit is changed that no coroutine brings to the entry there is.
Unbrought(t, l) == l # "burst" /\ Cached(t) /\ quotaRow'[t][l] # quotaRow[t][l]

\* The gateway accepts t from the cache, or may come to.
FullEntry(t) == Cached(t) /\ cache[t].full
Copy(t)      == FullEntry(t) \/ Holding(t)

OpenNow(t) == Live(t) \/ (Dead(t) /\ Copy(t))

\* A coroutine is on its way to drop t from the cache.
Invalidating(t) == \E h \in Handlers : t \in job[h].todo

\* A coroutine has committed REVOKED and is on its way to the audit row of t.
Auditing(t) ==
  \E h \in Handlers : /\ job[h].op \in Revokers
                      /\ job[h].pc \in {"drop", "sweep", "audit"}
                      /\ t \in job[h].ids

Leaves(t)  == \E h \in Handlers : t \in job[h].todo /\ t \notin job'[h].todo
Dropped(t) == faults' = faults /\ Leaves(t)
Lost(t)    == faults' # faults /\ Leaves(t)
Escaped(t) == ~Dead(t) /\ Dead(t)' /\ ~Invalidating(t)'

HInit ==
  /\ Init
  /\ raced = {}
  /\ unaudited = {}
  /\ begunOpen = {}
  /\ skewed = [l \in Limits |-> {}]

\* A drop with nobody holding t settles t; one with a holder does not, nor
\* does one that never comes: its coroutine failed, or never knew of t.
RacedNext ==
  raced' = {t \in Tokens :
              \/ t \in raced /\ ~(Dropped(t) /\ ~Holding(t))
              \/ Dropped(t) /\ Holding(t)
              \/ Lost(t)
              \/ Escaped(t)}

UnauditedNext ==
  unaudited' = {t \in Tokens :
                  \/ t \in unaudited
                  \/ faults' # faults /\ Auditing(t)
                  \/ ~Dead(t) /\ Dead(t)' /\ ~Auditing(t)'}

BegunNext ==
  begunOpen' = {r \in Requests :
                  IF req[r].pc = "idle"
                  THEN req'[r].pc # "idle" /\ OpenNow(req'[r].tok)
                  ELSE req'[r].pc # "idle" /\ r \in begunOpen}

\* Whoever holds another value than the row's, a change that fails on its way,
\* and one of a limit that is not brought there at all, may leave the cache
\* behind, until there is no value for t but in the row.
SkewedNext ==
  skewed' = [l \in Limits |->
               {t \in Tokens :
                  \/ t \in skewed[l] /\ (Cached(t) \/ Holding(t) \/ Changing(t))
                  \/ Outdated(t, l)'
                  \/ l = "burst" /\ faults' # faults /\ Changing(t)
                  \/ Unbrought(t, l)}]

HNext == Next /\ RacedNext /\ UnauditedNext /\ BegunNext /\ SkewedNext

HSpec == HInit /\ [][HNext]_hvars

HFairSpec == HSpec /\ Fairness

-----------------------------------------------------------------------------

\* The types of the state and of the history.
HTypeOK ==
  /\ TypeOK
  /\ raced \subseteq Tokens
  /\ unaudited \subseteq Tokens
  /\ begunOpen \subseteq Requests
  /\ skewed \in [Limits -> SUBSET Tokens]

\* A token that is no longer ACTIVE has a copy the gateway would accept only
\* while the coroutine that withdrew it is still on its way to invalidate_pat,
\* or when a read-then-write of the cache was in progress as it invalidated,
\* or the invalidation was lost or never included the token.
StaleOnlyIfRaced ==
  \A t \in Tokens : Dead(t) /\ Copy(t) => Invalidating(t) \/ t \in raced

\* A call that is let in began while its token was ACTIVE or still had a copy:
\* once a withdrawn token has lost its last copy, no later call is let in.
AcceptedBeganOpen ==
  \A r \in Requests : req[r].pc = "accepted" => r \in begunOpen

\* Every revocation leaves a PAT_REVOKED row, however coroutines that revoke
\* the same tokens overtake one another, unless its coroutine failed before
\* the row or the UPDATE reached a token the coroutine had not selected.
RevokedAudited ==
  \A t \in Tokens :
    ledger[t] = "REVOKED" => t \in audit \/ Auditing(t) \/ t \in unaudited

\* A limit the gateway takes from the cache is that of the ledger, unless it is
\* another than burst and was changed while the token was cached, which nothing
\* brings there; or a change of the burst is on its way, or overlapped another
\* or a fill, or failed half-way; or it is 0 (update_quota, get_pat_meta).
QuotaAgrees ==
  \A t \in Tokens, l \in Limits :
    FullEntry(t) /\ t \notin skewed[l] /\ (l = "burst" => ~Changing(t))
      => cache[t].quota[l] = quotaRow[t][l]

-----------------------------------------------------------------------------
(* The abstract promise of PatAccess, implemented by the lifecycle.        *)

accessMap ==
  [t \in Tokens |->
     CASE Absent(t) -> "none"
       [] Live(t) -> "open"
       [] Dead(t) /\ Copy(t) -> "closing"
       [] OTHER -> "closed"]

callMap ==
  [r \in Requests |->
     [tok       |-> req[r].tok,
      permitted |-> r \in begunOpen,
      answer    |-> CASE req[r].pc = "accepted" -> "accepted"
                      [] req[r].pc \in {"refused", "unavailable"} -> "refused"
                      [] OTHER -> "none"]]

Access == INSTANCE PatAccess WITH access <- accessMap, call <- callMap

\* The portal, the cache and pat-auth together keep the promise PatAccess
\* makes: a closed token stays closed and admits no call begun after closing.
ImplementsAccess == Access!Spec
=============================================================================
