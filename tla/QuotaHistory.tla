---------------------------- MODULE QuotaHistory ----------------------------
(***************************************************************************)
(* QuotaBucket with a history of what was granted, the next-state relation *)
(* over both, and what the quota promises.                                 *)
(***************************************************************************)
EXTENDS QuotaBucket

VARIABLES
  spent,  \* calls granted since the measuring began
  born,   \* the clock of the first write of the bucket since then, or NoTime
  latest, \* the latest clock written since then
  used,   \* used[w]: calls granted whose clock was in the window, not
          \* counted once its counter is lost
  lost    \* windows whose counter was evicted

history == <<spent, born, latest, used, lost>>
hvars   == <<vars, history>>

\* An idle bucket must be full before it expires, even for a request that is
\* late. With the defaults: 20 + 10 * delay <= 10 * 60 s.
ASSUME ExpiryAssumption == Burst + Rate * MaxDelay <= Rate * Ttl

HInit ==
  /\ Init
  /\ spent  = 0
  /\ born   = NoTime
  /\ latest = 0
  /\ used   = [w \in Windows |-> 0]
  /\ lost   = {}

\* A write of the bucket at the clock of r.
Wrote(r) ==
  /\ born'   = IF born = NoTime THEN req[r] ELSE born
  /\ latest' = IF born = NoTime \/ req[r] > latest THEN req[r] ELSE latest

Granted(r) ==
  /\ Allowed(r)
  /\ Wrote(r)
  /\ spent' = spent + 1
  /\ used'  = [w \in Windows |->
                 IF w \in WindowsAt[req[r]] \ lost
                 THEN used[w] + 1 ELSE used[w]]
  /\ UNCHANGED lost

Refused(r) ==
  \/ RateLimited(r) /\ Wrote(r) /\ UNCHANGED <<spent, used, lost>>
  \/ QuotaExceeded(r) /\ UNCHANGED history

Anew == spent' = 0 /\ born' = NoTime /\ latest' = 0 /\ UNCHANGED <<used, lost>>

\* Measuring may begin at any moment, and begins anew when the bucket is lost.
Measure    == UNCHANGED vars /\ Anew
LoseBucket == EvictBucket /\ Anew

LoseCounter(w) ==
  /\ EvictCounter(w)
  /\ lost' = lost \cup {w}
  /\ used' = [used EXCEPT ![w] = 0]
  /\ UNCHANGED <<spent, born, latest>>

Unnoticed ==
  /\ \/ \E r \in Requests : ReadClock(r) \/ Unavailable(r)
     \/ Tick
     \/ BucketTtl
     \/ \E w \in Windows : CounterTtl(w)
  /\ UNCHANGED history

HNext ==
  \/ \E r \in Requests : Granted(r) \/ Refused(r)
  \/ Measure
  \/ LoseBucket
  \/ \E w \in Windows : LoseCounter(w)
  \/ Unnoticed

HSpec == HInit /\ [][HNext]_hvars

\* The types of the state and of the history.
HTypeOK ==
  /\ TypeOK
  /\ spent \in Nat
  /\ born \in Times \cup {NoTime}
  /\ latest \in Times
  /\ used \in [Windows -> Nat]
  /\ lost \subseteq Windows

\* The rate limit: whenever one begins to measure, the calls let through from
\* the first clock the bucket sees to the latest fit a full bucket and the
\* refill of that time, as long as Redis does not evict the bucket. Neither
\* requests whose clocks reach the script out of order nor the expiry of an idle
\* bucket lets one more call through.
RateBounded ==
  born # NoTime => spent * Cost <= Burst + Rate * (latest - born)

\* The daily and the monthly quota: the calls let through whose clock was in a
\* window fit its limit, also those whose script ran after its end, unless Redis
\* evicted the counter.
WindowBounded == \A w \in Windows \ lost : used[w] <= Limit[w]
=============================================================================
