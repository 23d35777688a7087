----------------------------- MODULE QuotaBucket -----------------------------
(***************************************************************************)
(* pat-quota and its Redis script quota_deduct.lua for one token: a token  *)
(* bucket cdp:rl:{tokenId} and a counter per calendar window (the day, the *)
(* month). A gateway worker reads its clock first and calls the script     *)
(* later, so the script sees the clocks of concurrent requests out of      *)
(* order. Amounts are scaled: in the code Cost is 1000, Rate the tps,      *)
(* Burst 1000 times the burst, and time is in milliseconds.                *)
(***************************************************************************)
EXTENDS Integers

CONSTANTS
  Requests,  \* requests of the token in progress at a time
  Rate,      \* refill of the bucket per unit of time
  Burst,     \* capacity of the bucket
  Cost,      \* what a call takes from the bucket
  Ttl,       \* EXPIRE of the bucket
  MaxDelay,  \* longest time between a request's clock and its script
  Windows,   \* calendar windows: the days and months
  WindowsAt, \* WindowsAt[t]: the windows that contain the time t
  Ends,      \* Ends[w]: the end of the window
  Limit,     \* Limit[w]: dailyQuota or monthlyQuota
  Grace,     \* how long after its end the counter of a window is kept
  MaxTime,   \* bound: the last time explored
  NoTime

Times == 0..MaxTime

ASSUME AmountAssumption ==
  /\ Rate \in Nat /\ Burst \in Nat /\ Cost \in Nat \ {0}

ASSUME TimeAssumption ==
  /\ Ttl \in Nat /\ MaxDelay \in Nat /\ Grace \in Nat /\ MaxTime \in Nat
  /\ NoTime \notin Int
  /\ MaxDelay <= Grace

ASSUME WindowAssumption ==
  /\ WindowsAt \in [Times -> SUBSET Windows]
  /\ Ends \in [Windows -> Nat]
  /\ Limit \in [Windows -> Nat]
  /\ \A t \in Times : \A w \in WindowsAt[t] : t < Ends[w]

VARIABLES
  now,    \* the time
  req,    \* req[r]: the clock the request has read, or NoTime
  bucket, \* cdp:rl
  counter \* counter[w]: cdp:quota:d or cdp:quota:m, 0 if there is no key

vars == <<now, req, bucket, counter>>

Bucket == [there : BOOLEAN, tokens : Int, ts : Times, dies : Nat]
Gone   == [there |-> FALSE, tokens |-> 0, ts |-> 0, dies |-> 0]

TypeOK ==
  /\ now \in Times
  /\ req \in [Requests -> Times \cup {NoTime}]
  /\ bucket \in Bucket
  /\ counter \in [Windows -> Nat]

Init ==
  /\ now     = 0
  /\ req     = [r \in Requests |-> NoTime]
  /\ bucket  = Gone
  /\ counter = [w \in Windows |-> 0]

-----------------------------------------------------------------------------
(* The script. A missing bucket is a full one.                             *)

AtMost(a, b) == IF a <= b THEN a ELSE b

\* What the bucket holds at the request's time, which may be earlier than the
\* bucket's: the refill is then negative.
Level(at) ==
  IF ~bucket.there THEN Burst
  ELSE AtMost(Burst, bucket.tokens + Rate * (at - bucket.ts))

\* Mutant of Write: the two times are swapped.
WriteSwapped(tokens, at) ==
  bucket' = [there |-> TRUE, tokens |-> tokens, ts |-> now + Ttl, dies |-> at]

Write(tokens, at) ==
  bucket' = [there |-> TRUE, tokens |-> tokens, ts |-> at, dies |-> now + Ttl]

\* Mutant of Exhausted: off by one.
ExhaustedPast(at) == \E w \in WindowsAt[at] : counter[w] > Limit[w]

Exhausted(at) == \E w \in WindowsAt[at] : counter[w] >= Limit[w]

Finish(r) == req' = [req EXCEPT ![r] = NoTime]

\* Mutant of RateLimited: the refill is stored, and its time is not.
RateLimitedNoTs(r) ==
  /\ req[r] # NoTime
  /\ Level(req[r]) < Cost
  /\ bucket' = [bucket EXCEPT !.tokens = Level(req[r])]
  /\ Finish(r)
  /\ UNCHANGED <<now, counter>>

\* Refused, and the bucket is brought to the request's time.
RateLimited(r) ==
  /\ req[r] # NoTime
  /\ Level(req[r]) < Cost
  /\ Write(Level(req[r]), req[r])
  /\ Finish(r)
  /\ UNCHANGED <<now, counter>>

\* Refused by a window: nothing is written, not even the bucket's expiry.
QuotaExceeded(r) ==
  /\ req[r] # NoTime
  /\ Level(req[r]) >= Cost
  /\ Exhausted(req[r])
  /\ Finish(r)
  /\ UNCHANGED <<now, bucket, counter>>

Allowed(r) ==
  /\ req[r] # NoTime
  /\ Level(req[r]) >= Cost
  /\ ~Exhausted(req[r])
  /\ Write(Level(req[r]) - Cost, req[r])
  /\ counter' = [w \in Windows |->
                   IF w \in WindowsAt[req[r]] THEN counter[w] + 1 ELSE counter[w]]
  /\ Finish(r)
  /\ UNCHANGED now

-----------------------------------------------------------------------------
(* The plugin around the script, time, and Redis.                          *)

ReadClock(r) ==
  /\ req[r] = NoTime
  /\ req' = [req EXCEPT ![r] = now]
  /\ UNCHANGED <<now, bucket, counter>>

\* Redis cannot be reached: 503, and nothing is charged.
Unavailable(r) ==
  /\ req[r] # NoTime
  /\ Finish(r)
  /\ UNCHANGED <<now, bucket, counter>>

\* The connection's timeouts bound how long a request may hold its clock.
Tick ==
  /\ now < MaxTime
  /\ \A r \in Requests : req[r] # NoTime => now < req[r] + MaxDelay
  /\ now' = now + 1
  /\ UNCHANGED <<req, bucket, counter>>

BucketTtl ==
  /\ bucket.there
  /\ now >= bucket.dies
  /\ bucket' = Gone
  /\ UNCHANGED <<now, req, counter>>

CounterTtl(w) ==
  /\ counter[w] # 0
  /\ now >= Ends[w] + Grace
  /\ counter' = [counter EXCEPT ![w] = 0]
  /\ UNCHANGED <<now, req, bucket>>

\* maxmemory-policy allkeys-lru.
EvictBucket ==
  /\ bucket.there
  /\ bucket' = Gone
  /\ UNCHANGED <<now, req, counter>>

EvictCounter(w) ==
  /\ counter[w] # 0
  /\ counter' = [counter EXCEPT ![w] = 0]
  /\ UNCHANGED <<now, req, bucket>>
=============================================================================
