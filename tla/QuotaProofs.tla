---------------------------- MODULE QuotaProofs ----------------------------
(***************************************************************************)
(* The rate limit and the calendar quotas hold for every number of         *)
(* requests in progress, every policy and every calendar.                  *)
(***************************************************************************)
EXTENDS QuotaHistory, TLAPS

\* A request's clock is not ahead of the time, and not far behind it.
Timely == \A r \in Requests :
            req[r] # NoTime => req[r] <= now /\ now <= req[r] + MaxDelay

\* Why RateBounded is kept: what was spent and what is left never exceed what
\* flowed in by the bucket's own clock, however that clock jumps; and when an
\* idle bucket has expired, a full one is covered even for a late request.
Balance ==
  /\ latest <= now
  /\ born = NoTime => spent = 0
  /\ bucket.there /\ born # NoTime =>
       /\ spent * Cost + bucket.tokens <= Burst + Rate * (bucket.ts - born)
       /\ latest + Ttl <= bucket.dies
  /\ ~bucket.there /\ born # NoTime =>
       spent * Cost <= Rate * (now - MaxDelay - born)

\* Why WindowBounded is kept: a counter shows all that was granted, until no
\* request of its window can be in progress any more.
Counted ==
  \A w \in Windows \ lost :
    /\ used[w] <= Limit[w]
    /\ used[w] = counter[w] \/ now >= Ends[w] + Grace

RateInv   == HTypeOK /\ Timely /\ Balance /\ RateBounded
WindowInv == HTypeOK /\ Timely /\ Counted

-----------------------------------------------------------------------------

\* A product with the refill rate grows with its other factor.
LEMMA Monotone ==
  ASSUME NEW a \in Int, NEW b \in Int, a <= b
  PROVE  Rate * a <= Rate * b
  <1>1. Rate \in Nat
    BY AmountAssumption
  <1>2. Rate * (b - a) >= 0
    BY <1>1, SMT
  <1> QED
    BY <1>1, <1>2, SMT

\* The refill since c, by a and by a later b.
LEMMA MonotoneSince ==
  ASSUME NEW a \in Int, NEW b \in Int, NEW c \in Int, a <= b
  PROVE  Rate * (a - c) <= Rate * (b - c)
  <1>1. a - c \in Int /\ b - c \in Int /\ a - c <= b - c
    OBVIOUS
  <1> QED
    BY <1>1, Monotone

\* What the script finds in the bucket: never more than a full one, nor more
\* than was stored and refilled.
LEMMA LevelBounds ==
  ASSUME HTypeOK, NEW at \in Times
  PROVE  /\ Level(at) \in Int
         /\ Level(at) <= Burst
         /\ bucket.there => Level(at) <= bucket.tokens + Rate * (at - bucket.ts)
         /\ ~bucket.there => Level(at) = Burst
  <1>1. Burst \in Nat /\ Rate \in Nat /\ at \in Int
    BY AmountAssumption, TimeAssumption DEF Times
  <1>2. bucket.tokens \in Int /\ bucket.ts \in Int /\ bucket.there \in BOOLEAN
    BY TimeAssumption DEF HTypeOK, TypeOK, Bucket, Times
  <1>3. Rate * (at - bucket.ts) \in Int
    BY <1>1, <1>2, SMT
  <1> QED
    BY <1>1, <1>2, <1>3 DEF Level, AtMost

\* The types hold at first.
LEMMA TypeInit == HInit => HTypeOK
  BY TimeAssumption DEF HInit, Init, HTypeOK, TypeOK, Bucket, Gone, Times

\* Every write of the bucket keeps its type.
LEMMA WriteType ==
  ASSUME HTypeOK, NEW at \in Times, NEW n \in Int, Write(n, at)
  PROVE  bucket' \in Bucket
  BY TimeAssumption DEF HTypeOK, TypeOK, Write, Bucket, Times

\* Every step keeps the types.
LEMMA TypeStep == HTypeOK /\ [HNext]_hvars => HTypeOK'
  <1> SUFFICES ASSUME HTypeOK, [HNext]_hvars PROVE HTypeOK'
    OBVIOUS
  <1> USE DEF HTypeOK, TypeOK
  <1>c. Cost \in Int
    BY AmountAssumption
  <1>1. ASSUME NEW r \in Requests, Granted(r) PROVE HTypeOK'
    <2>1. req[r] \in Times
      BY <1>1 DEF Granted, Allowed
    <2>2. Level(req[r]) - Cost \in Int
      BY <2>1, <1>c, LevelBounds
    <2>3. bucket' \in Bucket
      BY <1>1, <2>1, <2>2, WriteType DEF Granted, Allowed
    <2> QED
      BY <1>1, <2>1, <2>3 DEF Granted, Allowed, Wrote, Finish
  <1>2. ASSUME NEW r \in Requests, Refused(r) PROVE HTypeOK'
    <2>1. CASE RateLimited(r) /\ Wrote(r) /\ UNCHANGED <<spent, used, lost>>
      <3>1. req[r] \in Times
        BY <2>1 DEF RateLimited
      <3>2. bucket' \in Bucket
        BY <2>1, <3>1, LevelBounds, WriteType DEF RateLimited
      <3> QED
        BY <2>1, <3>1, <3>2 DEF RateLimited, Wrote, Finish
    <2>2. CASE QuotaExceeded(r) /\ UNCHANGED history
      BY <2>2 DEF QuotaExceeded, history, Finish
    <2> QED
      BY <1>2, <2>1, <2>2 DEF Refused
  <1>3. CASE Measure
    BY <1>3, TimeAssumption DEF Measure, Anew, vars, Times
  <1>4. CASE LoseBucket
    BY <1>4, TimeAssumption DEF LoseBucket, EvictBucket, Anew, Gone, Bucket, Times
  <1>5. ASSUME NEW w \in Windows, LoseCounter(w) PROVE HTypeOK'
    BY <1>5 DEF LoseCounter, EvictCounter
  <1>6. CASE Unnoticed
    <2>1. ASSUME NEW r \in Requests, ReadClock(r) \/ Unavailable(r), UNCHANGED history
          PROVE  HTypeOK'
      BY <2>1 DEF ReadClock, Unavailable, Finish, history
    <2>2. CASE Tick /\ UNCHANGED history
      BY <2>2, TimeAssumption DEF Tick, history, Times
    <2>3. CASE BucketTtl /\ UNCHANGED history
      BY <2>3, TimeAssumption DEF BucketTtl, history, Gone, Bucket, Times
    <2>4. ASSUME NEW w \in Windows, CounterTtl(w), UNCHANGED history
          PROVE  HTypeOK'
      BY <2>4 DEF CounterTtl, history
    <2> QED
      BY <1>6, <2>1, <2>2, <2>3, <2>4 DEF Unnoticed
  <1>7. CASE UNCHANGED hvars
    BY <1>7 DEF hvars, vars, history
  <1> QED
    BY <1>1, <1>2, <1>3, <1>4, <1>5, <1>6, <1>7 DEF HNext

\* The types of the state and of the history (run QuotaRate).
THEOREM QuotaTypes == HSpec => []HTypeOK
  BY TypeInit, TypeStep, PTL DEF HSpec

-----------------------------------------------------------------------------
(* Clocks.                                                                 *)

\* No request holds a clock at first.
LEMMA TimelyInit == HInit => Timely
  BY DEF HInit, Init, Timely

\* Only Tick moves the time, and it waits for the requests.
LEMMA TimelyStep == HTypeOK /\ Timely /\ [HNext]_hvars => Timely'
  <1> SUFFICES ASSUME HTypeOK, Timely, [HNext]_hvars PROVE Timely'
    OBVIOUS
  <1> USE TimeAssumption DEF HTypeOK, TypeOK, Times, Timely
  <1>1. ASSUME NEW r \in Requests, Finish(r), UNCHANGED now PROVE Timely'
    BY <1>1 DEF Finish
  <1>2. CASE Tick
    BY <1>2 DEF Tick
  <1>3. ASSUME NEW r \in Requests, ReadClock(r) PROVE Timely'
    BY <1>3 DEF ReadClock
  <1>4. CASE UNCHANGED <<now, req>>
    BY <1>4
  <1>5. CASE HNext
    <2>1. ASSUME NEW r \in Requests, Granted(r) \/ Refused(r) PROVE Timely'
      BY <1>1, <2>1
      DEF Granted, Refused, Allowed, RateLimited, QuotaExceeded
    <2>2. CASE Measure \/ LoseBucket \/ \E w \in Windows : LoseCounter(w)
      BY <1>4, <2>2
      DEF Measure, LoseBucket, EvictBucket, LoseCounter, EvictCounter, vars
    <2>3. CASE Unnoticed
      BY <1>1, <1>2, <1>3, <1>4, <2>3
      DEF Unnoticed, Unavailable, BucketTtl, CounterTtl
    <2> QED
      BY <1>5, <2>1, <2>2, <2>3 DEF HNext
  <1> QED
    BY <1>4, <1>5 DEF hvars, vars

-----------------------------------------------------------------------------
(* The rate limit.                                                         *)

\* Nothing is spent at first.
LEMMA RateInit == HInit => Balance /\ RateBounded
  BY DEF HInit, Init, Gone, Balance, RateBounded

\* The amounts of the balance are integers.
LEMMA Amounts ==
  ASSUME HTypeOK
  PROVE  /\ spent * Cost \in Int
         /\ born # NoTime => Rate * (bucket.ts - born) \in Int
         /\ born # NoTime => Rate * (latest - born) \in Int
  <1>1. spent \in Int /\ Cost \in Int /\ Rate \in Int
    BY AmountAssumption DEF HTypeOK
  <1>2. bucket.ts \in Int /\ latest \in Int /\ (born # NoTime => born \in Int)
    BY DEF HTypeOK, TypeOK, Bucket, Times
  <1> QED
    BY <1>1, <1>2, SMT

\* A write at the clock of r which takes n from the bucket, nothing for a
\* refused call or Cost for one let through: what flowed in covers it.
LEMMA WriteBalance ==
  ASSUME HTypeOK, Timely, Balance,
         NEW r \in Requests, req[r] # NoTime,
         NEW n \in {0, Cost},
         Wrote(r), spent' = IF n = 0 THEN spent ELSE spent + 1
  PROVE  /\ born' \in Times /\ latest' \in Times
         /\ req[r] <= latest' /\ (born # NoTime => latest <= latest')
         /\ latest' <= now
         /\ spent' * Cost + (Level(req[r]) - n)
              <= Burst + Rate * (req[r] - born')
  <1> DEFINE at == req[r]
  <1>1. at \in Times /\ at \in Int /\ now \in Int /\ at <= now /\ now <= at + MaxDelay
    BY DEF HTypeOK, TypeOK, Timely, Times
  <1>2. latest \in Int /\ (born # NoTime => born \in Int) /\ bucket.ts \in Int
        /\ bucket.tokens \in Int /\ bucket.there \in BOOLEAN /\ spent \in Int
    BY DEF HTypeOK, TypeOK, Bucket, Times
  <1>3. Rate \in Int /\ Cost \in Int /\ Burst \in Int /\ MaxDelay \in Int
    BY AmountAssumption, TimeAssumption
  <1>4. born' \in Times /\ latest' \in Times /\ at <= latest'
        /\ (born # NoTime => latest <= latest')
        /\ latest' <= now
    BY <1>1, <1>2 DEF Wrote, HTypeOK, Balance
  <1>5. Level(at) \in Int /\ Level(at) <= Burst
        /\ (bucket.there => Level(at) <= bucket.tokens + Rate * (at - bucket.ts))
        /\ (~bucket.there => Level(at) = Burst)
    BY <1>1, LevelBounds
  <1>6. spent' * Cost = spent * Cost + n
    <2>1. CASE n = 0
      BY <2>1, <1>2, <1>3, SMT
    <2>2. CASE n = Cost /\ n # 0
      <3>1. spent' = spent + 1
        BY <2>2
      <3>2. (spent + 1) * Cost = spent * Cost + Cost
        BY <1>2, <1>3, SMT
      <3> QED
        BY <2>2, <3>1, <3>2
    <2> QED
      BY <2>1, <2>2
  <1>7. spent * Cost + Level(at) <= Burst + Rate * (at - born')
    <2>1. CASE born = NoTime
      <3>1. born' = at /\ spent = 0
        BY <2>1 DEF Wrote, Balance
      <3>2. spent * Cost = 0 /\ Rate * (at - born') = 0
        BY <3>1, <1>1, <1>3, SMT
      <3> QED
        BY <3>2, <1>5, <1>3
    <2>2. CASE born # NoTime /\ bucket.there
      <3>1. born' = born /\ born \in Int
        BY <2>2, <1>2 DEF Wrote
      <3>2. spent * Cost + bucket.tokens <= Burst + Rate * (bucket.ts - born)
        BY <2>2 DEF Balance
      <3>3. Rate * (bucket.ts - born) + Rate * (at - bucket.ts) = Rate * (at - born)
        BY <3>1, <1>1, <1>2, <1>3, SMT
      <3>4. /\ spent * Cost \in Int /\ Rate * (bucket.ts - born) \in Int
            /\ Rate * (at - bucket.ts) \in Int /\ Rate * (at - born) \in Int
        BY <3>1, <1>1, <1>2, <1>3, SMT
      <3> QED
        BY <3>1, <3>2, <3>3, <3>4, <1>5, <1>2, <1>3, <2>2
    <2>3. CASE born # NoTime /\ ~bucket.there
      <3>1. born' = born /\ born \in Int
        BY <2>3, <1>2 DEF Wrote
      <3>2. spent * Cost <= Rate * (now - MaxDelay - born)
        BY <2>3 DEF Balance
      <3>3. Rate * (now - MaxDelay - born) <= Rate * (at - born)
        <4>1. /\ now - MaxDelay - born \in Int /\ at - born \in Int
              /\ now - MaxDelay - born <= at - born
          BY <3>1, <1>1, <1>3
        <4> QED
          BY <4>1, Monotone
      <3>4. /\ spent * Cost \in Int /\ Rate * (now - MaxDelay - born) \in Int
            /\ Rate * (at - born) \in Int
        BY <3>1, <1>1, <1>2, <1>3, SMT
      <3> QED
        BY <3>1, <3>2, <3>3, <3>4, <1>5, <1>3, <2>3
    <2> QED
      BY <2>1, <2>2, <2>3, <1>2
  <1>8. /\ n \in Int /\ spent * Cost \in Int /\ Rate * (at - born') \in Int
    BY <1>1, <1>2, <1>3, <1>4, SMT DEF Times
  <1> QED
    BY <1>3, <1>4, <1>5, <1>6, <1>7, <1>8

\* Such a write keeps the balance and the bound.
LEMMA WriteKeeps ==
  ASSUME HTypeOK, Timely, Balance, RateBounded,
         NEW r \in Requests, req[r] # NoTime,
         NEW n \in {0, Cost},
         n = Cost => Level(req[r]) >= Cost,
         Write(Level(req[r]) - n, req[r]),
         Wrote(r), spent' = IF n = 0 THEN spent ELSE spent + 1, now' = now
  PROVE  Balance' /\ RateBounded'
  <1> DEFINE at == req[r]
  <1>1. at \in Int /\ now \in Int /\ at <= now
    BY DEF HTypeOK, TypeOK, Timely, Times
  <1>2. latest \in Int /\ (born # NoTime => born \in Int) /\ spent \in Int
    BY DEF HTypeOK, Times
  <1>3. Rate \in Int /\ Cost \in Int /\ Burst \in Int /\ Ttl \in Int /\ NoTime \notin Int
    BY AmountAssumption, TimeAssumption
  <1>4. /\ born' \in Int /\ latest' \in Int /\ at <= latest' /\ latest' <= now
    BY WriteBalance DEF Times
  <1>b. spent' * Cost + (Level(at) - n) <= Burst + Rate * (at - born')
    BY WriteBalance
  <1>5. Level(at) \in Int
    BY LevelBounds DEF HTypeOK, TypeOK
  <1>6. /\ bucket'.there /\ bucket'.tokens = Level(at) - n
        /\ bucket'.ts = at /\ bucket'.dies = now + Ttl
    BY DEF Write
  <1>7. Balance'
    <2>1. latest' <= now' /\ latest' + Ttl <= now + Ttl /\ born' # NoTime
      <3>1. now' = now
        OBVIOUS
      <3>2. latest' + Ttl <= now + Ttl
        <4>1. ASSUME NEW a \in Int, NEW b \in Int, NEW c \in Int, a <= b
              PROVE  a + c <= b + c
          BY <4>1
        <4>2. latest' \in Int /\ now \in Int /\ Ttl \in Int /\ latest' <= now
          BY <1>1, <1>3, <1>4
        <4> QED
          BY <4>1, <4>2
      <3>3. born' # NoTime
        BY <1>3, <1>4
      <3> QED
        BY <1>4, <3>1, <3>2, <3>3
    <2>2. bucket'.tokens \in Int /\ spent' * Cost + bucket'.tokens
            <= Burst + Rate * (bucket'.ts - born')
      BY <1>6, <1>b, <1>3, <1>5
    <2>3. latest' + Ttl <= bucket'.dies
      BY <1>6, <2>1
    <2> QED
      BY <1>6, <2>1, <2>2, <2>3, Zenon DEF Balance
  <1>8. RateBounded'
    <2>1. Rate * (at - born') <= Rate * (latest' - born')
      BY <1>1, <1>4, MonotoneSince
    <2>2. /\ spent' * Cost \in Int /\ n \in Int
          /\ Rate * (at - born') \in Int /\ Rate * (latest' - born') \in Int
      BY <1>1, <1>2, <1>3, <1>4, SMT
    <2>3. CASE n = Cost
      <3>1. Level(at) - n >= 0
        BY <2>3, <1>3, <1>5
      <3> QED
        BY <3>1, <2>1, <2>2, <1>3, <1>b, <1>5 DEF RateBounded
    <2>4. CASE n = 0 /\ born = NoTime
      <3>1. spent' * Cost = 0
        BY <2>4, <1>3 DEF Balance
      <3>2. at - born' = 0
        BY <2>4, <1>1 DEF Wrote
      <3>3. Rate * (at - born') = 0
        BY <3>2, <1>3
      <3> QED
        BY <3>1, <3>3, <2>1, <2>2, <1>3, AmountAssumption DEF RateBounded
    <2>5. CASE n = 0 /\ born # NoTime
      <3>1. born' = born /\ spent' = spent /\ latest <= latest'
        BY <2>5, <1>2, WriteBalance DEF Wrote
      <3>2. Rate * (latest - born) <= Rate * (latest' - born)
        BY <3>1, <2>5, <1>2, <1>4, MonotoneSince
      <3>3. spent * Cost <= Burst + Rate * (latest - born)
        BY <2>5 DEF RateBounded
      <3>4. Rate * (latest - born) \in Int
        BY <2>5, Amounts
      <3> QED
        BY <3>1, <3>2, <3>3, <3>4, <2>2, <1>3 DEF RateBounded
    <2> QED
      BY <2>3, <2>4, <2>5
  <1> QED
    BY <1>7, <1>8

\* An expired bucket stood idle for so long that it would be full: what was
\* spent is covered without it.
LEMMA ExpiryKeeps ==
  ASSUME HTypeOK, Timely, Balance, RateBounded, BucketTtl, UNCHANGED history
  PROVE  Balance' /\ RateBounded'
  <1>1. /\ now \in Int /\ latest \in Int /\ (born # NoTime => born \in Int)
        /\ bucket.dies \in Int
    BY DEF HTypeOK, TypeOK, Bucket, Times
  <1>2. Rate \in Int /\ Burst \in Int /\ Ttl \in Int /\ MaxDelay \in Int
    BY AmountAssumption, TimeAssumption
  <1>3. ASSUME born # NoTime
        PROVE  spent * Cost <= Rate * (now - MaxDelay - born)
    <2>1. spent * Cost <= Burst + Rate * (latest - born)
      BY <1>3 DEF RateBounded
    <2>2. latest + Ttl <= now
      BY <1>1, <1>2, <1>3 DEF Balance, BucketTtl
    <2>3. Rate * (latest + Ttl - MaxDelay - born) <= Rate * (now - MaxDelay - born)
      <3>1. /\ latest + Ttl - MaxDelay - born \in Int /\ now - MaxDelay - born \in Int
            /\ latest + Ttl - MaxDelay - born <= now - MaxDelay - born
        BY <1>1, <1>2, <1>3, <2>2
      <3> QED
        BY <3>1, Monotone
    <2>4. Rate * (latest + Ttl - MaxDelay - born)
            = Rate * (latest - born) + Rate * Ttl - Rate * MaxDelay
      BY <1>1, <1>2, <1>3, SMT
    <2>5. /\ Rate * (latest + Ttl - MaxDelay - born) \in Int
          /\ Rate * (now - MaxDelay - born) \in Int
          /\ Rate * Ttl \in Int /\ Rate * MaxDelay \in Int
      BY <1>1, <1>2, <1>3, SMT
    <2>6. spent * Cost \in Int /\ Rate * (latest - born) \in Int
      BY <1>3, Amounts
    <2> QED
      BY <2>1, <2>3, <2>4, <2>5, <2>6, <1>2, ExpiryAssumption
  <1> QED
    BY <1>3 DEF BucketTtl, Gone, history, Balance, RateBounded

\* Time passing covers no less.
LEMMA TickKeeps ==
  ASSUME HTypeOK, Balance, RateBounded, Tick, UNCHANGED history
  PROVE  Balance' /\ RateBounded'
  <1>1. /\ now \in Int /\ latest \in Int /\ (born # NoTime => born \in Int)
        /\ now' = now + 1 /\ MaxDelay \in Int
    BY TimeAssumption DEF HTypeOK, TypeOK, Times, Tick
  <1>2. ASSUME born # NoTime
        PROVE  /\ Rate * (now - MaxDelay - born) <= Rate * (now' - MaxDelay - born)
               /\ Rate * (now - MaxDelay - born) \in Int
               /\ Rate * (now' - MaxDelay - born) \in Int
    <2>1. /\ now - MaxDelay - born \in Int /\ now' - MaxDelay - born \in Int
          /\ now - MaxDelay - born <= now' - MaxDelay - born
      BY <1>1, <1>2
    <2>2. Rate \in Int
      BY AmountAssumption
    <2>3. /\ Rate * (now - MaxDelay - born) \in Int
          /\ Rate * (now' - MaxDelay - born) \in Int
      BY <2>1, <2>2, SMT
    <2> QED
      BY <2>1, <2>3, Monotone
  <1>3. spent * Cost \in Int
    BY Amounts
  <1> QED
    BY <1>1, <1>2, <1>3 DEF Tick, history, Balance, RateBounded

\* Every step keeps the balance and the rate limit.
LEMMA RateStep == RateInv /\ [HNext]_hvars => Balance' /\ RateBounded'
  <1> SUFFICES ASSUME RateInv, [HNext]_hvars PROVE Balance' /\ RateBounded'
    OBVIOUS
  <1> USE DEF RateInv
  <1>1. ASSUME NEW r \in Requests, Granted(r) PROVE Balance' /\ RateBounded'
    <2> DEFINE n == Cost
    <2>1. n \in {0, Cost} /\ n # 0
      BY AmountAssumption
    <2>2. spent' = IF n = 0 THEN spent ELSE spent + 1
      BY <1>1, <2>1 DEF Granted
    <2>3. /\ req[r] # NoTime /\ Level(req[r]) >= n /\ Write(Level(req[r]) - n, req[r])
          /\ Wrote(r) /\ now' = now
      BY <1>1 DEF Granted, Allowed
    <2> HIDE DEF n
    <2>4. n = Cost => Level(req[r]) >= Cost
      BY <2>3
    <2> QED
      BY <2>1, <2>2, <2>3, <2>4, WriteKeeps
  <1>2. ASSUME NEW r \in Requests, Refused(r) PROVE Balance' /\ RateBounded'
    <2>1. CASE RateLimited(r) /\ Wrote(r) /\ UNCHANGED <<spent, used, lost>>
      <3>1. req[r] \in Times
        BY <2>1 DEF HTypeOK, TypeOK, RateLimited
      <3>2. Level(req[r]) \in Int
        BY <3>1, LevelBounds
      <3>3. Level(req[r]) - 0 = Level(req[r])
        BY <3>2
      <3>4. 0 = Cost => Level(req[r]) >= Cost
        BY AmountAssumption
      <3> QED
        BY <2>1, <3>3, <3>4, WriteKeeps DEF RateLimited
    <2>2. CASE QuotaExceeded(r) /\ UNCHANGED history
      BY <2>2 DEF QuotaExceeded, history, Balance, RateBounded
    <2> QED
      BY <1>2, <2>1, <2>2 DEF Refused
  <1>3. CASE Measure \/ LoseBucket
    BY <1>3, TimeAssumption
    DEF Measure, LoseBucket, EvictBucket, Anew, vars, Balance, RateBounded,
        HTypeOK, TypeOK, Times
  <1>4. ASSUME NEW w \in Windows, LoseCounter(w) PROVE Balance' /\ RateBounded'
    BY <1>4 DEF LoseCounter, EvictCounter, Balance, RateBounded
  <1>5. CASE Unnoticed
    <2>1. CASE (\E r \in Requests : ReadClock(r) \/ Unavailable(r)) /\ UNCHANGED history
      BY <2>1 DEF ReadClock, Unavailable, history, Balance, RateBounded
    <2>2. CASE (\E w \in Windows : CounterTtl(w)) /\ UNCHANGED history
      BY <2>2 DEF CounterTtl, history, Balance, RateBounded
    <2> QED
      BY <1>5, <2>1, <2>2, TickKeeps, ExpiryKeeps DEF Unnoticed
  <1>6. CASE UNCHANGED hvars
    BY <1>6 DEF hvars, vars, history, Balance, RateBounded
  <1> QED
    BY <1>1, <1>2, <1>3, <1>4, <1>5, <1>6 DEF HNext

\* The rate limit (RateBounded, run QuotaRate), for every policy and every
\* number of concurrent requests.
THEOREM RateLimitHolds == HSpec => []RateBounded
  <1>1. HInit => RateInv
    BY TypeInit, TimelyInit, RateInit DEF RateInv
  <1>2. RateInv /\ [HNext]_hvars => RateInv'
    BY TypeStep, TimelyStep, RateStep DEF RateInv
  <1>3. RateInv => RateBounded
    BY DEF RateInv
  <1> QED
    BY <1>1, <1>2, <1>3, PTL DEF HSpec

-----------------------------------------------------------------------------
(* The calendar quotas.                                                    *)

\* Nothing is counted at first.
LEMMA WindowInit == HInit => Counted
  BY WindowAssumption DEF HInit, Init, Counted

\* Every step keeps the counters: a call is counted in the windows of its own
\* clock, and a counter outlives the requests that can still be charged to it.
LEMMA WindowStep == WindowInv /\ [HNext]_hvars => Counted'
  <1> SUFFICES ASSUME WindowInv, [HNext]_hvars PROVE Counted'
    OBVIOUS
  <1> USE DEF WindowInv
  <1>0. /\ now \in Int /\ now' \in Int /\ now <= now'
        /\ \A w \in Windows : Ends[w] \in Int /\ Limit[w] \in Int
                             /\ used[w] \in Int /\ counter[w] \in Int
        /\ Grace \in Int /\ MaxDelay \in Int /\ MaxDelay <= Grace
    <2>1. now' = now \/ now' = now + 1
      BY DEF HNext, Granted, Allowed, Refused, RateLimited, QuotaExceeded, Measure,
             LoseBucket, EvictBucket, LoseCounter, EvictCounter, Unnoticed,
             ReadClock, Unavailable, Tick, BucketTtl, CounterTtl, vars, hvars
    <2> QED
      BY <2>1, TimeAssumption, WindowAssumption DEF HTypeOK, TypeOK, Times
  <1>1. ASSUME NEW r \in Requests, Granted(r) PROVE Counted'
    <2>1. /\ req[r] \in Times /\ req[r] \in Int /\ now <= req[r] + MaxDelay
      BY <1>1 DEF Granted, Allowed, HTypeOK, TypeOK, Timely, Times
    <2>2. ASSUME NEW w \in Windows \ lost, w \in WindowsAt[req[r]]
          PROVE  used'[w] <= Limit[w] /\ used'[w] = counter'[w]
      <3>1. now < Ends[w] + Grace
        BY <1>0, <2>1, <2>2, WindowAssumption
      <3>2. used[w] = counter[w] /\ counter[w] < Limit[w]
        BY <1>0, <1>1, <2>2, <3>1 DEF Counted, Granted, Allowed, Exhausted
      <3>3. used'[w] = used[w] + 1 /\ counter'[w] = counter[w] + 1
        BY <1>1, <2>2 DEF Granted, Allowed
      <3> QED
        BY <1>0, <3>2, <3>3
    <2>3. ASSUME NEW w \in Windows \ lost, w \notin WindowsAt[req[r]]
          PROVE  used'[w] = used[w] /\ counter'[w] = counter[w]
      BY <1>1, <2>3 DEF Granted, Allowed
    <2>4. lost' = lost /\ now' = now
      BY <1>1 DEF Granted, Allowed
    <2> QED
      BY <2>2, <2>3, <2>4 DEF Counted
  <1>2. ASSUME NEW w \in Windows, LoseCounter(w) PROVE Counted'
    BY <1>2 DEF LoseCounter, EvictCounter, Counted, HTypeOK, TypeOK
  <1>3. ASSUME NEW w \in Windows, CounterTtl(w), UNCHANGED history PROVE Counted'
    BY <1>3 DEF CounterTtl, history, Counted, HTypeOK, TypeOK
  <1>4. CASE UNCHANGED <<counter, used, lost>>
    BY <1>0, <1>4 DEF Counted
  <1>5. CASE HNext
    <2>1. ASSUME NEW r \in Requests, Refused(r) PROVE UNCHANGED <<counter, used, lost>>
      BY <2>1 DEF Refused, RateLimited, QuotaExceeded, history
    <2>2. CASE Measure \/ LoseBucket
      BY <1>4, <2>2 DEF Measure, LoseBucket, EvictBucket, Anew, vars
    <2>3. CASE Unnoticed
      BY <1>3, <1>4, <2>3
      DEF Unnoticed, ReadClock, Unavailable, Tick, BucketTtl, history
    <2> QED
      BY <1>1, <1>2, <1>4, <1>5, <2>1, <2>2, <2>3 DEF HNext
  <1> QED
    BY <1>4, <1>5 DEF hvars, vars, history

\* The daily and monthly quotas (WindowBounded, run QuotaWindows), for every
\* calendar and every limit.
THEOREM WindowQuotaHolds == HSpec => []WindowBounded
  <1>1. HInit => WindowInv
    BY TypeInit, TimelyInit, WindowInit DEF WindowInv
  <1>2. WindowInv /\ [HNext]_hvars => WindowInv'
    BY TypeStep, TimelyStep, WindowStep DEF WindowInv
  <1>3. WindowInv => WindowBounded
    BY DEF WindowInv, Counted, WindowBounded
  <1> QED
    BY <1>1, <1>2, <1>3, PTL DEF HSpec
=============================================================================
