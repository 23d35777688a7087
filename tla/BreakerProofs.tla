---------------------------- MODULE BreakerProofs ----------------------------
(***************************************************************************)
(* How often the circuit breaker opens after an outage is bounded, for any *)
(* number of requests and any size of the window.                          *)
(***************************************************************************)
EXTENDS BreakerRecovery, FiniteSetTheorems, SequenceTheorems, TLAPS

\* Requests that have pushed a result and not trimmed the window.
Trimming == {f \in Flights : At(f, "trim")}

\* Requests that hold the verdict OPEN, and those that may get to hold it.
Held == {f \in Flights : At(f, "apply") /\ flight[f].holds = "OPEN"}
Owed == Held \cup {f \in Flights : flight[f].pc \in {"trim", "judge"}}

BreakerTyped ==
  /\ keycloak \in {"up", "slow", "down"}
  /\ cached \in BOOLEAN /\ open \in BOOLEAN
  /\ window \in Seq(Results)
  /\ flight \in [Flights -> Flight]
  /\ losses \in 0..MaxLosses
  /\ relapses \in Nat

\* A result to be recorded is one.
Meant == \A f \in Flights : At(f, "push") => flight[f].holds \in Results

\* The window outgrows its size by the requests that are still to trim it.
Sized == Len(window) <= WindowSize + Cardinality(Trimming)

\* The circuit opened, and may open by those in progress, once for every request
\* and once for every success before a failure in the window.
Charged ==
  \A i \in DOMAIN window :
    window[i] = "FAIL" => relapses + Cardinality(Owed) <= Cardinality(Flights) + (i - 1)

\* The verdicts that are held count as if they had been applied.
Limited == relapses + Cardinality(Held) <= Cardinality(Flights) + WindowSize \div 2

BreakerInv == BreakerTyped /\ Meant /\ Sized /\ Charged /\ Limited

-----------------------------------------------------------------------------
(* The requests that are counted.                                          *)

\* The counted requests are finitely many, and no more than there are.
LEMMA CountsAreNaturals ==
  ASSUME NEW S, S \subseteq Flights
  PROVE  /\ IsFiniteSet(S)
         /\ Cardinality(S) \in Nat
         /\ Cardinality(Flights) \in Nat
         /\ Cardinality(S) <= Cardinality(Flights)
<1>1. IsFiniteSet(Flights) /\ S \in SUBSET Flights
  BY BreakerAssumption
<1>2. IsFiniteSet(S) /\ Cardinality(S) <= Cardinality(Flights)
  BY <1>1, FS_Subset
<1>3. Cardinality(S) \in Nat /\ Cardinality(Flights) \in Nat
  BY <1>1, <1>2, FS_CardinalityType
<1> QED
  BY <1>2, <1>3

\* A set of requests that gains or loses one has one more or one less.
LEMMA OneMoreOrLess ==
  ASSUME NEW S, S \subseteq Flights, NEW f \in Flights
  PROVE  /\ Cardinality(S \cup {f}) <= Cardinality(S) + 1
         /\ f \notin S => Cardinality(S \cup {f}) = Cardinality(S) + 1
         /\ f \in S => Cardinality(S \ {f}) = Cardinality(S) - 1
<1>1. IsFiniteSet(S) /\ Cardinality(S) \in Nat
  BY CountsAreNaturals
<1>2. Cardinality(S \cup {f}) = IF f \in S THEN Cardinality(S) ELSE Cardinality(S) + 1
  BY <1>1, FS_AddElement
<1>3. Cardinality(S \ {f}) = IF f \in S THEN Cardinality(S) - 1 ELSE Cardinality(S)
  BY <1>1, FS_RemoveElement
<1> QED
  BY <1>1, <1>2, <1>3

\* The sets of the invariant are sets of requests.
LEMMA CountedAreFlights ==
  /\ Trimming \subseteq Flights
  /\ Held \subseteq Flights
  /\ Owed \subseteq Flights
  BY DEF Trimming, Held, Owed

-----------------------------------------------------------------------------
(* What a step that moves one request leaves alone.                        *)

Moves(f, to) == flight' = [flight EXCEPT ![f] = to]

\* The other requests stay where they are.
LEMMA OneMoves ==
  ASSUME BreakerTyped, NEW f \in Flights, NEW to \in Flight, Moves(f, to)
  PROVE  /\ flight' \in [Flights -> Flight]
         /\ flight'[f] = to
         /\ \A g \in Flights : g # f => flight'[g] = flight[g]
  BY DEF BreakerTyped, Moves

\* A request that had nothing to push records nothing.
LEMMA NothingRecorded ==
  ASSUME BreakerTyped, NEW f \in Flights, NEW to \in Flight, Moves(f, to),
         ~At(f, "push")
  PROVE  ~Recorded("FAIL")
<1> SUFFICES ASSUME NEW g \in Flights, At(g, "push"), flight'[g].pc = "trim"
             PROVE  FALSE
  BY DEF Recorded
<1>1. g # f
  OBVIOUS
<1>2. flight'[g] = flight[g]
  BY <1>1, OneMoves
<1> QED
  BY <1>2 DEF At

\* The pcs of a request that has not pushed its result.
Early == {"idle", "call", "exchange", "wait", "push"}

\* Where a request stands says which sets it is in.
LEMMA Membership ==
  ASSUME NEW f \in Flights
  PROVE  /\ f \in Trimming <=> flight[f].pc = "trim"
         /\ f \in Held <=> flight[f].pc = "apply" /\ flight[f].holds = "OPEN"
         /\ f \in Owed <=> f \in Held \/ flight[f].pc \in {"trim", "judge"}
         /\ f \in Trimming' <=> flight'[f].pc = "trim"
         /\ f \in Held' <=> flight'[f].pc = "apply" /\ flight'[f].holds = "OPEN"
         /\ f \in Owed' <=> f \in Held' \/ flight'[f].pc \in {"trim", "judge"}
  BY DEF Trimming, Held, Owed, At

\* The sets change by the request that moves.
LEMMA SetsMove ==
  ASSUME BreakerTyped, NEW f \in Flights, NEW to \in Flight, Moves(f, to)
  PROVE  \A g \in Flights :
           g # f => /\ g \in Trimming' <=> g \in Trimming
                    /\ g \in Held' <=> g \in Held
                    /\ g \in Owed' <=> g \in Owed
<1> SUFFICES ASSUME NEW g \in Flights, g # f
             PROVE  /\ g \in Trimming' <=> g \in Trimming
                    /\ g \in Held' <=> g \in Held
                    /\ g \in Owed' <=> g \in Owed
  OBVIOUS
<1>1. flight'[g] = flight[g]
  BY OneMoves
<1> QED
  BY <1>1, Membership

\* The sets do not change while a request is on its way to its push.
LEMMA EarlyMoves ==
  ASSUME BreakerTyped, NEW f \in Flights, NEW to \in Flight, Moves(f, to),
         flight[f].pc \in Early, to.pc \in Early
  PROVE  Trimming' = Trimming /\ Held' = Held /\ Owed' = Owed
<1>1. flight'[f] = to
  BY OneMoves
<1>2. f \notin Trimming \cup Held \cup Owed \cup Trimming' \cup Held' \cup Owed'
  BY <1>1, Membership DEF Early
<1>3. Trimming' \subseteq Flights /\ Held' \subseteq Flights /\ Owed' \subseteq Flights
  BY DEF Trimming, Held, Owed
<1> QED
  BY <1>2, <1>3, SetsMove, CountedAreFlights

-----------------------------------------------------------------------------
(* The window.                                                             *)

\* A window that fails has a failure with no more successes before it than a
\* half of its results.
LEMMA FailureNearTheFront ==
  ASSUME window \in Seq(Results), Len(window) >= 1, Failing
  PROVE  \E i \in DOMAIN window : window[i] = "FAIL" /\ i - 1 <= Len(window) \div 2
<1> DEFINE oks   == {i \in DOMAIN window : window[i] = "OK"}
           fails == {i \in DOMAIN window : window[i] = "FAIL"}
           k     == Len(window) \div 2 + 1
<1>1. Len(window) \in Nat /\ DOMAIN window = 1..Len(window)
  BY LenProperties
<1>2. \A i \in 1..Len(window) : window[i] \in Results
  BY ElementOfSeq
<1>3. k \in Nat /\ 1 <= k /\ k <= Len(window) /\ Len(window) < 2 * k
  BY <1>1
<1> SUFFICES ASSUME \A i \in DOMAIN window : window[i] = "FAIL" => i > k
             PROVE  FALSE
  BY <1>1
<1>4. 1..k \subseteq oks
  BY <1>1, <1>2, <1>3 DEF Results
<1>5. fails \subseteq (k + 1)..Len(window)
  BY <1>1, <1>3
<1> HIDE DEF k
<1>6. IsFiniteSet(1..Len(window)) /\ IsFiniteSet((k + 1)..Len(window))
  BY <1>1, <1>3, FS_Interval
<1>7. oks \in SUBSET (1..Len(window)) /\ fails \in SUBSET ((k + 1)..Len(window))
  BY <1>1, <1>5
<1>8. IsFiniteSet(oks)
  BY <1>6, <1>7, FS_Subset
<1>9. Cardinality(1..k) = k
  BY <1>3, FS_Interval
<1>10. Cardinality((k + 1)..Len(window)) = Len(window) - k
  <2>1. k + 1 \in Int /\ Len(window) \in Int
    BY <1>1, <1>3
  <2>2. Cardinality((k + 1)..Len(window))
          = IF k + 1 > Len(window) THEN 0 ELSE Len(window) - (k + 1) + 1
    BY <2>1, FS_Interval, Zenon
  <2> QED
    BY <1>1, <1>3, <2>2
<1>11. k <= Cardinality(oks)
  <2>1. 1..k \in SUBSET oks
    BY <1>4
  <2>2. Cardinality(1..k) <= Cardinality(oks)
    BY <1>8, <2>1, FS_Subset, Zenon
  <2> QED
    BY <1>9, <2>2
<1>12. Cardinality(fails) <= Len(window) - k
  BY <1>6, <1>7, <1>10, FS_Subset
<1>13. Cardinality(oks) \in Nat /\ Cardinality(fails) \in Nat
  BY <1>6, <1>7, <1>8, FS_Subset, FS_CardinalityType
<1>14. Cardinality(fails) >= Cardinality(oks)
  BY DEF Failing, Count
<1> QED
  BY <1>1, <1>3, <1>11, <1>12, <1>13, <1>14

\* A result pushed comes before the others.
LEMMA WindowPushed ==
  ASSUME window \in Seq(Results), NEW result \in Results,
         window' = <<result>> \o window
  PROVE  /\ window' \in Seq(Results)
         /\ Len(window') = Len(window) + 1
         /\ window'[1] = result
         /\ \A i \in DOMAIN window' : i # 1 => i - 1 \in DOMAIN window /\ window'[i] = window[i - 1]
<1>1. <<result>> \in Seq(Results) /\ Len(<<result>>) = 1 /\ <<result>>[1] = result
  OBVIOUS
<1>2. /\ <<result>> \o window \in Seq(Results)
      /\ Len(<<result>> \o window) = Len(<<result>>) + Len(window)
      /\ \A i \in 1 .. Len(<<result>>) + Len(window) :
           (<<result>> \o window)[i] = IF i <= Len(<<result>>) THEN <<result>>[i]
                                       ELSE window[i - Len(<<result>>)]
  BY <1>1, ConcatProperties, Zenon
<1>3. Len(window) \in Nat /\ DOMAIN window = 1..Len(window)
  BY LenProperties
<1>4. DOMAIN window' = 1..Len(window')
  BY <1>2, LenProperties
<1>5. /\ window' \in Seq(Results)
      /\ Len(window') = Len(window) + 1
      /\ \A i \in 1..Len(window) + 1 :
           window'[i] = IF i <= 1 THEN <<result>>[i] ELSE window[i - 1]
  BY <1>1, <1>2, <1>3
<1>6. window'[1] = result
  BY <1>1, <1>3, <1>5
<1>7. ASSUME NEW i \in DOMAIN window', i # 1
      PROVE  i - 1 \in DOMAIN window /\ window'[i] = window[i - 1]
  BY <1>3, <1>4, <1>5, <1>7
<1> QED
  BY <1>5, <1>6, <1>7

\* A window trimmed is the first part of what it was.
LEMMA WindowTrimmed ==
  ASSUME window \in Seq(Results),
         window' = IF Len(window) <= WindowSize THEN window
                   ELSE SubSeq(window, 1, WindowSize)
  PROVE  /\ window' \in Seq(Results)
         /\ Len(window') <= WindowSize
         /\ \A i \in DOMAIN window' : i \in DOMAIN window /\ window'[i] = window[i]
<1>1. Len(window) \in Nat /\ DOMAIN window = 1..Len(window) /\ WindowSize \in Nat
  BY LenProperties, BreakerAssumption
<1>2. CASE Len(window) <= WindowSize
  BY <1>1, <1>2
<1>3. CASE Len(window) > WindowSize
  <2>1. window' = SubSeq(window, 1, WindowSize)
    BY <1>1, <1>3
  <2>2. \A i \in 1..WindowSize : window[i] \in Results
    BY <1>1, <1>3, ElementOfSeq
  <2>3. /\ SubSeq(window, 1, WindowSize) \in Seq(Results)
        /\ Len(SubSeq(window, 1, WindowSize)) = IF 1 <= WindowSize THEN WindowSize - 1 + 1 ELSE 0
        /\ \A i \in 1 .. WindowSize - 1 + 1 : SubSeq(window, 1, WindowSize)[i] = window[1 + i - 1]
    BY <1>1, <2>2, SubSeqProperties
  <2>4. DOMAIN window' = 1..Len(window')
    BY <2>1, <2>3, LenProperties
  <2> QED
    BY <1>1, <1>3, <2>1, <2>3, <2>4
<1> QED
  BY <1>1, <1>2, <1>3

-----------------------------------------------------------------------------
(* The steps.                                                              *)

\* The types of what a step seldom changes.
OthersTyped ==
  /\ keycloak \in {"up", "slow", "down"}
  /\ cached \in BOOLEAN /\ open \in BOOLEAN
  /\ losses \in 0..MaxLosses

\* The sizes that the invariant adds up are numbers.
LEMMA SizesAreNaturals ==
  ASSUME BreakerTyped
  PROVE  /\ Cardinality(Flights) \in Nat /\ WindowSize \in Nat /\ MinResults \in Nat \ {0}
         /\ Cardinality(Trimming) \in Nat /\ Cardinality(Held) \in Nat /\ Cardinality(Owed) \in Nat
         /\ Cardinality(Owed) <= Cardinality(Flights)
         /\ Cardinality(Held) <= Cardinality(Flights)
         /\ Len(window) \in Nat /\ DOMAIN window = 1..Len(window)
         /\ WindowSize \div 2 \in Nat
         /\ relapses \in Nat
<1>1. Trimming \subseteq Flights /\ Held \subseteq Flights /\ Owed \subseteq Flights
  BY CountedAreFlights
<1>2. Len(window) \in Nat /\ DOMAIN window = 1..Len(window)
  BY LenProperties DEF BreakerTyped
<1>3. WindowSize \in Nat /\ MinResults \in Nat \ {0}
  BY BreakerAssumption
<1>4. WindowSize \div 2 \in Nat
  BY <1>3
<1> QED
  BY <1>1, <1>2, <1>3, <1>4, CountsAreNaturals DEF BreakerTyped

\* A request on its way to its push changes nothing that is counted.
LEMMA EarlyKeeps ==
  ASSUME BreakerInv, Track, NEW f \in Flights, NEW to \in Flight, Moves(f, to),
         flight[f].pc \in Early \ {"push"}, to.pc \in Early,
         to.pc = "push" => to.holds \in Results,
         OthersTyped', window' = window, open' = open
  PROVE  BreakerInv'
<1>1. BreakerTyped /\ Meant /\ Sized /\ Charged /\ Limited
  BY DEF BreakerInv
<1>2. ~Recorded("FAIL")
  BY <1>1, NothingRecorded DEF At
<1>3. relapses' = relapses
  BY <1>2 DEF Track
<1>4. Trimming' = Trimming /\ Held' = Held /\ Owed' = Owed
  BY <1>1, EarlyMoves
<1>5. /\ flight' \in [Flights -> Flight]
      /\ flight'[f] = to
      /\ \A g \in Flights : g # f => flight'[g] = flight[g]
  BY <1>1, OneMoves
<1>6. BreakerTyped'
  BY <1>1, <1>3, <1>5 DEF BreakerTyped, OthersTyped
<1>7. Meant'
  BY <1>1, <1>5 DEF Meant, At
<1>8. Sized' /\ Charged' /\ Limited'
  BY <1>1, <1>3, <1>4 DEF Sized, Charged, Limited
<1> QED
  BY <1>6, <1>7, <1>8 DEF BreakerInv

\* A step of no request opens no circuit, and adds nothing to the window.
LEMMA EnvironmentKeeps ==
  ASSUME BreakerInv, Track, flight' = flight, OthersTyped', open' => open,
         window' = window \/ window' = <<>>
  PROVE  BreakerInv'
<1>1. BreakerTyped /\ Meant /\ Sized /\ Charged /\ Limited
  BY DEF BreakerInv
<1>2. ~Recorded("FAIL")
  BY DEF Recorded, At
<1>3. relapses' = relapses
  BY <1>2 DEF Track
<1>4. Trimming' = Trimming /\ Held' = Held /\ Owed' = Owed
  BY DEF Trimming, Held, Owed, At
<1>5. <<>> \in Seq(Results) /\ Len(<<>>) = 0 /\ DOMAIN <<>> = {}
  <2>1. <<>> \in Seq(Results) /\ Len(<<>>) = 0
    BY EmptySeq, Zenon
  <2>2. DOMAIN <<>> = 1..0
    BY <2>1, LenProperties, Zenon
  <2> QED
    BY <2>1, <2>2
<1>6. BreakerTyped'
  BY <1>1, <1>3, <1>5 DEF BreakerTyped, OthersTyped
<1>7. Meant'
  BY <1>1 DEF Meant, At
<1>8. Sized'
  BY <1>1, <1>4, <1>5, SizesAreNaturals DEF Sized
<1>9. Charged'
  BY <1>1, <1>3, <1>4, <1>5 DEF Charged
<1>10. Limited'
  BY <1>1, <1>3, <1>4 DEF Limited
<1> QED
  BY <1>6, <1>7, <1>8, <1>9, <1>10 DEF BreakerInv

\* A success pushed moves the failures back by one, which pays for its verdict. A
\* failure pushed starts the count again.
LEMMA PushKeeps ==
  ASSUME BreakerInv, Track, NEW f \in Flights, Push(f)
  PROVE  BreakerInv'
<1> DEFINE to == [pc |-> "trim", holds |-> "none"]
<1>1. BreakerTyped /\ Meant /\ Sized /\ Charged /\ Limited
  BY DEF BreakerInv
<1>2. to \in Flight /\ Moves(f, to) /\ flight[f].pc = "push" /\ flight[f].holds \in Results
  BY <1>1 DEF Push, Goto, Moves, Flight, Meant, At
<1>3. /\ flight' \in [Flights -> Flight]
      /\ flight'[f] = to
      /\ \A g \in Flights : g # f => flight'[g] = flight[g]
  BY <1>1, <1>2, OneMoves
<1>4. Recorded("FAIL") <=> flight[f].holds = "FAIL"
  BY <1>2, <1>3 DEF Recorded, At
<1>5. open' = open /\ relapses' = IF flight[f].holds = "FAIL" THEN 0 ELSE relapses
  BY <1>4 DEF Push, Track
<1>6. relapses' \in Nat /\ relapses' <= relapses
  BY <1>1, <1>5 DEF BreakerTyped
<1>7. f \notin Trimming \cup Held \cup Owed
  BY <1>2, Membership
<1>8. Trimming' = Trimming \cup {f} /\ Held' = Held /\ Owed' = Owed \cup {f}
  <2>1. f \in Trimming' /\ f \notin Held' /\ f \in Owed'
    BY <1>3, Membership
  <2>2. Trimming' \subseteq Flights /\ Held' \subseteq Flights /\ Owed' \subseteq Flights
    BY DEF Trimming, Held, Owed
  <2> QED
    BY <1>1, <1>2, <1>7, <2>1, <2>2, SetsMove, CountedAreFlights
<1>9. /\ Cardinality(Trimming') = Cardinality(Trimming) + 1
      /\ Cardinality(Owed') = Cardinality(Owed) + 1
  BY <1>7, <1>8, OneMoreOrLess, CountedAreFlights
<1>10. /\ window' \in Seq(Results)
       /\ Len(window') = Len(window) + 1
       /\ window'[1] = flight[f].holds
       /\ \A i \in DOMAIN window' : i # 1 => i - 1 \in DOMAIN window /\ window'[i] = window[i - 1]
  BY <1>1, <1>2, WindowPushed DEF Push, BreakerTyped
<1>11. BreakerTyped'
  BY <1>1, <1>3, <1>6, <1>10 DEF BreakerTyped, Push
<1>12. Meant'
  BY <1>1, <1>3 DEF Meant, At
<1>13. Sized'
  BY <1>1, <1>9, <1>10, SizesAreNaturals DEF Sized
<1>14. Cardinality(Owed') \in Nat /\ Cardinality(Owed') <= Cardinality(Flights)
  <2>1. Owed' \subseteq Flights
    BY DEF Owed, Held
  <2> QED
    BY <2>1, CountsAreNaturals
<1>15. Charged'
  <2> SUFFICES ASSUME NEW i \in DOMAIN window', window'[i] = "FAIL"
               PROVE  relapses' + Cardinality(Owed') <= Cardinality(Flights) + (i - 1)
    BY DEF Charged
  <2>1. i \in Nat /\ i >= 1
    BY <1>10, LenProperties
  <2>2. CASE flight[f].holds = "FAIL"
    BY <1>1, <1>5, <1>14, <2>1, <2>2, SizesAreNaturals
  <2>3. CASE flight[f].holds # "FAIL"
    <3>1. i # 1
      BY <1>10, <2>3
    <3>2. i - 1 \in DOMAIN window /\ window[i - 1] = "FAIL"
      BY <1>10, <3>1
    <3>3. relapses + Cardinality(Owed) <= Cardinality(Flights) + ((i - 1) - 1)
      BY <1>1, <3>2 DEF Charged
    <3> QED
      BY <1>1, <1>5, <1>9, <2>1, <2>3, <3>3, SizesAreNaturals
  <2> QED
    BY <2>2, <2>3
<1>16. Limited'
  BY <1>1, <1>6, <1>8, SizesAreNaturals DEF Limited
<1> QED
  BY <1>11, <1>12, <1>13, <1>15, <1>16 DEF BreakerInv

\* A window trimmed is in its size, whoever else is to trim it.
LEMMA TrimKeeps ==
  ASSUME BreakerInv, Track, NEW f \in Flights, Trim(f)
  PROVE  BreakerInv'
<1> DEFINE to == [pc |-> "judge", holds |-> "none"]
<1>1. BreakerTyped /\ Meant /\ Sized /\ Charged /\ Limited
  BY DEF BreakerInv
<1>2. to \in Flight /\ Moves(f, to) /\ flight[f].pc = "trim"
  BY DEF Trim, Goto, Moves, Flight, At
<1>3. /\ flight' \in [Flights -> Flight]
      /\ flight'[f] = to
      /\ \A g \in Flights : g # f => flight'[g] = flight[g]
  BY <1>1, <1>2, OneMoves
<1>4. relapses' = relapses
  <2>1. ~Recorded("FAIL")
    BY <1>1, <1>2, NothingRecorded DEF At
  <2> QED
    BY <2>1 DEF Track, Trim
<1>5. Held' = Held /\ Owed' = Owed
  <2>1. f \notin Held /\ f \in Owed /\ f \notin Held' /\ f \in Owed'
    BY <1>2, <1>3, Membership
  <2>2. Held' \subseteq Flights /\ Owed' \subseteq Flights
    BY DEF Held, Owed
  <2> QED
    BY <1>1, <1>2, <2>1, <2>2, SetsMove, CountedAreFlights
<1>6. /\ window' \in Seq(Results)
      /\ Len(window') <= WindowSize
      /\ \A i \in DOMAIN window' : i \in DOMAIN window /\ window'[i] = window[i]
  BY <1>1, WindowTrimmed DEF Trim, BreakerTyped
<1>7. BreakerTyped'
  BY <1>1, <1>3, <1>4, <1>6 DEF BreakerTyped, Trim
<1>8. Meant'
  BY <1>1, <1>3 DEF Meant, At
<1>9. Sized'
  <2>1. Trimming' \subseteq Flights
    BY DEF Trimming
  <2>2. Cardinality(Trimming') \in Nat
    BY <2>1, CountsAreNaturals
  <2>3. Len(window') \in Nat /\ WindowSize \in Nat
    BY <1>6, LenProperties, BreakerAssumption
  <2> QED
    BY <1>6, <2>2, <2>3 DEF Sized
<1>10. Charged'
  BY <1>1, <1>4, <1>5, <1>6 DEF Charged
<1>11. Limited'
  BY <1>1, <1>4, <1>5 DEF Limited
<1> QED
  BY <1>7, <1>8, <1>9, <1>10, <1>11 DEF BreakerInv

\* A window that is judged to fail has a failure near its front, which has been
\* charged for all the verdicts.
LEMMA VerdictIsAffordable ==
  ASSUME BreakerInv, NEW f \in Flights, flight[f].pc = "judge",
         Len(window) >= MinResults, Failing
  PROVE  relapses + Cardinality(Held \cup {f}) <= Cardinality(Flights) + WindowSize \div 2
<1>1. BreakerTyped /\ Sized /\ Charged
  BY DEF BreakerInv
<1>2. PICK i \in DOMAIN window : window[i] = "FAIL" /\ i - 1 <= Len(window) \div 2
  BY <1>1, SizesAreNaturals, FailureNearTheFront DEF BreakerTyped
<1>3. relapses + Cardinality(Owed) <= Cardinality(Flights) + (i - 1)
  BY <1>1, <1>2 DEF Charged
<1>4. Cardinality(Held \cup {f}) + Cardinality(Trimming) <= Cardinality(Owed)
  <2>1. (Held \cup {f}) \cup Trimming \in SUBSET Owed /\ (Held \cup {f}) \cap Trimming = {}
    BY Membership DEF Owed, Held, Trimming, At
  <2>2. IsFiniteSet(Held \cup {f}) /\ IsFiniteSet(Trimming) /\ IsFiniteSet(Owed)
    BY CountsAreNaturals, CountedAreFlights
  <2>3. Cardinality((Held \cup {f}) \cup Trimming)
          = Cardinality(Held \cup {f}) + Cardinality(Trimming)
              - Cardinality((Held \cup {f}) \cap Trimming)
    BY <2>2, FS_Union, Zenon
  <2>4. Cardinality((Held \cup {f}) \cap Trimming) = 0
    BY <2>1, FS_EmptySet
  <2>5. Cardinality((Held \cup {f}) \cup Trimming) <= Cardinality(Owed)
    BY <2>1, <2>2, FS_Subset, Zenon
  <2>6. Cardinality(Held \cup {f}) \in Nat /\ Cardinality(Trimming) \in Nat
    BY <2>2, FS_CardinalityType
  <2> QED
    BY <2>3, <2>4, <2>5, <2>6
<1>5. Len(window) <= WindowSize + Cardinality(Trimming)
  BY <1>1 DEF Sized
<1>6. i - 1 <= WindowSize \div 2 + Cardinality(Trimming)
  BY <1>1, <1>2, <1>5, SizesAreNaturals
<1>7. Cardinality(Held \cup {f}) \in Nat
  BY CountsAreNaturals, CountedAreFlights
<1>8. /\ relapses \in Nat /\ Cardinality(Flights) \in Nat /\ i \in Nat
      /\ Cardinality(Owed) \in Nat /\ Cardinality(Trimming) \in Nat
      /\ WindowSize \div 2 \in Nat
  BY <1>1, SizesAreNaturals
<1> QED
  BY <1>3, <1>4, <1>6, <1>7, <1>8

\* A request that judges may come to hold the verdict OPEN, which it owed.
LEMMA JudgeKeeps ==
  ASSUME BreakerInv, Track, NEW f \in Flights, Judge(f)
  PROVE  BreakerInv'
<1> DEFINE to == IF Len(window) < MinResults THEN Idle
                 ELSE [pc |-> "apply", holds |-> IF Failing THEN "OPEN" ELSE "CLOSED"]
<1>1. BreakerTyped /\ Meant /\ Sized /\ Charged /\ Limited
  BY DEF BreakerInv
<1>2. to \in Flight /\ Moves(f, to) /\ flight[f].pc = "judge"
  BY DEF Judge, Goto, Moves, Flight, At
<1>3. /\ flight' \in [Flights -> Flight]
      /\ flight'[f] = to
      /\ \A g \in Flights : g # f => flight'[g] = flight[g]
  BY <1>1, <1>2, OneMoves
<1>4. relapses' = relapses
  <2>1. ~Recorded("FAIL")
    BY <1>1, <1>2, NothingRecorded DEF At
  <2> QED
    BY <2>1 DEF Track, Judge
<1>5. f \in Owed /\ f \notin Held /\ f \notin Trimming
  BY <1>2, Membership
<1>6. Trimming' = Trimming /\ Held' \subseteq Held \cup {f} /\ Owed' \subseteq Owed
  <2>1. f \notin Trimming'
    BY <1>3, Membership DEF Idle
  <2>2. Trimming' \subseteq Flights /\ Held' \subseteq Flights /\ Owed' \subseteq Flights
    BY DEF Trimming, Held, Owed
  <2>3. \A g \in Flights :
          g # f => /\ g \in Trimming' <=> g \in Trimming
                   /\ g \in Held' <=> g \in Held
                   /\ g \in Owed' <=> g \in Owed
    BY <1>1, <1>2, SetsMove
  <2> HIDE DEF to
  <2> QED
    BY <1>5, <2>1, <2>2, <2>3, CountedAreFlights
<1>7. Cardinality(Owed') \in Nat /\ Cardinality(Owed') <= Cardinality(Owed)
  <2>1. IsFiniteSet(Owed) /\ Owed' \in SUBSET Owed
    BY <1>6, CountsAreNaturals, CountedAreFlights
  <2> QED
    BY <2>1, FS_Subset, FS_CardinalityType
<1>8. BreakerTyped'
  BY <1>1, <1>3, <1>4 DEF BreakerTyped, Judge
<1>9. Meant'
  BY <1>1, <1>3 DEF Meant, At, Idle
<1>10. window' = window
  BY DEF Judge
<1>11. Sized'
  BY <1>1, <1>6, <1>10 DEF Sized
<1>12. Charged'
  <2> SUFFICES ASSUME NEW i \in DOMAIN window, window[i] = "FAIL"
               PROVE  relapses + Cardinality(Owed') <= Cardinality(Flights) + (i - 1)
    BY <1>4, <1>10 DEF Charged
  <2>1. relapses + Cardinality(Owed) <= Cardinality(Flights) + (i - 1)
    BY <1>1 DEF Charged
  <2> QED
    BY <1>1, <1>7, <2>1, SizesAreNaturals
<1>13. Limited'
  <2>1. CASE f \in Held'
    <3>1. Len(window) >= MinResults /\ Failing
      <4>1. to.pc = "apply" /\ to.holds = "OPEN"
        BY <1>3, <2>1, Membership
      <4>2. ~(Len(window) < MinResults)
        BY <4>1 DEF Idle
      <4>3. Failing
        BY <4>1, <4>2
      <4> QED
        BY <1>1, <4>2, <4>3, SizesAreNaturals
    <3>2. relapses + Cardinality(Held \cup {f}) <= Cardinality(Flights) + WindowSize \div 2
      BY <1>2, <3>1, VerdictIsAffordable
    <3>3. IsFiniteSet(Held \cup {f}) /\ Held' \in SUBSET (Held \cup {f})
      BY <1>6, CountsAreNaturals, CountedAreFlights
    <3>4. /\ Cardinality(Held') <= Cardinality(Held \cup {f})
          /\ Cardinality(Held') \in Nat /\ Cardinality(Held \cup {f}) \in Nat
      BY <3>3, FS_Subset, FS_CardinalityType
    <3> QED
      BY <1>1, <1>4, <3>2, <3>4, SizesAreNaturals DEF Limited
  <2>2. CASE f \notin Held'
    <3>1. IsFiniteSet(Held) /\ Held' \in SUBSET Held
      BY <1>6, <2>2, CountsAreNaturals, CountedAreFlights
    <3>2. Cardinality(Held') <= Cardinality(Held) /\ Cardinality(Held') \in Nat
      BY <3>1, FS_Subset, FS_CardinalityType
    <3> QED
      BY <1>1, <1>4, <3>2, SizesAreNaturals DEF Limited
  <2> QED
    BY <2>1, <2>2
<1> QED
  BY <1>8, <1>9, <1>11, <1>12, <1>13 DEF BreakerInv

\* A verdict applied opens the circuit at most once, and is held no more.
LEMMA ApplyKeeps ==
  ASSUME BreakerInv, Track, NEW f \in Flights, Apply(f)
  PROVE  BreakerInv'
<1>1. BreakerTyped /\ Meant /\ Sized /\ Charged /\ Limited
  BY DEF BreakerInv
<1>2. Idle \in Flight /\ Moves(f, Idle) /\ flight[f].pc = "apply"
  BY DEF Apply, Moves, Flight, At
<1>3. /\ flight' \in [Flights -> Flight]
      /\ flight'[f] = Idle
      /\ \A g \in Flights : g # f => flight'[g] = flight[g]
  BY <1>1, <1>2, OneMoves
<1>4. open' = (flight[f].holds = "OPEN") /\ window' = window
  BY DEF Apply
<1>5. relapses' = IF ~open /\ open' THEN relapses + 1 ELSE relapses
  <2>1. ~Recorded("FAIL")
    BY <1>1, <1>2, NothingRecorded DEF At
  <2> QED
    BY <2>1 DEF Track
<1>6. f \notin Trimming /\ (f \in Held <=> open')
  BY <1>2, <1>4, Membership
<1>7. Trimming' = Trimming /\ Held' = Held \ {f} /\ Owed' = Owed \ {f}
  <2>1. f \notin Trimming' \cup Held' \cup Owed'
    BY <1>3, Membership DEF Idle
  <2>2. Trimming' \subseteq Flights /\ Held' \subseteq Flights /\ Owed' \subseteq Flights
    BY DEF Trimming, Held, Owed
  <2> QED
    BY <1>1, <1>2, <1>6, <2>1, <2>2, SetsMove, CountedAreFlights
<1>0. /\ relapses \in Nat /\ Cardinality(Flights) \in Nat /\ WindowSize \div 2 \in Nat
      /\ Cardinality(Held) \in Nat /\ Cardinality(Owed) \in Nat
  BY <1>1, SizesAreNaturals
<1>8. /\ relapses' \in Nat
      /\ relapses' + Cardinality(Held') <= relapses + Cardinality(Held)
      /\ relapses' + Cardinality(Owed') <= relapses + Cardinality(Owed)
  <2>1. CASE f \in Held
    <3>1. f \in Owed
      BY <2>1 DEF Owed
    <3>2. /\ Cardinality(Held') = Cardinality(Held) - 1
          /\ Cardinality(Owed') = Cardinality(Owed) - 1
      BY <1>7, <2>1, <3>1, OneMoreOrLess, CountedAreFlights
    <3>3. relapses' \in Nat /\ relapses' <= relapses + 1
      BY <1>0, <1>5
    <3> QED
      BY <1>0, <3>2, <3>3
  <2>2. CASE f \notin Held
    <3>1. f \notin Owed
      BY <1>2, <2>2, Membership
    <3>2. Held' = Held /\ Owed' = Owed /\ relapses' = relapses
      BY <1>5, <1>6, <1>7, <2>2, <3>1
    <3> QED
      BY <1>1, <3>2, SizesAreNaturals
  <2> QED
    BY <2>1, <2>2
<1>9. BreakerTyped'
  BY <1>1, <1>3, <1>8 DEF BreakerTyped, Apply
<1>10. Meant'
  BY <1>1, <1>3 DEF Meant, At, Idle
<1>11. Sized'
  BY <1>1, <1>4, <1>7 DEF Sized
<1>12. Cardinality(Held') \in Nat /\ Cardinality(Owed') \in Nat
  <2>1. Held' \subseteq Flights /\ Owed' \subseteq Flights
    BY DEF Held, Owed
  <2> QED
    BY <2>1, CountsAreNaturals
<1>13. Charged'
  <2> SUFFICES ASSUME NEW i \in DOMAIN window, window[i] = "FAIL"
               PROVE  relapses' + Cardinality(Owed') <= Cardinality(Flights) + (i - 1)
    BY <1>4 DEF Charged
  <2>1. relapses + Cardinality(Owed) <= Cardinality(Flights) + (i - 1)
    BY <1>1 DEF Charged
  <2>2. i \in Nat
    BY <1>1, SizesAreNaturals
  <2> QED
    BY <1>0, <1>8, <1>12, <2>1, <2>2
<1>14. Limited'
  <2>1. relapses + Cardinality(Held) <= Cardinality(Flights) + WindowSize \div 2
    BY <1>1 DEF Limited
  <2>2. relapses' + Cardinality(Held') <= Cardinality(Flights) + WindowSize \div 2
    BY <1>0, <1>8, <1>12, <2>1
  <2> QED
    BY <2>2 DEF Limited
<1> QED
  BY <1>9, <1>10, <1>11, <1>13, <1>14 DEF BreakerInv

-----------------------------------------------------------------------------
(* The specification.                                                      *)

LEMMA InitHolds == HInit => BreakerInv
<1> SUFFICES ASSUME HInit PROVE BreakerInv
  OBVIOUS
<1> USE DEF HInit, Init
<1>1. <<>> \in Seq(Results) /\ Len(<<>>) = 0
  BY EmptySeq, Zenon
<1>2. \A f \in Flights : flight[f] = Idle
  OBVIOUS
<1>3. BreakerTyped
  <2>1. Idle \in Flight
    BY DEF Flight
  <2>2. flight \in [Flights -> Flight]
    BY <2>1
  <2>3. losses \in 0..MaxLosses
    BY BreakerAssumption
  <2> QED
    BY <1>1, <2>2, <2>3 DEF BreakerTyped
<1>4. Meant
  BY <1>2 DEF Meant, At, Idle
<1>5. Trimming = {} /\ Held = {}
  BY <1>2 DEF Trimming, Held, At, Idle
<1>6. Cardinality(Trimming) = 0 /\ Cardinality(Held) = 0
  BY <1>5, FS_EmptySet
<1>7. Sized /\ Limited
  BY <1>1, <1>3, <1>6, SizesAreNaturals DEF Sized, Limited
<1>8. Charged
  BY <1>1, <1>3, SizesAreNaturals DEF Charged
<1> QED
  BY <1>3, <1>4, <1>7, <1>8 DEF BreakerInv

\* The moves of a request that has pushed nothing yet.
LEMMA CallKeeps ==
  ASSUME BreakerInv, Track, NEW f \in Flights,
         \/ Lookup(f) \/ Refused(f) \/ Hit(f) \/ Miss(f) \/ Exchanged(f)
         \/ ExchangeFailed(f) \/ WaitEnds(f) \/ WaitTimeout(f)
  PROVE  BreakerInv'
<1>0. BreakerTyped
  BY DEF BreakerInv
<1> USE BreakerAssumption DEF At, Goto, Early, OthersTyped, BreakerTyped
<1>1. CASE Lookup(f)
  <2> DEFINE to == [pc |-> "call", holds |-> "none"]
  <2>1. to \in Flight
    BY DEF Flight
  <2>2. Moves(f, to) /\ flight[f].pc \in Early \ {"push"}
    BY <1>1 DEF Lookup, Moves
  <2>3. OthersTyped' /\ window' = window /\ open' = open
    BY <1>0, <1>1 DEF Lookup
  <2> QED
    BY <2>1, <2>2, <2>3, EarlyKeeps
<1>2. CASE Refused(f)
  <2>1. Idle \in Flight /\ Idle.pc = "idle"
    BY DEF Flight, Idle
  <2>2. Moves(f, Idle) /\ flight[f].pc \in Early \ {"push"}
    BY <1>2 DEF Refused, Moves
  <2>3. OthersTyped' /\ window' = window /\ open' = open
    BY <1>0, <1>2 DEF Refused
  <2> QED
    BY <2>1, <2>2, <2>3, EarlyKeeps
<1>3. CASE Miss(f)
  <2> DEFINE to == [pc |-> IF Exchanging THEN "wait" ELSE "exchange", holds |-> "none"]
  <2>1. to \in Flight /\ to.pc \in {"wait", "exchange"}
    BY DEF Flight
  <2>2. Moves(f, to) /\ flight[f].pc \in Early \ {"push"}
    BY <1>3 DEF Miss, Admitted, Moves
  <2>3. OthersTyped' /\ window' = window /\ open' = open
    BY <1>0, <1>3 DEF Miss
  <2> HIDE DEF to
  <2> QED
    BY <2>1, <2>2, <2>3, EarlyKeeps
<1>4. CASE Hit(f) \/ Exchanged(f) \/ WaitEnds(f)
  <2> DEFINE to == [pc |-> "push", holds |-> "OK"]
  <2>1. to \in Flight /\ to.holds \in Results
    BY DEF Flight, Results
  <2>2. Moves(f, to) /\ flight[f].pc \in Early \ {"push"}
    BY <1>4 DEF Hit, Exchanged, WaitEnds, Admitted, Moves
  <2>3. OthersTyped' /\ window' = window /\ open' = open
    BY <1>0, <1>4 DEF Hit, Exchanged, WaitEnds
  <2> QED
    BY <2>1, <2>2, <2>3, EarlyKeeps
<1>5. CASE ExchangeFailed(f) \/ WaitTimeout(f)
  <2> DEFINE to == [pc |-> "push", holds |-> "FAIL"]
  <2>1. to \in Flight /\ to.holds \in Results
    BY DEF Flight, Results
  <2>2. Moves(f, to) /\ flight[f].pc \in Early \ {"push"}
    BY <1>5 DEF ExchangeFailed, WaitTimeout, Moves
  <2>3. OthersTyped' /\ window' = window /\ open' = open
    BY <1>0, <1>5 DEF ExchangeFailed, WaitTimeout
  <2> QED
    BY <2>1, <2>2, <2>3, EarlyKeeps
<1> QED
  BY <1>1, <1>2, <1>3, <1>4, <1>5

\* Keycloak, the expiry of a key and its loss.
LEMMA LossKeeps ==
  ASSUME BreakerInv, Track,
         KeycloakChanges \/ OpenTtl \/ JwtTtl \/ WindowLost \/ JwtLost
  PROVE  BreakerInv'
<1>1. BreakerTyped
  BY DEF BreakerInv
<1>2. OthersTyped'
  <2>0. MaxLosses \in Nat
    BY BreakerAssumption
  <2>1. losses' \in 0..MaxLosses
    BY <1>1, <2>0
    DEF BreakerTyped, KeycloakChanges, OpenTtl, JwtTtl, WindowLost, JwtLost
  <2>2. cached' \in BOOLEAN /\ open' \in BOOLEAN
    BY <1>1, Zenon
    DEF BreakerTyped, KeycloakChanges, OpenTtl, JwtTtl, WindowLost, JwtLost
  <2>3. keycloak' \in {"up", "slow", "down"}
    BY <1>1
    DEF BreakerTyped, KeycloakChanges, OpenTtl, JwtTtl, WindowLost, JwtLost
  <2> QED
    BY <2>1, <2>2, <2>3 DEF OthersTyped
<1>3. flight' = flight /\ (open' => open) /\ (window' = window \/ window' = <<>>)
  BY DEF KeycloakChanges, OpenTtl, JwtTtl, WindowLost, JwtLost
<1> QED
  BY <1>2, <1>3, EnvironmentKeeps

LEMMA StepHolds == BreakerInv /\ [HNext]_hvars => BreakerInv'
<1> SUFFICES ASSUME BreakerInv, [HNext]_hvars PROVE BreakerInv'
  OBVIOUS
<1>1. CASE HNext
  <2>1. Next /\ Track
    BY <1>1 DEF HNext
  <2>2. CASE \E f \in Flights : Lookup(f) \/ Step(f)
    <3>1. PICK f \in Flights : Lookup(f) \/ Step(f)
      BY <2>2
    <3>2. CASE Push(f)
      BY <2>1, <3>2, PushKeeps
    <3>3. CASE Trim(f)
      BY <2>1, <3>3, TrimKeeps
    <3>4. CASE Judge(f)
      BY <2>1, <3>4, JudgeKeeps
    <3>5. CASE Apply(f)
      BY <2>1, <3>5, ApplyKeeps
    <3> QED
      BY <2>1, <3>1, <3>2, <3>3, <3>4, <3>5, CallKeeps DEF Step
  <2> QED
    BY <2>1, <2>2, LossKeeps DEF Next
<1>2. CASE UNCHANGED hvars
  <2>1. BreakerTyped /\ Meant /\ Sized /\ Charged /\ Limited
    BY DEF BreakerInv
  <2> QED
    BY <1>2, <2>1
    DEF BreakerInv, BreakerTyped, Meant, Sized, Charged, Limited, Trimming, Held, Owed, At,
        hvars, vars
<1> QED
  BY <1>1, <1>2

\* The requests in progress, their results and verdicts keep their types, and the
\* window exceeds its size by one result for every request at most.
THEOREM BreakerTypes == HSpec => []HTypeOK
<1>1. BreakerInv => HTypeOK
  <2> SUFFICES ASSUME BreakerInv PROVE HTypeOK
    OBVIOUS
  <2>1. BreakerTyped /\ Sized
    BY DEF BreakerInv
  <2>2. Cardinality(Trimming) <= Cardinality(Flights)
    BY CountsAreNaturals, CountedAreFlights
  <2>3. Len(window) <= WindowSize + Cardinality(Flights)
    BY <2>1, <2>2, SizesAreNaturals DEF Sized
  <2> QED
    BY <2>1, <2>3 DEF HTypeOK, TypeOK, BreakerTyped
<1> QED
  BY <1>1, InitHolds, StepHolds, PTL DEF HSpec

\* However many requests record, trim and judge at a time, the circuit opens no
\* more often after the last recorded failure than half the window and once for
\* every request.
THEOREM RelapsesEnd == HSpec => []RelapsesBounded
<1>1. BreakerInv => RelapsesBounded
  <2> SUFFICES ASSUME BreakerInv PROVE RelapsesBounded
    OBVIOUS
  <2>1. BreakerTyped /\ Limited
    BY DEF BreakerInv
  <2> QED
    BY <2>1, SizesAreNaturals DEF Limited, RelapsesBounded
<1> QED
  BY <1>1, InitHolds, StepHolds, PTL DEF HSpec
=============================================================================
