--------------------------- MODULE BreakerRecovery ---------------------------
(***************************************************************************)
(* How the circuit breaker leaves an outage, and enters one: there is no   *)
(* half-open state, and the window remembers the outage.                   *)
(***************************************************************************)
EXTENDS CircuitBreaker

VARIABLE relapses \* times the circuit opened since the last recorded failure

hvars == <<vars, relapses>>

HInit == Init /\ relapses = 0

Recorded(result) ==
  \E f \in Flights : /\ At(f, "push") /\ flight[f].holds = result
                     /\ flight'[f].pc = "trim"

Track ==
  relapses' = IF Recorded("FAIL") THEN 0
              ELSE IF ~open /\ open' THEN relapses + 1
              ELSE relapses

HNext == Next /\ Track

HSpec == HInit /\ [][HNext]_hvars

\* Requests are served to their end, and Redis expires its keys.
Fairness ==
  /\ \A f \in Flights : WF_hvars(Step(f) /\ Track)
  /\ WF_hvars(OpenTtl /\ Track)
  /\ WF_hvars(JwtTtl /\ Track)

FairSpec == HSpec /\ Fairness

\* The types of the state and of the history.
HTypeOK == TypeOK /\ relapses \in Nat

\* Every success after an outage is judged with the failures still in the window
\* and opens the circuit once more. This ends when the successes are as many as
\* the failures, whatever verdicts requests still hold.
RelapsesBounded ==
  relapses <= WindowSize \div 2 + Cardinality(Flights)

\* Once Keycloak is up for good, the circuit closes for good.
Recovered == (<>[](keycloak = "up")) => <>[]~open

\* While Keycloak is down for good and requests keep coming, the circuit opens
\* again and again: neither the JWTs still in the cache, whose hits count as
\* successes, nor the expiry of the circuit keep the load on Keycloak.
Trips ==
  (<>[](keycloak = "down")) /\ ([]<>(\E f \in Flights : At(f, "exchange")))
    => []<>open
=============================================================================
