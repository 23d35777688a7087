--------------------------- MODULE CircuitBreaker ---------------------------
(***************************************************************************)
(* The token exchange endpoint, its circuit breaker and its caller, the    *)
(* pat-token-exchange plugin of the gateway. The breaker is a Redis key    *)
(* that says OPEN for a while, set or deleted by every request that ends,  *)
(* from a list of the latest results. Each request is taken to run on an   *)
(* instance of its own, so that others act between any two of its Redis    *)
(* commands.                                                               *)
(*                                                                         *)
(* All requests want the JWT of one cache key. JwtCache has the details of *)
(* the cache; here a request finds a JWT, exchanges, or waits for another. *)
(***************************************************************************)
EXTENDS Naturals, Sequences, FiniteSets

CONSTANTS
  Flights,    \* requests of the service in progress at a time
  WindowSize, \* cb_window_size
  MinResults, \* results below which the window is not judged (10)
  MaxLosses   \* bound: times Redis loses the window, the JWT or an answer

ASSUME BreakerAssumption ==
  /\ IsFiniteSet(Flights)
  /\ WindowSize \in Nat \ {0} /\ MinResults \in Nat \ {0} /\ MaxLosses \in Nat

VARIABLES
  keycloak, \* "up", "slow" (exchanges outlast the waiters) or "down"
  cached,   \* whether there is a JWT in the cache
  open,     \* cdp:cb:txs = OPEN
  window,   \* cdp:cb:txs:window, latest result first
  flight,   \* the requests in progress
  losses

vars == <<keycloak, cached, open, window, flight, losses>>

Results == {"OK", "FAIL"}
Idle    == [pc |-> "idle", holds |-> "none"]

\* holds: the result a request has to record, or its verdict on the window.
Flight == [pc    : {"call", "exchange", "wait", "push", "trim", "judge", "apply"},
           holds : Results \cup {"none", "OPEN", "CLOSED"}] \cup {Idle}

TypeOK ==
  /\ keycloak \in {"up", "slow", "down"}
  /\ cached \in BOOLEAN /\ open \in BOOLEAN
  /\ window \in Seq(Results)
  /\ Len(window) <= WindowSize + Cardinality(Flights)
  /\ flight \in [Flights -> Flight]
  /\ losses \in 0..MaxLosses

Init ==
  /\ keycloak = "up"
  /\ cached   = FALSE
  /\ open     = FALSE
  /\ window   = <<>>
  /\ flight   = [f \in Flights |-> Idle]
  /\ losses   = 0

At(f, pc)        == flight[f].pc = pc
Goto(f, pc, has) == flight' = [flight EXCEPT ![f] = [pc |-> pc, holds |-> has]]
Exchanging       == \E f \in Flights : At(f, "exchange")
Waiting          == \E f \in Flights : At(f, "wait")

-----------------------------------------------------------------------------
(* A call of the gateway, which asks the service for what it does not find *)
(* in the cache itself, and its request of /internal/token-exchange. While *)
(* the circuit is open the service answers at once, from the cache or with *)
(* a 503, and records nothing.                                             *)

\* The GET of the gateway finds no JWT, or fails, which it takes for the same.
\* A hit is served without the service.
Lookup(f) ==
  /\ At(f, "idle")
  /\ \/ ~cached /\ UNCHANGED losses
     \/ cached /\ losses < MaxLosses /\ losses' = losses + 1
  /\ Goto(f, "call", "none")
  /\ UNCHANGED <<keycloak, cached, open, window>>

Refused(f) ==
  /\ At(f, "call") /\ open
  /\ flight' = [flight EXCEPT ![f] = Idle]
  /\ UNCHANGED <<keycloak, cached, open, window, losses>>

Admitted(f) == At(f, "call") /\ ~open

Hit(f) ==
  /\ Admitted(f) /\ cached
  /\ Goto(f, "push", "OK")
  /\ UNCHANGED <<keycloak, cached, open, window, losses>>

\* The lock of the cache key lets one request exchange, and the others wait.
Miss(f) ==
  /\ Admitted(f) /\ ~cached
  /\ Goto(f, IF Exchanging THEN "wait" ELSE "exchange", "none")
  /\ UNCHANGED <<keycloak, cached, open, window, losses>>

Exchanged(f) ==
  /\ At(f, "exchange") /\ keycloak # "down"
  /\ cached' = TRUE
  /\ Goto(f, "push", "OK")
  /\ UNCHANGED <<keycloak, open, window, losses>>

\* Mutant of ExchangeFailed: the failure is answered and not recorded.
ExchangeFailedUnrecorded(f) ==
  /\ At(f, "exchange") /\ keycloak = "down"
  /\ flight' = [flight EXCEPT ![f] = Idle]
  /\ UNCHANGED <<keycloak, cached, open, window, losses>>

ExchangeFailed(f) ==
  /\ At(f, "exchange") /\ keycloak = "down"
  /\ Goto(f, "push", "FAIL")
  /\ UNCHANGED <<keycloak, cached, open, window, losses>>

WaitEnds(f) ==
  /\ At(f, "wait") /\ cached
  /\ Goto(f, "push", "OK")
  /\ UNCHANGED <<keycloak, cached, open, window, losses>>

\* The six reads of the cache are over before the exchange, or its holder has
\* failed. The TimeoutError is recorded as a failure.
WaitTimeout(f) ==
  /\ At(f, "wait") /\ ~cached
  /\ keycloak # "up" \/ ~Exchanging
  /\ Goto(f, "push", "FAIL")
  /\ UNCHANGED <<keycloak, cached, open, window, losses>>

-----------------------------------------------------------------------------
(* record_success, record_failure and _evaluate_window, a Redis command at *)
(* a time.                                                                 *)

Push(f) ==
  /\ At(f, "push")
  /\ window' = <<flight[f].holds>> \o window
  /\ Goto(f, "trim", "none")
  /\ UNCHANGED <<keycloak, cached, open, losses>>

\* Mutant of Trim: the oldest results are kept, not the latest.
TrimLatest(f) ==
  /\ At(f, "trim")
  /\ window' = IF Len(window) <= WindowSize THEN window
               ELSE SubSeq(window, Len(window) - WindowSize + 1, Len(window))
  /\ Goto(f, "judge", "none")
  /\ UNCHANGED <<keycloak, cached, open, losses>>

\* Mutant of Trim: the window is not trimmed.
TrimNothing(f) ==
  /\ At(f, "trim")
  /\ Goto(f, "judge", "none")
  /\ UNCHANGED <<keycloak, cached, open, window, losses>>

Trim(f) ==
  /\ At(f, "trim")
  /\ window' = IF Len(window) <= WindowSize THEN window
               ELSE SubSeq(window, 1, WindowSize)
  /\ Goto(f, "judge", "none")
  /\ UNCHANGED <<keycloak, cached, open, losses>>

Count(result) == Cardinality({i \in DOMAIN window : window[i] = result})

\* cb_failure_threshold is a half: as many failures as successes are too many.
Failing == Count("FAIL") >= Count("OK")

Judge(f) ==
  /\ At(f, "judge")
  /\ IF Len(window) < MinResults
     THEN flight' = [flight EXCEPT ![f] = Idle]
     ELSE Goto(f, "apply", IF Failing THEN "OPEN" ELSE "CLOSED")
  /\ UNCHANGED <<keycloak, cached, open, window, losses>>

Apply(f) ==
  /\ At(f, "apply")
  /\ open' = (flight[f].holds = "OPEN")
  /\ flight' = [flight EXCEPT ![f] = Idle]
  /\ UNCHANGED <<keycloak, cached, window, losses>>

Step(f) ==
  \/ Refused(f) \/ Hit(f) \/ Miss(f)
  \/ Exchanged(f) \/ ExchangeFailed(f)
  \/ WaitEnds(f) \/ WaitTimeout(f)
  \/ Push(f) \/ Trim(f) \/ Judge(f) \/ Apply(f)

-----------------------------------------------------------------------------
(* Keycloak, expiry and loss.                                              *)

KeycloakChanges ==
  /\ keycloak' \in {"up", "slow", "down"} \ {keycloak}
  /\ UNCHANGED <<cached, open, window, flight, losses>>

\* Mutant of OpenTtl: the key is set without an expiry.
OpenForever == FALSE /\ UNCHANGED vars

\* cb_open_duration is over.
OpenTtl ==
  /\ open
  /\ open' = FALSE
  /\ UNCHANGED <<keycloak, cached, window, flight, losses>>

\* The JWT outlives the requests that wait for it (240 s against 0.3 s).
JwtTtl ==
  /\ cached /\ ~Waiting
  /\ cached' = FALSE
  /\ UNCHANGED <<keycloak, open, window, flight, losses>>

\* The window expires after 300 s without a request, or is evicted.
WindowLost ==
  /\ window # <<>> /\ losses < MaxLosses
  /\ window' = <<>>
  /\ losses' = losses + 1
  /\ UNCHANGED <<keycloak, cached, open, flight>>

\* An invalidation or an eviction takes the JWT.
JwtLost ==
  /\ cached /\ losses < MaxLosses
  /\ cached' = FALSE
  /\ losses' = losses + 1
  /\ UNCHANGED <<keycloak, open, window, flight>>

Next ==
  \/ \E f \in Flights : Lookup(f) \/ Step(f)
  \/ KeycloakChanges \/ OpenTtl \/ JwtTtl \/ WindowLost \/ JwtLost
=============================================================================
