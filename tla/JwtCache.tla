------------------------------ MODULE JwtCache ------------------------------
(***************************************************************************)
(* The token exchange service's cache of JWTs for one token: the entries   *)
(* cdp:jwt:{tokenId}:{scopeHash}, their index cdp:jwtidx:{tokenId}, the    *)
(* single-flight lock of each entry, the coroutines that fill the cache    *)
(* (get_or_exchange_jwt, _refresh_jwt) and the portal's invalidation.      *)
(*                                                                         *)
(* A service node runs its coroutines on one thread and yields it at the   *)
(* exchange with Keycloak and at the sleeps; between two Redis commands    *)
(* other nodes, the portal and Redis itself may act.                       *)
(***************************************************************************)
EXTENDS Integers, FiniteSets

CONSTANTS
  Keys,      \* scope hashes the token is used with
  Flights,   \* coroutines of the service in progress at a time
  Nodes,     \* instances of the service
  Polls,     \* reads of the cache by a coroutine that waits
  MaxEpoch,  \* bound: changes of the user's rights explored
  MaxFaults, \* bound: failed exchanges, failed invalidations, crashes explored
  MaxLapses, \* bound: lock expiries explored
  NoJwt, NoNode

ASSUME JwtAssumption ==
  /\ Polls \in Nat \ {0}
  /\ MaxEpoch \in Nat /\ MaxFaults \in Nat /\ MaxLapses \in Nat
  /\ NoJwt \notin Nat
  /\ NoNode \notin Nodes

VARIABLES
  epoch,  \* changes of the rights a JWT carries, so far
  jwt,    \* jwt[k]: the epoch of the cached JWT's claims, or NoJwt
  idx,    \* cdp:jwtidx: the keys listed
  lock,   \* lock[k]: the node_id in cdp:lock:jwt, or NoNode
  flight, \* the service's coroutines
  inv,    \* the portal's invalidation in progress
  lapses, \* lapses[k]: how often the lock expired
  faults

cached  == <<jwt, idx>>
bounds  == <<lapses, faults>>
vars    == <<epoch, cached, lock, flight, inv, bounds>>

Epochs  == 0..MaxEpoch
Idle    == [pc |-> "idle"]
Flight  == {Idle} \cup
           [pc   : {"lock", "exchange", "minted", "index", "unlock", "wait"},
            node : Nodes,
            key  : Keys,
            bg   : BOOLEAN,
            got  : Epochs \cup {NoJwt},
            left : 0..Polls]
NoInv   == [pc |-> "idle", keys |-> {}]

JwtTypeOK ==
  /\ epoch \in Epochs
  /\ jwt \in [Keys -> Epochs \cup {NoJwt}]
  /\ idx \subseteq Keys
  /\ lock \in [Keys -> Nodes \cup {NoNode}]
  /\ flight \in [Flights -> Flight]
  /\ inv \in [pc : {"idle", "read", "delete"}, keys : SUBSET Keys]
  /\ lapses \in [Keys -> 0..MaxLapses]
  /\ faults \in 0..MaxFaults

Init ==
  /\ epoch  = 0
  /\ jwt    = [k \in Keys |-> NoJwt]
  /\ idx    = {}
  /\ lock   = [k \in Keys |-> NoNode]
  /\ flight = [f \in Flights |-> Idle]
  /\ inv    = NoInv
  /\ lapses = [k \in Keys |-> 0]
  /\ faults = 0

-----------------------------------------------------------------------------
(* Coroutines of the service.                                              *)

\* Between two calls that do not yield. A refresh about to ask for the lock is
\* a task not yet started, and holds nothing.
Running(f) == \/ flight[f].pc \in {"index", "unlock"}
              \/ flight[f].pc = "lock" /\ ~flight[f].bg

HasThread(f) ==
  \A g \in Flights \ {f} : Running(g) => flight[g].node # flight[f].node

At(f, pc) == flight[f].pc = pc /\ HasThread(f)

\* A request for k reaches node n.
Arrives(f, n) == /\ flight[f].pc = "idle"
                 /\ \A g \in Flights : Running(g) => flight[g].node # n

Key(f)    == flight[f].key
Node(f)   == flight[f].node
Set(f, c) == flight' = [flight EXCEPT ![f] = c]
To(f, pc) == flight' = [flight EXCEPT ![f].pc = pc]
Done(f)   == Set(f, Idle)
Begin(f, k, n, bg) ==
  Set(f, [pc |-> "lock", node |-> n, key |-> k, bg |-> bg, got |-> NoJwt, left |-> 0])

\* A request that finds a JWT is answered with it; near the end of the entry's
\* life it may start a refresh in the background, which runs on its own.
Hit(f, k, n) ==
  /\ Arrives(f, n)
  /\ jwt[k] # NoJwt
  /\ Begin(f, k, n, TRUE)
  /\ UNCHANGED <<epoch, cached, lock, inv, bounds>>

Miss(f, k, n) ==
  /\ Arrives(f, n)
  /\ jwt[k] = NoJwt
  /\ Begin(f, k, n, FALSE)
  /\ UNCHANGED <<epoch, cached, lock, inv, bounds>>

\* Mutant of TryLock: SET without NX.
TryLockAlways(f) ==
  /\ At(f, "lock")
  /\ lock' = [lock EXCEPT ![Key(f)] = Node(f)]
  /\ To(f, "exchange")
  /\ UNCHANGED <<epoch, cached, inv, bounds>>

\* SET NX PX. Without the lock a request waits and a refresh gives up.
TryLock(f) ==
  /\ At(f, "lock")
  /\ IF lock[Key(f)] = NoNode
     THEN /\ lock' = [lock EXCEPT ![Key(f)] = Node(f)]
          /\ To(f, "exchange")
     ELSE /\ IF flight[f].bg THEN Done(f)
             ELSE Set(f, [flight[f] EXCEPT !.pc = "wait", !.left = Polls])
          /\ UNCHANGED lock
  /\ UNCHANGED <<epoch, cached, inv, bounds>>

\* Keycloak issues the JWT with the rights of the moment; it is on its way.
Mint(f) ==
  /\ flight[f].pc = "exchange"
  /\ Set(f, [flight[f] EXCEPT !.pc = "minted", !.got = epoch])
  /\ UNCHANGED <<epoch, cached, lock, inv, bounds>>

\* The exchange fails or times out, before or after Keycloak acted on it.
ExchangeFails(f) ==
  /\ flight[f].pc \in {"exchange", "minted"} /\ HasThread(f)
  /\ faults < MaxFaults /\ faults' = faults + 1
  /\ Set(f, [flight[f] EXCEPT !.pc = "unlock", !.got = NoJwt])
  /\ UNCHANGED <<epoch, cached, lock, inv, lapses>>

SetEx(f) ==
  /\ At(f, "minted")
  /\ jwt' = [jwt EXCEPT ![Key(f)] = flight[f].got]
  /\ Set(f, [flight[f] EXCEPT !.pc = "index", !.got = NoJwt])
  /\ UNCHANGED <<epoch, idx, lock, inv, bounds>>

SAdd(f) ==
  /\ At(f, "index")
  /\ idx' = idx \cup {Key(f)}
  /\ To(f, "unlock")
  /\ UNCHANGED <<epoch, jwt, lock, inv, bounds>>

\* UNLOCK_SCRIPT: delete the lock if its value is this node's id.
Unlock(f) ==
  /\ At(f, "unlock")
  /\ lock' = IF lock[Key(f)] = Node(f)
             THEN [lock EXCEPT ![Key(f)] = NoNode] ELSE lock
  /\ Done(f)
  /\ UNCHANGED <<epoch, cached, inv, bounds>>

\* Mutant of Poll: the reads are counted past zero.
PollPast(f) ==
  /\ At(f, "wait")
  /\ IF jwt[Key(f)] # NoJwt \/ flight[f].left < 0 THEN Done(f)
     ELSE flight' = [flight EXCEPT ![f].left = @ - 1]
  /\ UNCHANGED <<epoch, cached, lock, inv, bounds>>

\* After a sleep: the JWT if there is one, else sleep again, or after the last
\* read raise TimeoutError.
Poll(f) ==
  /\ At(f, "wait")
  /\ IF jwt[Key(f)] # NoJwt \/ flight[f].left = 1 THEN Done(f)
     ELSE flight' = [flight EXCEPT ![f].left = @ - 1]
  /\ UNCHANGED <<epoch, cached, lock, inv, bounds>>

-----------------------------------------------------------------------------
(* The portal.                                                             *)

\* The user's roles or the API's scopes change, or the user logs out; then
\* the handler is to invalidate the token's JWTs.
Change ==
  /\ inv.pc = "idle"
  /\ epoch < MaxEpoch
  /\ epoch' = epoch + 1
  /\ inv' = [pc |-> "read", keys |-> {}]
  /\ UNCHANGED <<cached, lock, flight, bounds>>

\* SMEMBERS; with nothing listed the token is skipped.
InvRead ==
  /\ inv.pc = "read"
  /\ inv' = IF idx = {} THEN NoInv ELSE [pc |-> "delete", keys |-> idx]
  /\ UNCHANGED <<epoch, cached, lock, flight, bounds>>

\* Mutant of InvDelete: the pipeline ends after the first entry.
InvDeleteOne ==
  /\ inv.pc = "delete"
  /\ \E first \in inv.keys : jwt' = [jwt EXCEPT ![first] = NoJwt]
  /\ idx' = {}
  /\ inv' = NoInv
  /\ UNCHANGED <<epoch, lock, flight, bounds>>

\* One MULTI/EXEC: the listed entries and the whole index.
InvDelete ==
  /\ inv.pc = "delete"
  /\ jwt' = [k \in Keys |-> IF k \in inv.keys THEN NoJwt ELSE jwt[k]]
  /\ idx' = {}
  /\ inv' = NoInv
  /\ UNCHANGED <<epoch, lock, flight, bounds>>

\* The change stands and the JWTs stay: the UPDATE of the catalog between the
\* two raises, Redis does and patch_api only warns of it, the call for an
\* earlier token of the list does, or the portal dies. Nobody tries again.
InvFails ==
  /\ inv.pc # "idle"
  /\ faults < MaxFaults /\ faults' = faults + 1
  /\ inv' = NoInv
  /\ UNCHANGED <<epoch, cached, lock, flight, lapses>>

-----------------------------------------------------------------------------
(* Time, Redis and failures.                                               *)

\* The lock's 5 s end, whether or not its flight has: an exchange takes two
\* calls of up to 3 s each.
LockTtl(k) ==
  /\ lock[k] # NoNode
  /\ lapses[k] < MaxLapses
  /\ lock' = [lock EXCEPT ![k] = NoNode]
  /\ lapses' = [lapses EXCEPT ![k] = @ + 1]
  /\ UNCHANGED <<epoch, cached, flight, inv, faults>>

\* The entry's 240 s end, or Redis evicts it.
JwtTtl(k) ==
  /\ jwt[k] # NoJwt
  /\ jwt' = [jwt EXCEPT ![k] = NoJwt]
  /\ UNCHANGED <<epoch, idx, lock, flight, inv, bounds>>

\* The index's 300 s end, by when all it lists has expired, or Redis evicts it.
IdxTtl ==
  /\ idx # {}
  /\ idx' = {}
  /\ UNCHANGED <<epoch, jwt, lock, flight, inv, bounds>>

\* A node dies with its coroutines; its locks stay until they expire.
Crash(n) ==
  /\ faults < MaxFaults /\ faults' = faults + 1
  /\ \E f \in Flights : flight[f].pc # "idle" /\ Node(f) = n
  /\ flight' = [f \in Flights |->
                  IF flight[f].pc # "idle" /\ Node(f) = n THEN Idle ELSE flight[f]]
  /\ UNCHANGED <<epoch, cached, lock, inv, lapses>>

Step(f) == \/ TryLock(f) \/ Mint(f) \/ ExchangeFails(f) \/ SetEx(f) \/ SAdd(f)
           \/ Unlock(f) \/ Poll(f)

Invalidate == Change \/ InvRead \/ InvDelete \/ InvFails

Environment == \/ \E k \in Keys : LockTtl(k) \/ JwtTtl(k)
               \/ IdxTtl
               \/ \E n \in Nodes : Crash(n)

Next ==
  \/ \E f \in Flights : Step(f)
  \/ \E f \in Flights, k \in Keys, n \in Nodes : Hit(f, k, n) \/ Miss(f, k, n)
  \/ Invalidate
  \/ Environment

Spec == Init /\ [][Next]_vars

-----------------------------------------------------------------------------

\* The coroutines that hold, or held, the lock of k and have not given it back.
InFlight(k) ==
  {f \in Flights : /\ flight[f].pc \in {"exchange", "minted", "index", "unlock"}
                   /\ flight[f].key = k}

\* Single flight: as many exchanges of one key are in progress as its lock has
\* expired, and one more. In particular one that gives back a lock which is by
\* then another's lets no further one in.
ExchangesBounded == \A k \in Keys : Cardinality(InFlight(k)) <= 1 + lapses[k]
=============================================================================
