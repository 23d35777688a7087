----------------------------- MODULE JwtHistory -----------------------------
(***************************************************************************)
(* JwtCache with history variables: why a cached JWT may be out of reach   *)
(* of an invalidation.                                                     *)
(***************************************************************************)
EXTENDS JwtCache

VARIABLES
  strays, \* keys whose JWT was cut off from the index
  late,   \* keys whose JWT an invalidation could not see listed
  spared  \* keys whose JWT the last invalidation failed to reach

hvars == <<vars, strays, late, spared>>

HInit == Init /\ strays = {} /\ late = {} /\ spared = {}

Listing(k) == \E f \in Flights : flight[f].pc = "index" /\ flight[f].key = k

\* The invalidation under way has read that k is listed, and will delete it.
Doomed(k) == inv.pc = "delete" /\ k \in inv.keys

Failed == inv.pc # "idle" /\ inv'.pc = "idle" /\ faults' # faults

\* The index loses a key whose JWT stays: an eviction took the index, an
\* invalidation that had read an older one deleted it, or the node died
\* between the two writes. An invalidation that read the key cuts off nothing,
\* unless it fails after the index went.
CutOff(k) ==
  \/ k \in idx /\ k \notin idx' /\ ~Doomed(k)
  \/ Listing(k) /\ ~Listing(k)'
  \/ Failed /\ Doomed(k)

\* The JWT was minted before a change and is cached after that change's
\* invalidation has read the index, or is then just being listed.
Late(k) ==
  \/ inv.pc = "read" /\ inv'.pc # "read" /\ Listing(k)
  \/ inv.pc # "read" /\ \E f \in Flights :
       /\ flight[f].pc = "minted" /\ flight'[f].pc = "index"
       /\ flight[f].key = k

HistoryNext ==
  /\ strays' = {k \in Keys : /\ jwt'[k] # NoJwt /\ k \notin idx'
                             /\ k \in strays \/ CutOff(k)}
  /\ late'   = {k \in Keys : /\ jwt'[k] # NoJwt /\ jwt'[k] < epoch'
                             /\ k \in late \/ Late(k)}
  /\ spared' = {k \in Keys : /\ jwt'[k] # NoJwt /\ jwt'[k] < epoch'
                             /\ inv'.pc = "idle"
                             /\ k \in spared \/ Failed}

HNext == Next /\ HistoryNext
HSpec == HInit /\ [][HNext]_hvars

\* The types of the state and of the history.
HTypeOK ==
  /\ JwtTypeOK
  /\ strays \subseteq Keys /\ late \subseteq Keys /\ spared \subseteq Keys

\* Invalidation reaches a token's JWTs only through the index, in two steps,
\* while coroutines fill the cache. With none under way a JWT with earlier
\* rights is there only if an exchange was in progress over the change, the
\* index lost the key, or the last invalidation failed and is not made again:
\* a later one that succeeds leaves nothing of what an earlier one spared.
StaleOnlyIfMissed ==
  inv.pc = "idle" =>
    \A k \in Keys : jwt[k] # NoJwt /\ jwt[k] < epoch => k \in late \cup strays \cup spared
=============================================================================
