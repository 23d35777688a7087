------------------------------ MODULE JwtProofs ------------------------------
(***************************************************************************)
(* What JwtCache and JwtHistory promise of the cache of JWTs holds for any *)
(* number of scopes, coroutines, nodes, changes, lapses and failures.      *)
(***************************************************************************)
EXTENDS JwtHistory, FiniteSetTheorems, TLAPS

Busy == [pc   : {"lock", "exchange", "minted", "index", "unlock", "wait"},
         node : Nodes,
         key  : Keys,
         bg   : BOOLEAN,
         got  : Epochs \cup {NoJwt},
         left : 0..Polls]

\* A coroutine that waits has reads left.
Waits == \A f \in Flights : flight[f].pc = "wait" => flight[f].left >= 1

TypeInv == JwtTypeOK /\ Waits

-----------------------------------------------------------------------------
(* A coroutine's step.                                                     *)

LEMMA BusyTyped ==
  ASSUME TypeInv, NEW f \in Flights
  PROVE  flight[f].pc # "idle" => flight[f] \in Busy
  BY DEF TypeInv, JwtTypeOK, Flight, Busy, Idle

\* One coroutine moves and the others stay.
Becomes(f, c) == flight' = [flight EXCEPT ![f] = c]

LEMMA BecomesTyped ==
  ASSUME TypeInv, NEW f \in Flights, NEW c \in Busy \cup {Idle}, Becomes(f, c),
         c.pc = "wait" => c.left >= 1
  PROVE  flight' \in [Flights -> Flight] /\ Waits'
  BY DEF TypeInv, JwtTypeOK, Waits, Becomes, Flight, Busy

LEMMA BecomesOnly ==
  ASSUME TypeInv, NEW f \in Flights, NEW c, Becomes(f, c)
  PROVE  flight'[f] = c /\ \A g \in Flights \ {f} : flight'[g] = flight[g]
  BY DEF TypeInv, JwtTypeOK, Becomes

LEMMA Moves ==
  ASSUME TypeInv, NEW f \in Flights, flight[f].pc # "idle",
         NEW p \in {"lock", "exchange", "minted", "index", "unlock"},
         NEW got \in Epochs \cup {NoJwt},
         \/ Becomes(f, [flight[f] EXCEPT !.pc = p, !.got = got])
         \/ To(f, p)
  PROVE  /\ flight'[f].pc = p /\ flight'[f].key = flight[f].key
         /\ \A g \in Flights \ {f} : flight'[g] = flight[g]
         /\ flight' \in [Flights -> Flight] /\ Waits'
  <1>1. flight[f] \in Busy
    BY BusyTyped
  <1>2. CASE Becomes(f, [flight[f] EXCEPT !.pc = p, !.got = got])
    <2>1. [flight[f] EXCEPT !.pc = p, !.got = got] \in Busy
      BY <1>1 DEF Busy
    <2>2. [flight[f] EXCEPT !.pc = p, !.got = got].pc = p
      BY <1>1 DEF Busy
    <2>3. [flight[f] EXCEPT !.pc = p, !.got = got].key = flight[f].key
      BY <1>1 DEF Busy
    <2> QED
      BY <1>2, <2>1, <2>2, <2>3, BecomesTyped, BecomesOnly
  <1>3. CASE To(f, p)
    <2>1. Becomes(f, [flight[f] EXCEPT !.pc = p])
      BY <1>3 DEF To, Becomes
    <2>2. [flight[f] EXCEPT !.pc = p] \in Busy
      BY <1>1 DEF Busy
    <2>3. [flight[f] EXCEPT !.pc = p].pc = p
      BY <1>1 DEF Busy
    <2>4. [flight[f] EXCEPT !.pc = p].key = flight[f].key
      BY <1>1 DEF Busy
    <2> QED
      BY <2>1, <2>2, <2>3, <2>4, BecomesTyped, BecomesOnly
  <1> QED
    BY <1>2, <1>3

\* A coroutine ends, waits on, or leaves: it is in no exchange then.
LEMMA Rests ==
  ASSUME TypeInv, NEW f \in Flights, NEW c \in {Idle} \cup Busy, Becomes(f, c),
         c.pc \in {"idle", "wait", "lock"}, c.pc = "wait" => c.left >= 1
  PROVE  /\ flight'[f].pc \in {"idle", "wait", "lock"}
         /\ \A g \in Flights \ {f} : flight'[g] = flight[g]
         /\ flight' \in [Flights -> Flight] /\ Waits'
  BY BecomesTyped, BecomesOnly

LEMMA BeginRests ==
  ASSUME TypeInv, NEW f \in Flights, NEW k \in Keys, NEW n \in Nodes, NEW bg \in BOOLEAN,
         Begin(f, k, n, bg)
  PROVE  /\ flight'[f].pc \in {"idle", "wait", "lock"}
         /\ \A g \in Flights \ {f} : flight'[g] = flight[g]
         /\ flight' \in [Flights -> Flight] /\ Waits'
  <1> DEFINE c == [pc |-> "lock", node |-> n, key |-> k, bg |-> bg, got |-> NoJwt, left |-> 0]
  <1>1. c \in Busy /\ c.pc = "lock"
    BY JwtAssumption DEF Busy
  <1>2. Becomes(f, c)
    BY DEF Begin, Set, Becomes
  <1> HIDE DEF c
  <1> QED
    BY <1>1, <1>2, Rests

LEMMA DoneRests ==
  ASSUME TypeInv, NEW f \in Flights, Done(f)
  PROVE  /\ flight'[f].pc \in {"idle", "wait", "lock"}
         /\ \A g \in Flights \ {f} : flight'[g] = flight[g]
         /\ flight' \in [Flights -> Flight] /\ Waits'
  <1>1. Becomes(f, Idle) /\ Idle.pc = "idle"
    BY DEF Done, Set, Becomes, Idle
  <1> QED
    BY <1>1, Rests

LEMMA TryLockEither ==
  ASSUME TypeInv, NEW f \in Flights, TryLock(f)
  PROVE  \/ /\ lock[Key(f)] = NoNode /\ lock' = [lock EXCEPT ![Key(f)] = Node(f)]
            /\ To(f, "exchange")
         \/ /\ lock' = lock
            /\ flight'[f].pc \in {"idle", "wait", "lock"}
            /\ \A g \in Flights \ {f} : flight'[g] = flight[g]
            /\ flight' \in [Flights -> Flight] /\ Waits'
  <1>1. CASE lock[Key(f)] = NoNode
    BY <1>1 DEF TryLock
  <1>2. CASE lock[Key(f)] # NoNode /\ Done(f)
    BY <1>2, DoneRests DEF TryLock
  <1>3. CASE lock[Key(f)] # NoNode /\ ~Done(f)
    <2> DEFINE c == [flight[f] EXCEPT !.pc = "wait", !.left = Polls]
    <2>1. Becomes(f, c) /\ lock' = lock
      BY <1>3 DEF TryLock, Set, Becomes
    <2>2. c \in Busy /\ c.pc = "wait" /\ c.left >= 1
      <3>1. flight[f] \in Busy
        BY BusyTyped DEF TryLock, At
      <3>2. Polls \in 0..Polls /\ Polls >= 1
        BY JwtAssumption
      <3>3. c \in Busy
        BY <3>1, <3>2 DEF Busy
      <3>4. c.pc = "wait" /\ c.left = Polls
        BY <3>1 DEF Busy
      <3> QED
        BY <3>2, <3>3, <3>4
    <2> HIDE DEF c
    <2> QED
      BY <2>1, <2>2, Rests
  <1> QED
    BY <1>1, <1>2, <1>3

LEMMA PollRests ==
  ASSUME TypeInv, NEW f \in Flights, Poll(f)
  PROVE  /\ flight'[f].pc \in {"idle", "wait", "lock"}
         /\ \A g \in Flights \ {f} : flight'[g] = flight[g]
         /\ flight' \in [Flights -> Flight] /\ Waits'
  <1>1. CASE Done(f)
    BY <1>1, DoneRests
  <1>2. CASE ~Done(f)
    <2> DEFINE c == [flight[f] EXCEPT !.left = @ - 1]
    <2>1. Becomes(f, c) /\ flight[f].left # 1 /\ flight[f].pc = "wait"
      BY <1>2 DEF Poll, Becomes, At
    <2>2. c \in Busy /\ c.pc = "wait" /\ c.left >= 1
      <3>1. flight[f] \in Busy /\ flight[f].left >= 1
        BY <2>1, BusyTyped DEF TypeInv, Waits
      <3>2. flight[f].left - 1 \in 0..Polls /\ flight[f].left - 1 >= 1
        BY <2>1, <3>1, JwtAssumption DEF Busy
      <3>3. c \in Busy
        BY <3>1, <3>2 DEF Busy
      <3>4. c.pc = "wait" /\ c.left = flight[f].left - 1
        BY <2>1, <3>1 DEF Busy
      <3> QED
        BY <3>2, <3>3, <3>4
    <2> HIDE DEF c
    <2> QED
      BY <2>1, <2>2, Rests
  <1> QED
    BY <1>1, <1>2

LEMMA CrashRests ==
  ASSUME TypeInv, NEW n \in Nodes, Crash(n)
  PROVE  /\ \A f \in Flights : flight'[f] = flight[f] \/ flight'[f].pc = "idle"
         /\ flight' \in [Flights -> Flight] /\ Waits'
  BY DEF Crash, TypeInv, JwtTypeOK, Waits, Flight, Idle

-----------------------------------------------------------------------------
(* The types.                                                              *)

LEMMA StepTyped ==
  ASSUME TypeInv, NEW f \in Flights, Step(f)
  PROVE  TypeInv'
  <1> USE DEF TypeInv, JwtTypeOK, cached, bounds, Key, Node
  <1>0. flight[f].pc # "idle" /\ flight[f] \in Busy /\ NoJwt \in Epochs \cup {NoJwt}
    BY BusyTyped DEF Step, TryLock, Mint, ExchangeFails, SetEx, SAdd, Unlock, Poll, At
  <1>1. CASE TryLock(f)
    <2>1. flight' \in [Flights -> Flight] /\ Waits'
      BY <1>0, <1>1, TryLockEither, Moves DEF TryLock
    <2>2. lock' \in [Keys -> Nodes \cup {NoNode}]
      BY <1>0, <1>1, TryLockEither DEF Busy
    <2> QED
      BY <1>1, <2>1, <2>2 DEF TryLock
  <1>2. CASE Mint(f)
    <2>1. Becomes(f, [flight[f] EXCEPT !.pc = "minted", !.got = epoch])
      BY <1>2 DEF Mint, Set, Becomes
    <2>2. flight' \in [Flights -> Flight] /\ Waits'
      BY <1>0, <2>1, Moves
    <2> QED
      BY <1>2, <2>2 DEF Mint
  <1>3. CASE ExchangeFails(f)
    <2>1. Becomes(f, [flight[f] EXCEPT !.pc = "unlock", !.got = NoJwt])
      BY <1>3 DEF ExchangeFails, Set, Becomes
    <2>2. flight' \in [Flights -> Flight] /\ Waits'
      BY <1>0, <2>1, Moves
    <2> QED
      BY <1>3, <2>2, JwtAssumption DEF ExchangeFails
  <1>4. CASE SetEx(f)
    <2>1. Becomes(f, [flight[f] EXCEPT !.pc = "index", !.got = NoJwt])
      BY <1>4 DEF SetEx, Set, Becomes
    <2>2. flight' \in [Flights -> Flight] /\ Waits'
      BY <1>0, <2>1, Moves
    <2>3. jwt' \in [Keys -> Epochs \cup {NoJwt}]
      BY <1>0, <1>4 DEF SetEx, Busy
    <2> QED
      BY <1>4, <2>2, <2>3 DEF SetEx
  <1>5. CASE SAdd(f)
    <2>1. flight' \in [Flights -> Flight] /\ Waits'
      BY <1>0, <1>5, Moves DEF SAdd
    <2> QED
      BY <1>0, <1>5, <2>1 DEF SAdd, Busy
  <1>6. CASE Unlock(f)
    <2>1. flight' \in [Flights -> Flight] /\ Waits'
      BY <1>6, DoneRests DEF Unlock
    <2>2. lock' \in [Keys -> Nodes \cup {NoNode}]
      BY <1>6 DEF Unlock
    <2> QED
      BY <1>6, <2>1, <2>2 DEF Unlock
  <1>7. CASE Poll(f)
    <2>1. flight' \in [Flights -> Flight] /\ Waits'
      BY <1>7, PollRests
    <2> QED
      BY <1>7, <2>1 DEF Poll
  <1> QED
    BY <1>1, <1>2, <1>3, <1>4, <1>5, <1>6, <1>7 DEF Step

LEMMA OtherTyped ==
  ASSUME TypeInv,
         \/ \E f \in Flights, k \in Keys, n \in Nodes : Hit(f, k, n) \/ Miss(f, k, n)
         \/ Invalidate \/ Environment \/ UNCHANGED vars
  PROVE  TypeInv'
  <1> USE DEF TypeInv, JwtTypeOK, cached, bounds
  <1>1. ASSUME NEW f \in Flights, NEW k \in Keys, NEW n \in Nodes, Hit(f, k, n) \/ Miss(f, k, n)
        PROVE  TypeInv'
    <2>1. flight' \in [Flights -> Flight] /\ Waits'
      BY <1>1, BeginRests DEF Hit, Miss
    <2> QED
      BY <1>1, <2>1 DEF Hit, Miss
  <1>2. CASE Invalidate
    <2>1. flight' = flight /\ Waits'
      BY <1>2 DEF Invalidate, Change, InvRead, InvDelete, InvFails, Waits
    <2>2. epoch' \in Epochs
      BY <1>2, JwtAssumption DEF Invalidate, Change, InvRead, InvDelete, InvFails, Epochs
    <2>3. jwt' \in [Keys -> Epochs \cup {NoJwt}] /\ idx' \subseteq Keys
      BY <1>2 DEF Invalidate, Change, InvRead, InvDelete, InvFails
    <2>4. inv' \in [pc : {"idle", "read", "delete"}, keys : SUBSET Keys]
      BY <1>2 DEF Invalidate, Change, InvRead, InvDelete, InvFails, NoInv
    <2>5. faults' \in 0..MaxFaults
      BY <1>2, JwtAssumption DEF Invalidate, Change, InvRead, InvDelete, InvFails
    <2> QED
      BY <1>2, <2>1, <2>2, <2>3, <2>4, <2>5
      DEF Invalidate, Change, InvRead, InvDelete, InvFails
  <1>3. ASSUME NEW k \in Keys, LockTtl(k) \/ JwtTtl(k) \/ IdxTtl
        PROVE  TypeInv'
    BY <1>3, JwtAssumption DEF LockTtl, JwtTtl, IdxTtl, Waits
  <1>4. ASSUME NEW n \in Nodes, Crash(n)
        PROVE  TypeInv'
    <2>1. flight' \in [Flights -> Flight] /\ Waits'
      BY <1>4, CrashRests
    <2> QED
      BY <1>4, <2>1, JwtAssumption DEF Crash
  <1>5. CASE IdxTtl
    BY <1>5 DEF IdxTtl, Waits
  <1>6. CASE UNCHANGED vars
    BY <1>6 DEF vars, Waits
  <1> QED
    BY <1>1, <1>2, <1>3, <1>4, <1>5, <1>6 DEF Environment

LEMMA NextTyped == TypeInv /\ [Next]_vars => TypeInv'
  BY StepTyped, OtherTyped DEF Next

LEMMA InitTyped == Init => TypeInv
  BY JwtAssumption DEF Init, TypeInv, JwtTypeOK, Waits, Flight, Idle, NoInv, Epochs

LEMMA AlwaysTyped == HSpec => []TypeInv
  <1>1. [HNext]_hvars => [Next]_vars
    BY DEF HNext, hvars
  <1> QED
    BY <1>1, InitTyped, NextTyped, PTL DEF HSpec, HInit

\* Entries, index, lock, coroutines and the invalidation hold what their types
\* say (JwtCache), and the history only keys (JwtHistory).
THEOREM CacheTypes == HSpec => []HTypeOK
  <1> DEFINE H == strays \subseteq Keys /\ late \subseteq Keys /\ spared \subseteq Keys
  <1>1. HInit => H
    BY DEF HInit
  <1>2. H /\ [HNext]_hvars => H'
    BY DEF HNext, HistoryNext, hvars
  <1>3. TypeInv /\ H => HTypeOK
    BY DEF TypeInv, HTypeOK
  <1> QED
    BY <1>1, <1>2, <1>3, AlwaysTyped, PTL DEF HSpec

-----------------------------------------------------------------------------
(* Single flight.                                                          *)

\* A lock that is held stands for one exchange, each lapse for one more.
Allowed(k) == lapses[k] + (IF lock[k] = NoNode THEN 0 ELSE 1)

SingleFlight ==
  \A k \in Keys : IsFiniteSet(InFlight(k)) /\ Cardinality(InFlight(k)) <= Allowed(k)

LEMMA FewerAllowed ==
  ASSUME TypeInv, TypeInv', SingleFlight, NEW k \in Keys, InFlight(k)' \subseteq InFlight(k),
         Allowed(k) <= Allowed(k)'
  PROVE  IsFiniteSet(InFlight(k)') /\ Cardinality(InFlight(k)') <= Allowed(k)'
  <1>1. IsFiniteSet(InFlight(k)) /\ Cardinality(InFlight(k)) <= Allowed(k)
    BY DEF SingleFlight
  <1>2. /\ IsFiniteSet(InFlight(k)') /\ Cardinality(InFlight(k)') <= Cardinality(InFlight(k))
        /\ Cardinality(InFlight(k)) \in Nat /\ Cardinality(InFlight(k)') \in Nat
    BY <1>1, FS_Subset, FS_CardinalityType
  <1>3. Allowed(k) \in Int /\ Allowed(k)' \in Int
    BY JwtAssumption DEF Allowed, TypeInv, JwtTypeOK
  <1> QED
    BY <1>1, <1>2, <1>3

\* The coroutine that takes the lock is one more, and the lock was free.
LEMMA LockFlies ==
  ASSUME TypeInv, TypeInv', SingleFlight, NEW f \in Flights, TryLock(f)
  PROVE  SingleFlight'
  <1> SUFFICES ASSUME NEW k \in Keys
               PROVE  IsFiniteSet(InFlight(k)') /\ Cardinality(InFlight(k)') <= Allowed(k)'
    BY DEF SingleFlight
  <1>0. flight[f].pc = "lock" /\ flight[f] \in Busy /\ lapses' = lapses
    BY BusyTyped DEF TryLock, At, bounds
  <1>1. CASE /\ lock[Key(f)] = NoNode /\ lock' = [lock EXCEPT ![Key(f)] = Node(f)]
             /\ To(f, "exchange")
    <2>1. /\ flight'[f].key = flight[f].key
          /\ \A g \in Flights \ {f} : flight'[g] = flight[g]
      BY <1>0, <1>1, Moves
    <2>2. CASE k = Key(f)
      <3>1. InFlight(k)' \subseteq InFlight(k) \cup {f}
        BY <2>1 DEF InFlight
      <3>2. IsFiniteSet(InFlight(k)) /\ Cardinality(InFlight(k)) <= lapses[k]
        <4>1. Cardinality(InFlight(k)) \in Nat /\ lapses[k] \in Nat
          BY FS_CardinalityType, JwtAssumption DEF SingleFlight, TypeInv, JwtTypeOK
        <4> QED
          BY <1>1, <2>2, <4>1 DEF SingleFlight, Allowed
      <3>3. Allowed(k)' = lapses[k] + 1 /\ lapses[k] \in Nat
        BY <1>0, <1>1, <2>2, JwtAssumption DEF Allowed, TypeInv, JwtTypeOK, Busy, Node
      <3>4. /\ IsFiniteSet(InFlight(k) \cup {f}) /\ Cardinality(InFlight(k)) \in Nat
            /\ Cardinality(InFlight(k) \cup {f}) <= Cardinality(InFlight(k)) + 1
        <4>1. Cardinality(InFlight(k)) \in Nat
          BY <3>2, FS_CardinalityType
        <4>2. /\ IsFiniteSet(InFlight(k) \cup {f})
              /\ Cardinality(InFlight(k) \cup {f}) =
                   IF f \in InFlight(k) THEN Cardinality(InFlight(k))
                                       ELSE Cardinality(InFlight(k)) + 1
          BY <3>2, FS_AddElement, Zenon
        <4> QED
          BY <4>1, <4>2
      <3>5. /\ IsFiniteSet(InFlight(k)')
            /\ Cardinality(InFlight(k)') <= Cardinality(InFlight(k) \cup {f})
        BY <3>1, <3>4, FS_Subset
      <3>6. Cardinality(InFlight(k)') \in Nat /\ Cardinality(InFlight(k) \cup {f}) \in Nat
        BY <3>4, <3>5, FS_CardinalityType
      <3> QED
        BY <3>2, <3>3, <3>4, <3>5, <3>6
    <2>3. CASE k # Key(f)
      <3>1. InFlight(k)' \subseteq InFlight(k)
        BY <2>1, <2>3 DEF InFlight, Key
      <3>2. Allowed(k)' = Allowed(k) /\ Allowed(k) \in Int
        BY <1>0, <1>1, <2>3, JwtAssumption DEF Allowed, TypeInv, JwtTypeOK
      <3> QED
        BY <3>1, <3>2, FewerAllowed
    <2> QED
      BY <2>2, <2>3
  <1>2. CASE /\ lock' = lock /\ flight'[f].pc \in {"idle", "wait", "lock"}
             /\ \A g \in Flights \ {f} : flight'[g] = flight[g]
    <2>1. InFlight(k)' \subseteq InFlight(k)
      BY <1>2 DEF InFlight
    <2>2. Allowed(k)' = Allowed(k) /\ Allowed(k) \in Int
      BY <1>0, <1>2, JwtAssumption DEF Allowed, TypeInv, JwtTypeOK
    <2> QED
      BY <2>1, <2>2, FewerAllowed
  <1> QED
    BY <1>1, <1>2, TryLockEither

\* The coroutine that gives a lock back is one fewer, whosever the lock is.
LEMMA UnlockLands ==
  ASSUME TypeInv, TypeInv', SingleFlight, NEW f \in Flights, Unlock(f)
  PROVE  SingleFlight'
  <1> SUFFICES ASSUME NEW k \in Keys
               PROVE  IsFiniteSet(InFlight(k)') /\ Cardinality(InFlight(k)') <= Allowed(k)'
    BY DEF SingleFlight
  <1>0. flight[f].pc = "unlock" /\ flight[f] \in Busy /\ lapses' = lapses
    BY BusyTyped DEF Unlock, At, bounds
  <1>1. /\ flight'[f].pc \in {"idle", "wait", "lock"}
        /\ \A g \in Flights \ {f} : flight'[g] = flight[g]
    BY DoneRests DEF Unlock
  <1>2. InFlight(k)' = InFlight(k) \ {f}
    BY <1>1 DEF InFlight
  <1>3. CASE k = Key(f)
    <2>1. f \in InFlight(k)
      BY <1>0, <1>3 DEF InFlight, Key
    <2>2. /\ IsFiniteSet(InFlight(k)) /\ Cardinality(InFlight(k)) <= Allowed(k)
          /\ Cardinality(InFlight(k)) \in Nat
      BY FS_CardinalityType DEF SingleFlight
    <2>3. IsFiniteSet(InFlight(k)') /\ Cardinality(InFlight(k)') = Cardinality(InFlight(k)) - 1
      BY <1>2, <2>1, <2>2, FS_RemoveElement
    <2>4. Allowed(k) <= Allowed(k)' + 1 /\ Allowed(k) \in Int /\ Allowed(k)' \in Int
      BY <1>0, JwtAssumption DEF Allowed, TypeInv, JwtTypeOK
    <2> QED
      BY <2>2, <2>3, <2>4
  <1>4. CASE k # Key(f)
    <2>1. lock'[k] = lock[k]
      BY <1>4 DEF Unlock, TypeInv, JwtTypeOK
    <2>2. Allowed(k)' = Allowed(k) /\ Allowed(k) \in Int
      BY <1>0, <2>1, JwtAssumption DEF Allowed, TypeInv, JwtTypeOK
    <2> QED
      BY <1>2, <2>2, FewerAllowed
  <1> QED
    BY <1>3, <1>4

\* No other step starts an exchange, and what a lapse takes from the lock it
\* adds to the lapses.
LEMMA OthersLand ==
  ASSUME TypeInv, TypeInv', SingleFlight, [Next]_vars,
         \A f \in Flights : ~TryLock(f) /\ ~Unlock(f)
  PROVE  SingleFlight'
  <1> SUFFICES ASSUME NEW k \in Keys
               PROVE  IsFiniteSet(InFlight(k)') /\ Cardinality(InFlight(k)') <= Allowed(k)'
    BY DEF SingleFlight
  <1>1. Allowed(k) <= Allowed(k)'
    <2>1. CASE lapses' = lapses /\ lock' = lock
      BY <2>1, JwtAssumption DEF Allowed, TypeInv, JwtTypeOK
    <2>2. ASSUME NEW l \in Keys, LockTtl(l)
          PROVE  Allowed(k) <= Allowed(k)'
      BY <2>2, JwtAssumption DEF LockTtl, Allowed, TypeInv, JwtTypeOK
    <2> QED
      BY <2>1, <2>2 DEF Next, Step, Mint, ExchangeFails, SetEx, SAdd, Poll, Hit, Miss, Invalidate,
                        Change, InvRead, InvDelete, InvFails, Environment, JwtTtl, IdxTtl, Crash, bounds, vars
  <1>2. InFlight(k)' \subseteq InFlight(k)
    <2>1. ASSUME NEW f \in Flights, Mint(f) \/ ExchangeFails(f) \/ SetEx(f) \/ SAdd(f)
          PROVE  InFlight(k)' \subseteq InFlight(k)
      <3>1. flight[f].pc \in {"exchange", "minted", "index"}
        BY <2>1 DEF Mint, ExchangeFails, SetEx, SAdd, At
      <3>2. \E p \in {"minted", "unlock", "index"}, got \in Epochs \cup {NoJwt} :
              Becomes(f, [flight[f] EXCEPT !.pc = p, !.got = got]) \/ To(f, p)
        BY <2>1 DEF Mint, ExchangeFails, SetEx, SAdd, Set, Becomes, TypeInv, JwtTypeOK
      <3>3. /\ flight'[f].key = flight[f].key
            /\ \A g \in Flights \ {f} : flight'[g] = flight[g]
        BY <3>1, <3>2, Moves
      <3> QED
        BY <3>1, <3>3 DEF InFlight
    <2>2. ASSUME NEW f \in Flights, flight'[f].pc \in {"idle", "wait", "lock"},
                 \A g \in Flights \ {f} : flight'[g] = flight[g]
          PROVE  InFlight(k)' \subseteq InFlight(k)
      BY <2>2 DEF InFlight
    <2>3. ASSUME NEW f \in Flights, Poll(f)
          PROVE  InFlight(k)' \subseteq InFlight(k)
      BY <2>2, <2>3, PollRests
    <2>4. ASSUME NEW f \in Flights, NEW l \in Keys, NEW n \in Nodes, Hit(f, l, n) \/ Miss(f, l, n)
          PROVE  InFlight(k)' \subseteq InFlight(k)
      BY <2>2, <2>4, BeginRests DEF Hit, Miss
    <2>5. ASSUME NEW n \in Nodes, Crash(n)
          PROVE  InFlight(k)' \subseteq InFlight(k)
      BY <2>5, CrashRests DEF InFlight
    <2>6. CASE UNCHANGED flight
      BY <2>6 DEF InFlight
    <2> QED
      BY <2>1, <2>3, <2>4, <2>5, <2>6
      DEF Next, Step, Invalidate, Change, InvRead, InvDelete, InvFails, Environment, LockTtl, JwtTtl, IdxTtl,
          vars
  <1> QED
    BY <1>1, <1>2, FewerAllowed

\* One exchange of a key at a time, and one more for each time its lock expired
\* under its holder (JwtCache).
THEOREM ExchangesAreBounded == HSpec => []ExchangesBounded
  <1>1. Init => SingleFlight
    <2> SUFFICES ASSUME Init, NEW k \in Keys
                 PROVE  IsFiniteSet(InFlight(k)) /\ Cardinality(InFlight(k)) <= Allowed(k)
      BY DEF SingleFlight
    <2>1. InFlight(k) = {}
      BY DEF Init, InFlight, Idle
    <2>2. Allowed(k) = 0
      BY DEF Init, Allowed
    <2> QED
      BY <2>1, <2>2, FS_EmptySet
  <1>2. TypeInv /\ SingleFlight /\ [Next]_vars => SingleFlight'
    BY NextTyped, LockFlies, UnlockLands, OthersLand
  <1>3. TypeInv /\ SingleFlight => ExchangesBounded
    <2> SUFFICES ASSUME TypeInv, SingleFlight, NEW k \in Keys
                 PROVE  Cardinality(InFlight(k)) <= 1 + lapses[k]
      BY DEF ExchangesBounded
    <2>1. /\ Cardinality(InFlight(k)) \in Nat /\ Cardinality(InFlight(k)) <= Allowed(k)
          /\ Allowed(k) \in Int /\ Allowed(k) <= 1 + lapses[k] /\ lapses[k] \in Int
      BY FS_CardinalityType, JwtAssumption DEF SingleFlight, Allowed, TypeInv, JwtTypeOK
    <2> QED
      BY <2>1
  <1>4. [HNext]_hvars => [Next]_vars
    BY DEF HNext, hvars
  <1> QED
    BY <1>1, <1>2, <1>3, <1>4, AlwaysTyped, PTL DEF HSpec, HInit

-----------------------------------------------------------------------------
(* Invalidation.                                                           *)

Stale(k)  == jwt[k] # NoJwt /\ jwt[k] < epoch

\* A JWT is listed, about to be listed or deleted, or was cut off. One with
\* earlier rights is missed already, or will be found by the invalidation.
Within(k) ==
  /\ k \in strays => k \notin idx
  /\ k \in spared => inv.pc = "idle"
  /\ jwt[k] # NoJwt => k \in idx \/ Listing(k) \/ Doomed(k) \/ k \in strays
  /\ Stale(k) => \/ k \in late \cup spared \/ inv.pc = "read" \/ Doomed(k)
                 \/ k \in strays /\ ~Listing(k)

Tracked == \A k \in Keys : Within(k)

\* The history of a key, from the step's effect on it.
LEMMA HistoryOf ==
  ASSUME HNext, NEW k \in Keys
  PROVE  /\ k \in strays' <=> jwt'[k] # NoJwt /\ k \notin idx' /\ (k \in strays \/ CutOff(k))
         /\ k \in late' <=> Stale(k)' /\ (k \in late \/ Late(k))
         /\ k \in spared' <=> Stale(k)' /\ inv'.pc = "idle" /\ (k \in spared \/ Failed)
  BY DEF HNext, HistoryNext, Stale

\* A step that neither fills nor reads the index leaves a key within reach.
LEMMA SameWithin ==
  ASSUME TypeInv, HNext, NEW k \in Keys, Within(k),
         jwt'[k] = NoJwt \/ (jwt'[k] = jwt[k] /\ epoch' = epoch),
         k \in idx' => k \in idx,
         k \in idx /\ k \notin idx' => CutOff(k) \/ Doomed(k),
         Listing(k)' => Listing(k),
         inv' = inv \/ jwt'[k] = NoJwt
  PROVE  Within(k)'
  <1>1. Doomed(k) => Doomed(k)' \/ jwt'[k] = NoJwt
    BY DEF Doomed
  <1>2. inv.pc = "read" => inv'.pc = "read" \/ jwt'[k] = NoJwt
    OBVIOUS
  <1>3. (k \in strays' => k \notin idx') /\ (k \in spared' => inv'.pc = "idle")
    BY HistoryOf
  <1>4. ASSUME jwt'[k] # NoJwt
        PROVE  k \in idx' \/ Listing(k)' \/ Doomed(k)' \/ k \in strays'
    <2>1. k \in idx \/ Listing(k) \/ Doomed(k) \/ k \in strays
      BY <1>4 DEF Within
    <2>2. Listing(k) => Listing(k)' \/ CutOff(k)
      BY DEF CutOff
    <2> QED
      BY <1>1, <1>4, <2>1, <2>2, HistoryOf
  <1>5. ASSUME Stale(k)'
        PROVE  \/ k \in late' \cup spared' \/ inv'.pc = "read" \/ Doomed(k)'
               \/ k \in strays' /\ ~Listing(k)'
    <2>1. jwt'[k] # NoJwt /\ Stale(k)
      BY <1>5 DEF Stale
    <2>2. \/ k \in late \cup spared \/ inv.pc = "read" \/ Doomed(k)
          \/ k \in strays /\ k \notin idx /\ ~Listing(k)
      BY <2>1 DEF Within
    <2>3. k \in spared => k \in spared'
      BY <1>5, <2>1, HistoryOf DEF Within
    <2> QED
      BY <1>1, <1>2, <1>5, <2>1, <2>2, <2>3, HistoryOf
  <1> QED
    BY <1>3, <1>4, <1>5 DEF Within

\* The listing of a key ends with its SADD, or with its node.
LEMMA StepWithin ==
  ASSUME TypeInv, TypeInv', Tracked, HNext, NEW f \in Flights, Step(f), NEW k \in Keys
  PROVE  Within(k)'
  <1> USE DEF Tracked
  <1>0. flight[f].pc # "idle" /\ flight[f] \in Busy /\ NoJwt \in Epochs \cup {NoJwt}
    BY BusyTyped DEF Step, TryLock, Mint, ExchangeFails, SetEx, SAdd, Unlock, Poll, At
  <1>1. epoch' = epoch /\ inv' = inv
    BY DEF Step, TryLock, Mint, ExchangeFails, SetEx, SAdd, Unlock, Poll
  <1>2. CASE SetEx(f)
    <2>1. Becomes(f, [flight[f] EXCEPT !.pc = "index", !.got = NoJwt])
      BY <1>2 DEF SetEx, Set, Becomes
    <2>2. /\ flight'[f].pc = "index" /\ flight'[f].key = flight[f].key
          /\ \A g \in Flights \ {f} : flight'[g] = flight[g]
      BY <1>0, <2>1, Moves
    <2>3. flight[f].pc = "minted" /\ idx' = idx /\ faults' = faults
      BY <1>2 DEF SetEx, At, bounds
    <2>4. \A l \in Keys : Listing(l) => Listing(l)'
      BY <2>2, <2>3 DEF Listing
    <2>5. CASE k = flight[f].key
      <3>1. Listing(k)'
        BY <2>2, <2>5 DEF Listing
      <3>2. inv.pc # "read" => Late(k)
        BY <2>2, <2>3, <2>5 DEF Late
      <3>3. (k \in strays' => k \notin idx') /\ (k \in spared' => inv'.pc = "idle")
        BY HistoryOf
      <3>4. Stale(k)' => k \in late' \/ inv'.pc = "read"
        BY <1>1, <3>2, HistoryOf
      <3> QED
        BY <3>1, <3>3, <3>4 DEF Within
    <2>6. CASE k # flight[f].key
      <3>1. jwt'[k] = jwt[k]
        BY <1>2, <2>6 DEF SetEx, Key, TypeInv, JwtTypeOK
      <3>2. Listing(k)' => Listing(k)
        BY <2>2, <2>6 DEF Listing
      <3> QED
        BY <1>1, <2>3, <2>4, <3>1, <3>2, SameWithin
    <2> QED
      BY <2>5, <2>6
  <1>3. CASE SAdd(f)
    <2>1. /\ flight'[f].pc = "unlock"
          /\ \A g \in Flights \ {f} : flight'[g] = flight[g]
      BY <1>0, <1>3, Moves DEF SAdd
    <2>2. flight[f].pc = "index" /\ idx' = idx \cup {flight[f].key} /\ jwt' = jwt /\ faults' = faults
      BY <1>3 DEF SAdd, At, Key, bounds
    <2>3. CASE k = flight[f].key
      <3>1. Listing(k) /\ k \in idx'
        BY <2>2, <2>3 DEF Listing
      <3>2. k \notin strays' /\ (k \in spared' => inv'.pc = "idle")
        BY <3>1, HistoryOf
      <3>3. ASSUME Stale(k)'
            PROVE  k \in late' \cup spared' \/ inv'.pc = "read" \/ Doomed(k)'
        <4>1. Stale(k)
          BY <1>1, <2>2, <3>3 DEF Stale
        <4>2. k \in late \/ inv.pc = "read" \/ Doomed(k) \/ (k \in spared /\ inv.pc = "idle")
          BY <3>1, <4>1 DEF Within
        <4> QED
          BY <1>1, <3>3, <4>2, HistoryOf DEF Doomed
      <3> QED
        BY <3>1, <3>2, <3>3 DEF Within
    <2>4. CASE k # flight[f].key
      <3>1. Listing(k)' = Listing(k)
        BY <2>1, <2>2, <2>4 DEF Listing
      <3> QED
        BY <1>1, <2>2, <2>4, <3>1, SameWithin
    <2> QED
      BY <2>3, <2>4
  <1>4. CASE TryLock(f) \/ Mint(f) \/ ExchangeFails(f) \/ Unlock(f) \/ Poll(f)
    <2>1. /\ flight[f].pc # "index" /\ flight'[f].pc # "index"
          /\ \A g \in Flights \ {f} : flight'[g] = flight[g]
      <3>1. CASE Mint(f) \/ ExchangeFails(f)
        <4>1. \E p \in {"minted", "unlock"}, got \in Epochs \cup {NoJwt} :
                Becomes(f, [flight[f] EXCEPT !.pc = p, !.got = got])
          BY <3>1 DEF Mint, ExchangeFails, Set, Becomes, TypeInv, JwtTypeOK
        <4>2. /\ flight'[f].pc # "index"
              /\ \A g \in Flights \ {f} : flight'[g] = flight[g]
          BY <1>0, <4>1, Moves
        <4> QED
          BY <3>1, <4>2 DEF Mint, ExchangeFails
      <3>2. CASE TryLock(f)
        <4>1. /\ flight'[f].pc # "index"
              /\ \A g \in Flights \ {f} : flight'[g] = flight[g]
          BY <1>0, <3>2, TryLockEither, Moves
        <4> QED
          BY <3>2, <4>1 DEF TryLock, At
      <3>3. CASE Unlock(f)
        <4>1. /\ flight'[f].pc # "index"
              /\ \A g \in Flights \ {f} : flight'[g] = flight[g]
          BY <3>3, DoneRests DEF Unlock
        <4> QED
          BY <3>3, <4>1 DEF Unlock, At
      <3>4. CASE Poll(f)
        <4>1. /\ flight'[f].pc # "index"
              /\ \A g \in Flights \ {f} : flight'[g] = flight[g]
          BY <3>4, PollRests
        <4> QED
          BY <3>4, <4>1 DEF Poll, At
      <3> QED
        BY <1>4, <3>1, <3>2, <3>3, <3>4
    <2>2. Listing(k)' = Listing(k)
      BY <2>1 DEF Listing
    <2>3. jwt' = jwt /\ idx' = idx
      BY <1>4 DEF TryLock, Mint, ExchangeFails, Unlock, Poll, cached
    <2> QED
      BY <1>1, <2>2, <2>3, SameWithin
  <1> QED
    BY <1>2, <1>3, <1>4 DEF Step

LEMMA InvalidateWithin ==
  ASSUME TypeInv, TypeInv', Tracked, HNext, Invalidate, NEW k \in Keys
  PROVE  Within(k)'
  <1> USE DEF Tracked
  <1>0. /\ flight' = flight /\ Listing(k)' = Listing(k)
        /\ (k \in strays' => k \notin idx') /\ (k \in spared' => inv'.pc = "idle")
    BY HistoryOf DEF Invalidate, Change, InvRead, InvDelete, InvFails, Listing
  <1>1. CASE Change
    <2>1. jwt' = jwt /\ idx' = idx /\ inv.pc = "idle" /\ inv'.pc = "read"
      BY <1>1 DEF Change, cached
    <2>2. ~Doomed(k)
      BY <2>1 DEF Doomed
    <2>3. jwt'[k] # NoJwt => k \in idx' \/ Listing(k)' \/ k \in strays'
      BY <1>0, <2>1, <2>2, HistoryOf DEF Within
    <2> QED
      BY <1>0, <2>1, <2>3 DEF Within
  <1>2. CASE InvRead
    <2>1. /\ jwt' = jwt /\ idx' = idx /\ epoch' = epoch /\ inv.pc = "read"
          /\ k \in idx => inv' = [pc |-> "delete", keys |-> idx]
          /\ inv'.pc # "read"
      BY <1>2 DEF InvRead, cached, NoInv
    <2>2. ~Doomed(k) /\ (k \in idx => Doomed(k)')
      BY <2>1 DEF Doomed
    <2>3. jwt'[k] # NoJwt => k \in idx' \/ Listing(k)' \/ k \in strays'
      BY <1>0, <2>1, <2>2, HistoryOf DEF Within
    <2>4. k \notin spared
      BY <2>1 DEF Within
    <2>5. Listing(k) => Late(k)
      BY <2>1 DEF Late
    <2>6. Stale(k)' => k \in late' \/ Doomed(k)' \/ (k \in strays' /\ ~Listing(k)')
      <3> SUFFICES ASSUME Stale(k)'
                   PROVE  k \in late' \/ Doomed(k)' \/ (k \in strays' /\ ~Listing(k)')
        OBVIOUS
      <3>1. k \in idx' \/ Listing(k)' \/ k \in strays'
        BY <2>3 DEF Stale
      <3> QED
        BY <1>0, <2>1, <2>2, <2>5, <3>1, HistoryOf
    <2> QED
      BY <1>0, <2>3, <2>6 DEF Within
  <1>3. CASE InvDelete
    <2>1. /\ idx' = {} /\ epoch' = epoch /\ inv.pc = "delete"
          /\ jwt'[k] = IF k \in inv.keys THEN NoJwt ELSE jwt[k]
      BY <1>3 DEF InvDelete
    <2>2. CASE k \in inv.keys
      <3>1. jwt'[k] = NoJwt /\ k \notin strays'
        BY <2>1, <2>2, HistoryOf
      <3> QED
        BY <1>0, <3>1 DEF Within, Stale
    <2>3. CASE k \notin inv.keys
      <3>1. ~Doomed(k) /\ jwt'[k] = jwt[k]
        BY <2>1, <2>3 DEF Doomed
      <3>2. k \in idx => CutOff(k)
        BY <2>1, <2>3, <3>1 DEF CutOff
      <3>3. k \notin spared
        BY <2>1 DEF Within
      <3>4. jwt'[k] # NoJwt => Listing(k)' \/ k \in strays'
        BY <1>0, <2>1, <3>1, <3>2, HistoryOf DEF Within
      <3>5. ASSUME Stale(k)'
            PROVE  k \in late' \/ (k \in strays' /\ ~Listing(k)')
        <4>1. Stale(k) /\ jwt'[k] # NoJwt
          BY <2>1, <3>1, <3>5 DEF Stale
        <4>2. k \in late \/ (k \in strays /\ ~Listing(k))
          BY <2>1, <3>1, <3>3, <4>1 DEF Within
        <4> QED
          BY <1>0, <2>1, <3>5, <4>1, <4>2, HistoryOf
      <3> QED
        BY <1>0, <3>4, <3>5 DEF Within
    <2> QED
      BY <2>2, <2>3
  <1>4. CASE InvFails
    <2>1. jwt' = jwt /\ idx' = idx /\ inv'.pc = "idle" /\ Failed
      BY <1>4, JwtAssumption DEF InvFails, Failed, NoInv, cached, TypeInv, JwtTypeOK
    <2>2. Stale(k)' => k \in spared'
      BY <2>1, HistoryOf
    <2>3. Doomed(k) => CutOff(k)
      BY <2>1 DEF CutOff
    <2>4. jwt'[k] # NoJwt => k \in idx' \/ Listing(k)' \/ k \in strays'
      BY <1>0, <2>1, <2>3, HistoryOf DEF Within
    <2> QED
      BY <1>0, <2>2, <2>4 DEF Within
  <1> QED
    BY <1>1, <1>2, <1>3, <1>4 DEF Invalidate

LEMMA OtherWithin ==
  ASSUME TypeInv, Tracked, HNext, NEW k \in Keys,
         \/ \E f \in Flights, l \in Keys, n \in Nodes : Hit(f, l, n) \/ Miss(f, l, n)
         \/ Environment
  PROVE  Within(k)'
  <1> USE DEF Tracked
  <1>0. epoch' = epoch /\ inv' = inv
    BY DEF Hit, Miss, Environment, LockTtl, JwtTtl, IdxTtl, Crash
  <1>1. ASSUME NEW f \in Flights, NEW l \in Keys, NEW n \in Nodes, Hit(f, l, n) \/ Miss(f, l, n)
        PROVE  Within(k)'
    <2>1. flight[f].pc = "idle" /\ jwt' = jwt /\ idx' = idx
      BY <1>1 DEF Hit, Miss, Arrives, cached
    <2>2. /\ flight'[f].pc # "index"
          /\ \A g \in Flights \ {f} : flight'[g] = flight[g]
      BY <1>1, BeginRests DEF Hit, Miss
    <2>3. Listing(k)' = Listing(k)
      BY <2>1, <2>2 DEF Listing
    <2> QED
      BY <1>0, <2>1, <2>3, SameWithin
  <1>2. ASSUME NEW l \in Keys, LockTtl(l) \/ JwtTtl(l)
        PROVE  Within(k)'
    <2>1. idx' = idx /\ flight' = flight
      BY <1>2 DEF LockTtl, JwtTtl, cached
    <2>2. jwt'[k] \in {NoJwt, jwt[k]}
      BY <1>2 DEF LockTtl, JwtTtl, cached, TypeInv, JwtTypeOK
    <2>3. Listing(k)' = Listing(k)
      BY <2>1 DEF Listing
    <2> QED
      BY <1>0, <2>1, <2>2, <2>3, SameWithin
  <1>3. CASE IdxTtl
    <2>1. idx' = {} /\ flight' = flight /\ jwt' = jwt
      BY <1>3 DEF IdxTtl
    <2>2. Listing(k)' = Listing(k)
      BY <2>1 DEF Listing
    <2>3. k \in idx => CutOff(k) \/ Doomed(k)
      BY <2>1 DEF CutOff, Doomed
    <2> QED
      BY <1>0, <2>1, <2>2, <2>3, SameWithin
  <1>4. ASSUME NEW n \in Nodes, Crash(n)
        PROVE  Within(k)'
    <2>1. idx' = idx /\ jwt' = jwt
      BY <1>4 DEF Crash, cached
    <2>2. Listing(k)' => Listing(k)
      BY <1>4, CrashRests DEF Listing
    <2> QED
      BY <1>0, <2>1, <2>2, SameWithin
  <1> QED
    BY <1>1, <1>2, <1>3, <1>4 DEF Environment

\* With no invalidation under way, a JWT with earlier rights is there only if an
\* exchange was in progress over the change, the index lost its key or the last
\* invalidation failed (JwtHistory).
THEOREM StaleIsExplained == HSpec => []StaleOnlyIfMissed
  <1>1. HInit => Tracked
    BY DEF HInit, Init, Tracked, Within, Stale
  <1>2. TypeInv /\ Tracked /\ [HNext]_hvars => Tracked'
    <2>1. CASE UNCHANGED hvars
      BY <2>1 DEF hvars, vars, cached, bounds, Tracked, Within, Stale, Doomed, Listing
    <2>2. ASSUME TypeInv, Tracked, HNext, NEW k \in Keys
          PROVE  Within(k)'
      <3>1. Next /\ TypeInv'
        BY <2>2, NextTyped DEF HNext
      <3> QED
        BY <2>2, <3>1, StepWithin, InvalidateWithin, OtherWithin DEF Next
    <2> QED
      BY <2>1, <2>2 DEF Tracked
  <1>3. Tracked => StaleOnlyIfMissed
    BY DEF Tracked, Within, Stale, Doomed, StaleOnlyIfMissed
  <1> QED
    BY <1>1, <1>2, <1>3, AlwaysTyped, PTL DEF HSpec
=============================================================================
