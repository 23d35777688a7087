----------------------------- MODULE RouteProofs -----------------------------
(***************************************************************************)
(* What RouteHistory promises of the routes of an API holds for any number *)
(* of requests, entries, endpoints and failures, and what RouteRules does  *)
(* of the calls they serve for paths and patterns of any length. There the *)
(* expression of a pattern is taken apart symbol by symbol, the declared   *)
(* pattern segment by segment, and the two are shown to be alike.          *)
(***************************************************************************)
EXTENDS RouteRules, SequenceTheorems, FiniteSetTheorems, WellFoundedInduction, TLAPS

Pcs == {"replace", "merge", "unroute", "delete", "fetch", "put", "list", "prune",
        "smoke", "update", "remove"}

Busy == [pc    : Pcs,
         kind  : {"create", "patch", "delete", "resync"},
         row   : Row, goal : Row,
         asked : SUBSET {"status", "base"},
         eps   : (SUBSET Endpoint) \cup {None},
         todo  : SUBSET Route,
         tries : 0..Attempts]

-----------------------------------------------------------------------------
(* What a request knows by itself, whoever else is about.                  *)

Distinct(eps) ==
  eps \in SUBSET Endpoint /\ \A d, e \in eps : d.pattern = e.pattern => d = e

\* The routes a request puts and keeps.
Aim(r) == RoutesOf(r.goal.base, r.eps)

Routing == {"put", "list", "prune", "smoke"}

Sound(r) ==
  /\ r \in Busy
  /\ r.goal.id = r.row.id
  /\ r.goal.base # r.row.base => "base" \in r.asked
  /\ r.pc \in {"replace", "merge"} \cup Routing => Distinct(r.eps)
  /\ r.pc \in {"fetch"} \cup Routing => r.goal.status = "PUBLISHED"
  /\ r.pc = "put" => r.todo \subseteq Aim(r)
  /\ r.pc = "prune" => \A t \in Aim(r), s \in r.todo : ~SameId(t, s)
  /\ r.kind = "delete" => r.pc \in {"unroute", "delete", "remove"}
  /\ r.pc = "remove" => r.kind = "delete"
  /\ r.kind = "resync" => /\ r.pc \in {"fetch", "put", "list", "prune"}
                          /\ r.tries >= 1
                          /\ r.goal = r.row /\ r.row.status = "PUBLISHED"

TypeInv ==
  /\ TypeOK
  /\ Distinct(endpoints)
  /\ \A o \in Ops : op[o] = Idle \/ Sound(op[o])

-----------------------------------------------------------------------------
(* What a request knows that was not raced.                                *)

Few == IsFiniteSet({o \in Ops : Active(o)})

Lone(o) == Active(o) /\ "raced" \notin marks[o]

\* It is the only one, and what it has read of the catalog still holds.
Current(r) ==
  /\ catalog = r.row /\ r.pc # "merge"
  /\ r.pc \in Routing => r.eps = endpoints

Undisputed ==
  \A o \in Ops : Lone(o) =>
    /\ \A p \in Ops \ {o} : ~Active(p)
    /\ Current(op[o])

-----------------------------------------------------------------------------
(* What a request knows that nothing but failed calls has befallen.        *)

Calm(o) == Active(o) /\ marks[o] \subseteq {"failed", "listed"}

\* It is to leave the routes as the catalog has them, as far as it can tell.
Exact(m) == "failed" \notin m /\ ("listed" \in m \/ blame = {})

\* What the catalog will publish once it has ended.
Outcome(r) ==
  IF r.pc = "remove" \/ r.goal.status # "PUBLISHED" THEN {}
  ELSE RoutesOf(r.goal.base, endpoints)

Story(r, m) ==
  /\ r.pc = "replace" =>
       m = {} /\ (blame = {} /\ r.row.status # "PUBLISHED" => routes = {})
  /\ r.pc = "put"     => Aim(r) \ r.todo \subseteq routes
  /\ r.pc \in {"list", "prune", "smoke"} => Aim(r) \subseteq routes
  /\ r.pc = "prune" /\ "failed" \notin m =>
       "listed" \in m /\ routes \subseteq Aim(r) \cup r.todo
  /\ r.pc = "smoke" /\ "failed" \notin m => routes = Aim(r)
  /\ r.pc = "delete" /\ "failed" \notin m => "listed" \in m /\ routes \subseteq r.todo
  /\ r.pc \in {"update", "remove"} /\ Exact(m) => routes = Outcome(r)
  /\ r.pc \in {"update", "remove"} /\ "disturbed" \notin blame => Outcome(r) \subseteq routes
  /\ r.kind = "resync" /\ "disturbed" \notin blame =>
       RoutesOf(r.row.base, endpoints) \subseteq routes

Told == \A o \in Ops : Calm(o) => Story(op[o], marks[o])

Reconciled ==
  /\ blame = {}             => routes = Wanted
  /\ "disturbed" \notin blame => Wanted \subseteq routes

HistoryTyped == marks \in [Ops -> SUBSET Marks] /\ blame \in SUBSET Mishaps

RouteInv ==
  /\ TypeInv /\ HistoryTyped
  /\ Few /\ Undisputed /\ Told
  /\ Quiet => Reconciled
-----------------------------------------------------------------------------
(* Records of requests, and the routes they make.                          *)

\* The request is at another place, with other work.
Turn(r, p, work) == [r EXCEPT !.pc = p, !.todo = work]

LEMMA Turned ==
  ASSUME NEW r \in Busy, NEW p \in Pcs, NEW work \in SUBSET Route
  PROVE  /\ Turn(r, p, work) \in Busy
         /\ Turn(r, p, work).pc = p /\ Turn(r, p, work).todo = work
         /\ Turn(r, p, work).kind = r.kind /\ Turn(r, p, work).row = r.row
         /\ Turn(r, p, work).goal = r.goal /\ Turn(r, p, work).asked = r.asked
         /\ Turn(r, p, work).eps = r.eps /\ Turn(r, p, work).tries = r.tries
  BY DEF Turn, Busy

LEMMA RoutesTyped ==
  ASSUME NEW b \in Bases, NEW eps, Distinct(eps)
  PROVE  /\ RoutesOf(b, eps) \subseteq Route
         /\ \A s, t \in RoutesOf(b, eps) : SameId(s, t) => s = t
  BY DEF RoutesOf, Distinct, Endpoint, Route, SameId

LEMMA AimTyped ==
  ASSUME NEW r, Sound(r), r.pc \in {"replace", "merge"} \cup Routing
  PROVE  /\ Aim(r) \subseteq Route
         /\ \A s, t \in Aim(r) : SameId(s, t) => s = t
  <1>1. r.goal.base \in Bases /\ Distinct(r.eps)
    BY DEF Sound, Busy, Row
  <1> QED
    BY <1>1, RoutesTyped DEF Aim

LEMMA NewTyped ==
  ASSUME NEW kind \in {"create", "patch", "delete", "resync"}, NEW pc \in Pcs,
         NEW row \in Row, NEW goal \in Row, NEW asked \in SUBSET {"status", "base"},
         NEW eps \in (SUBSET Endpoint) \cup {None}, NEW todo \in SUBSET Route
  PROVE  /\ New(kind, pc, row, goal, asked, eps, todo) \in Busy
         /\ New(kind, pc, row, goal, asked, eps, todo).pc = pc
         /\ New(kind, pc, row, goal, asked, eps, todo).kind = kind
         /\ New(kind, pc, row, goal, asked, eps, todo).row = row
         /\ New(kind, pc, row, goal, asked, eps, todo).goal = goal
         /\ New(kind, pc, row, goal, asked, eps, todo).asked = asked
         /\ New(kind, pc, row, goal, asked, eps, todo).eps = eps
         /\ New(kind, pc, row, goal, asked, eps, todo).todo = todo
         /\ kind = "resync" => New(kind, pc, row, goal, asked, eps, todo).tries >= 1
  BY RouteAssumption DEF New, Busy

\* A request that goes on with the routes it aims at.
LEMMA TurnSound ==
  ASSUME NEW r, Sound(r), NEW p \in Pcs, NEW work \in SUBSET Route,
         p \in {"replace", "merge"} \cup Routing => Distinct(r.eps),
         p \in {"fetch"} \cup Routing => r.goal.status = "PUBLISHED",
         p = "put" => work \subseteq Aim(r),
         p = "prune" => \A t \in Aim(r), s \in work : ~SameId(t, s),
         r.kind = "delete" => p \in {"unroute", "delete", "remove"},
         p = "remove" => r.kind = "delete",
         r.kind = "resync" => p \in {"fetch", "put", "list", "prune"}
  PROVE  Sound(Turn(r, p, work))
  <1> DEFINE c == Turn(r, p, work)
  <1>1. /\ c \in Busy /\ c.pc = p /\ c.todo = work /\ c.kind = r.kind /\ c.row = r.row
        /\ c.goal = r.goal /\ c.asked = r.asked /\ c.eps = r.eps /\ c.tries = r.tries
    BY Turned DEF Sound
  <1>2. Aim(c) = Aim(r)
    BY <1>1 DEF Aim
  <1> HIDE DEF c
  <1>3. Sound(c)
    BY <1>1, <1>2 DEF Sound
  <1> QED
    BY <1>3 DEF c
-----------------------------------------------------------------------------
(* What follows a step of a request.                                       *)

LEMMA AfterPruneIs ==
  ASSUME NEW o \in Ops, Sound(op[o]), op[o].pc \in {"list", "prune"}
  PROVE  \/ op[o].kind = "resync" /\ AfterPrune(o) = Idle
         \/ /\ op[o].kind # "resync"
            /\ AfterPrune(o) = Turn(op[o], "smoke", {}) /\ Sound(Turn(op[o], "smoke", {}))
  <1>1. CASE op[o].kind = "resync"
    BY <1>1 DEF AfterPrune
  <1>2. CASE op[o].kind # "resync"
    <2>1. Sound(Turn(op[o], "smoke", {}))
      <3>1. Distinct(op[o].eps) /\ op[o].goal.status = "PUBLISHED" /\ op[o].kind # "delete"
        BY <1>2 DEF Sound, Routing
      <3> QED
        BY <1>2, <3>1, TurnSound DEF Pcs
    <2>2. AfterPrune(o) = Turn(op[o], "smoke", {})
      BY <1>2 DEF AfterPrune, Clear, Turn
    <2> QED
      BY <1>2, <2>1, <2>2
  <1> QED
    BY <1>1, <1>2

LEMMA AfterUnrouteIs ==
  ASSUME NEW o \in Ops, Sound(op[o]), op[o].pc \in {"unroute", "delete"}
  PROVE  /\ op[o].kind # "resync"
         /\ \E p \in {"remove", "fetch", "update"} :
              /\ AfterUnroute(o) = Turn(op[o], p, {}) /\ Sound(Turn(op[o], p, {}))
              /\ p = "remove" <=> op[o].kind = "delete"
              /\ p = "update" => op[o].goal.status # "PUBLISHED"
  <1> DEFINE p == IF op[o].kind = "delete" THEN "remove"
                  ELSE IF op[o].goal.status = "PUBLISHED" THEN "fetch"
                  ELSE "update"
  <1>0. op[o].kind # "resync"
    BY DEF Sound
  <1>a. AfterUnroute(o) = Turn(op[o], p, {})
    BY DEF AfterUnroute, Clear, Turn
  <1>1. CASE op[o].kind = "delete"
    <2>1. Sound(Turn(op[o], "remove", {}))
      BY <1>0, <1>1, TurnSound DEF Pcs, Routing
    <2>2. p = "remove"
      BY <1>1
    <2> QED
      BY <1>0, <1>1, <1>a, <2>1, <2>2
  <1>2. CASE op[o].kind # "delete" /\ op[o].goal.status = "PUBLISHED"
    <2>1. Sound(Turn(op[o], "fetch", {}))
      BY <1>0, <1>2, TurnSound DEF Pcs, Routing
    <2>2. p = "fetch"
      BY <1>2
    <2> QED
      BY <1>0, <1>2, <1>a, <2>1, <2>2
  <1>3. CASE op[o].kind # "delete" /\ op[o].goal.status # "PUBLISHED"
    <2>1. Sound(Turn(op[o], "update", {}))
      BY <1>0, <1>3, TurnSound DEF Pcs, Routing
    <2>2. p = "update"
      BY <1>3
    <2> QED
      BY <1>0, <1>3, <1>a, <2>1, <2>2
  <1> QED
    BY <1>1, <1>2, <1>3

\* The resync begins again with all its routes.
Retried(r, c) ==
  /\ c.pc \in {"put", "list"} /\ c.todo = Aim(r)
  /\ c.pc = "list" => Aim(r) = {}
  /\ c.tries < r.tries
  /\ c.kind = r.kind /\ c.row = r.row /\ c.goal = r.goal /\ c.eps = r.eps

\* The request writes DRAFT.
Drafted(r, c) ==
  /\ c.pc = "update" /\ c.goal.status = "DRAFT"
  /\ c.kind = r.kind /\ c.row = r.row

LEMMA RaisedIs ==
  ASSUME NEW o \in Ops, Sound(op[o]),
         op[o].pc \in {"put", "prune", "unroute", "delete", "smoke"}
  PROVE  \/ op[o].kind = "resync" /\ Raised(o) = Idle
         \/ /\ Sound(Raised(o))
            /\ \/ op[o].kind = "delete" /\ Raised(o) = Turn(op[o], "remove", {})
               \/ op[o].kind = "resync" /\ Retried(op[o], Raised(o))
               \/ op[o].kind \in {"create", "patch"} /\ Drafted(op[o], Raised(o))
  <1> DEFINE r == op[o]
  <1>0. r \in Busy
    BY DEF Sound
  <1>1. CASE r.kind = "delete"
    <2>1. Sound(Turn(r, "remove", {}))
      BY <1>1, TurnSound DEF Pcs, Routing
    <2>2. Clear(r).kind = "delete"
      BY <1>0, <1>1 DEF Clear, Busy
    <2>3. Raised(o) = [Clear(r) EXCEPT !.pc = "remove"]
      BY <2>2 DEF Raised
    <2>4. [Clear(r) EXCEPT !.pc = "remove"] = Turn(r, "remove", {})
      BY <1>0 DEF Clear, Turn, Busy
    <2> QED
      BY <1>1, <2>1, <2>3, <2>4
  <1>2. CASE r.kind = "resync" /\ r.tries = 1
    BY <1>0, <1>2 DEF Raised, Clear, Busy
  <1>3. CASE r.kind = "resync" /\ r.tries # 1
    <2> DEFINE c == [Clear(r) EXCEPT !.pc    = IF r.eps = {} THEN "list" ELSE "put",
                                     !.todo  = Aim(r),
                                     !.tries = r.tries - 1]
    <2>1. Raised(o) = c
      <3>1. /\ Clear(r).kind = "resync" /\ Clear(r).tries = r.tries /\ Clear(r).eps = r.eps
            /\ Clear(r).goal = r.goal
        BY <1>0, <1>3 DEF Clear, Busy
      <3> QED
        BY <1>3, <3>1 DEF Raised, Aim
    <2>2. Aim(r) \subseteq Route /\ Distinct(r.eps) /\ r.goal.status = "PUBLISHED"
      BY <1>3, AimTyped DEF Sound, Routing
    <2>3. r.tries - 1 \in 0..Attempts /\ r.tries - 1 >= 1 /\ r.tries - 1 < r.tries
      BY <1>0, <1>3, RouteAssumption DEF Sound, Busy
    <2>4. /\ c \in Busy /\ c.pc = (IF r.eps = {} THEN "list" ELSE "put") /\ c.todo = Aim(r)
          /\ c.tries = r.tries - 1 /\ c.kind = r.kind /\ c.row = r.row /\ c.goal = r.goal
          /\ c.eps = r.eps /\ c.asked = r.asked
      <3>1. Clear(r) = Turn(r, r.pc, {})
        BY <1>0 DEF Clear, Turn, Busy
      <3>2. Clear(r) \in Busy /\ Clear(r).kind = r.kind /\ Clear(r).row = r.row
            /\ Clear(r).goal = r.goal /\ Clear(r).eps = r.eps /\ Clear(r).asked = r.asked
        BY <1>0, <3>1, Turned DEF Busy
      <3> QED
        BY <2>2, <2>3, <3>2 DEF Busy, Pcs
    <2> HIDE DEF c
    <2>5. Aim(c) = Aim(r) /\ (r.eps = {} => Aim(r) = {})
      BY <2>4 DEF Aim, RoutesOf
    <2>6. Sound(c)
      BY <1>3, <2>2, <2>3, <2>4, <2>5 DEF Sound, Routing
    <2>7. Retried(r, c)
      BY <1>3, <2>3, <2>4, <2>5 DEF Retried
    <2> QED
      BY <1>3, <2>1, <2>6, <2>7
  <1>4. CASE r.kind \in {"create", "patch"}
    <2> DEFINE g == [r.goal EXCEPT !.status = "DRAFT"]
               c == [Clear(r) EXCEPT !.pc = "update", !.goal = g]
    <2>1. Raised(o) = c
      <3>1. Clear(r).kind = r.kind /\ Clear(r).goal = r.goal
        BY <1>0 DEF Clear, Busy
      <3>2. Raised(o) = [Clear(r) EXCEPT !.pc = "update", !.goal.status = "DRAFT"]
        BY <1>4, <3>1 DEF Raised
      <3> QED
        BY <1>0, <3>1, <3>2 DEF Clear, Busy
    <2>2. g \in Row /\ g.status = "DRAFT" /\ g.id = r.goal.id /\ g.base = r.goal.base
      BY <1>0 DEF Busy, Row, Statuses
    <2> HIDE DEF g
    <2>3. /\ c \in Busy /\ c.pc = "update" /\ c.goal = g /\ c.kind = r.kind /\ c.row = r.row
          /\ c.asked = r.asked
      <3>1. Clear(r) = Turn(r, r.pc, {})
        BY <1>0 DEF Clear, Turn, Busy
      <3>2. Clear(r) \in Busy /\ Clear(r).kind = r.kind /\ Clear(r).row = r.row
            /\ Clear(r).asked = r.asked
        BY <1>0, <3>1, Turned DEF Busy
      <3> QED
        BY <2>2, <3>2 DEF Busy, Pcs
    <2> HIDE DEF c
    <2>4. Sound(c) /\ Drafted(r, c)
      BY <1>4, <2>2, <2>3 DEF Sound, Routing, Drafted
    <2> QED
      BY <1>4, <2>1, <2>4
  <1> QED
    BY <1>0, <1>1, <1>2, <1>3, <1>4 DEF Busy
-----------------------------------------------------------------------------
(* The steps, as far as the request that takes them is concerned.          *)

\* The request o moves and the others stay.
Only(o) ==
  /\ op' \in [Ops -> Op]
  /\ op'[o] = Idle \/ Sound(op'[o])
  /\ \A p \in Ops \ {o} : op'[p] = op[p]

Goes(o, p, work) ==
  /\ Sound(op'[o]) /\ op'[o].pc = p /\ op'[o].todo = work
  /\ op'[o].kind = op[o].kind /\ op'[o].row = op[o].row
  /\ op'[o].goal = op[o].goal /\ op'[o].eps = op[o].eps

Pruned(o) ==
  \/ op[o].kind = "resync" /\ op'[o] = Idle
  \/ op[o].kind # "resync" /\ Goes(o, "smoke", {})

Unrouted(o) ==
  /\ op[o].kind # "resync"
  /\ \E p \in {"remove", "fetch", "update"} :
       Goes(o, p, {}) /\ (p = "update" => op[o].goal.status # "PUBLISHED")

Failed(o) ==
  \/ op[o].kind = "resync" /\ op'[o] = Idle
  \/ op[o].kind = "delete" /\ Goes(o, "remove", {})
  \/ /\ Sound(op'[o])
     /\ \/ op[o].kind = "resync" /\ Retried(op[o], op'[o])
        \/ op[o].kind \in {"create", "patch"} /\ Drafted(op[o], op'[o])

LEMMA BusyIsSound ==
  ASSUME TypeInv, NEW o \in Ops, op[o].pc # "idle"
  PROVE  Sound(op[o])
  BY DEF TypeInv, Idle

LEMMA BecomeOnly ==
  ASSUME TypeInv, NEW o \in Ops, NEW c, Become(o, c), c = Idle \/ Sound(c)
  PROVE  Only(o) /\ op'[o] = c
  <1>1. op \in [Ops -> Op]
    BY DEF TypeInv, TypeOK
  <1>2. c \in Op
    BY DEF Op, Sound, Busy, Pcs
  <1>3. op' = [op EXCEPT ![o] = c]
    BY DEF Become
  <1>4. op' \in [Ops -> Op] /\ op'[o] = c /\ \A p \in Ops \ {o} : op'[p] = op[p]
    BY <1>1, <1>2, <1>3
  <1> QED
    BY <1>4 DEF Only

LEMMA BecomeGoes ==
  ASSUME TypeInv, NEW o \in Ops, NEW p \in Pcs, NEW work \in SUBSET Route,
         Sound(op[o]), Sound(Turn(op[o], p, work)), Become(o, Turn(op[o], p, work))
  PROVE  Only(o) /\ Goes(o, p, work)
  <1>1. Only(o) /\ op'[o] = Turn(op[o], p, work)
    BY BecomeOnly
  <1>2. op[o] \in Busy
    BY DEF Sound
  <1> QED
    BY <1>1, <1>2, Turned DEF Goes

LEMMA BecomePruned ==
  ASSUME TypeInv, NEW o \in Ops, op[o].pc \in {"list", "prune"}, Become(o, AfterPrune(o))
  PROVE  Only(o) /\ Pruned(o)
  <1>0. Sound(op[o])
    BY BusyIsSound
  <1>1. CASE op[o].kind = "resync" /\ AfterPrune(o) = Idle
    BY <1>1, BecomeOnly DEF Pruned
  <1>2. CASE op[o].kind # "resync" /\ AfterPrune(o) = Turn(op[o], "smoke", {})
             /\ Sound(Turn(op[o], "smoke", {}))
    <2>1. "smoke" \in Pcs /\ {} \in SUBSET Route
      BY DEF Pcs
    <2>2. Become(o, Turn(op[o], "smoke", {}))
      BY <1>2
    <2>3. Only(o) /\ Goes(o, "smoke", {})
      BY <1>0, <1>2, <2>1, <2>2, BecomeGoes
    <2> QED
      BY <1>2, <2>3 DEF Pruned
  <1> QED
    BY <1>0, <1>1, <1>2, AfterPruneIs

LEMMA BecomeUnrouted ==
  ASSUME TypeInv, NEW o \in Ops, op[o].pc \in {"unroute", "delete"}, Become(o, AfterUnroute(o))
  PROVE  Only(o) /\ Unrouted(o)
  <1>0. Sound(op[o])
    BY BusyIsSound
  <1>1. PICK p \in {"remove", "fetch", "update"} :
          /\ AfterUnroute(o) = Turn(op[o], p, {}) /\ Sound(Turn(op[o], p, {}))
          /\ p = "update" => op[o].goal.status # "PUBLISHED"
    BY <1>0, AfterUnrouteIs
  <1>2. p \in Pcs /\ {} \in SUBSET Route
    BY DEF Pcs
  <1>3. Become(o, Turn(op[o], p, {}))
    BY <1>1
  <1>4. Only(o) /\ Goes(o, p, {})
    BY <1>0, <1>1, <1>2, <1>3, BecomeGoes
  <1>5. op[o].kind # "resync"
    BY <1>0, AfterUnrouteIs
  <1> QED
    BY <1>1, <1>4, <1>5 DEF Unrouted

LEMMA BecomeFailed ==
  ASSUME TypeInv, NEW o \in Ops, op[o].pc \in {"put", "prune", "unroute", "delete", "smoke"},
         Become(o, Raised(o))
  PROVE  Only(o) /\ Failed(o)
  <1>0. Sound(op[o])
    BY BusyIsSound
  <1>1. CASE op[o].kind = "resync" /\ Raised(o) = Idle
    BY <1>1, BecomeOnly DEF Failed
  <1>2. CASE op[o].kind = "delete" /\ Sound(Raised(o)) /\ Raised(o) = Turn(op[o], "remove", {})
    <2>1. "remove" \in Pcs /\ {} \in SUBSET Route
      BY DEF Pcs
    <2>2. Become(o, Turn(op[o], "remove", {})) /\ Sound(Turn(op[o], "remove", {}))
      BY <1>2
    <2>3. Only(o) /\ Goes(o, "remove", {})
      BY <1>0, <2>1, <2>2, BecomeGoes
    <2> QED
      BY <1>2, <2>3 DEF Failed
  <1>3. CASE /\ Sound(Raised(o))
             /\ \/ op[o].kind = "resync" /\ Retried(op[o], Raised(o))
                \/ op[o].kind \in {"create", "patch"} /\ Drafted(op[o], Raised(o))
    <2>1. Only(o) /\ op'[o] = Raised(o)
      BY <1>3, BecomeOnly
    <2> QED
      BY <1>3, <2>1 DEF Failed
  <1> QED
    BY <1>0, <1>1, <1>2, <1>3, RaisedIs
\* The start of a request: a fresh record.
Starts(o, kind, row, goal) ==
  /\ op[o].pc = "idle" /\ Only(o) /\ Sound(op'[o])
  /\ op'[o].kind = kind /\ op'[o].row = row /\ op'[o].goal = goal

LEMMA CreateIs ==
  ASSUME TypeInv, NEW o \in Ops, CreateApi(o)
  PROVE  /\ catalog' \in Row /\ Distinct(endpoints') /\ born' \in 0..MaxApis
         /\ Starts(o, "create", catalog', [catalog' EXCEPT !.status = "PUBLISHED"])
         /\ op'[o].pc \in {"list", "put"} /\ op'[o].eps = endpoints'
         /\ op'[o].pc = "list" => endpoints' = {}
         /\ op'[o].todo = Aim(op'[o])
  <1>1. PICK c \in Created :
          /\ catalog' = [id |-> born + 1, status |-> "DRAFT", base |-> c[1]] /\ endpoints' = c[2]
          /\ Become(o, New("create", IF c[2] = {} THEN "list" ELSE "put", catalog',
                           [catalog' EXCEPT !.status = "PUBLISHED"], {"status"}, c[2],
                           RoutesOf(c[1], c[2])))
    BY DEF CreateApi
  <1>2. c[1] \in Bases /\ c[2] \in Endpoints
    BY RouteAssumption
  <1>3. Distinct(c[2])
    BY <1>2, RouteAssumption DEF Distinct
  <1>4. born + 1 \in 1..MaxApis /\ born' = born + 1
    BY RouteAssumption DEF CreateApi, TypeInv, TypeOK
  <1> DEFINE goal == [catalog' EXCEPT !.status = "PUBLISHED"]
             p    == IF c[2] = {} THEN "list" ELSE "put"
             work == RoutesOf(c[1], c[2])
             r    == New("create", p, catalog', goal, {"status"}, c[2], work)
  <1>5. catalog' \in Row /\ goal \in Row /\ goal.id = catalog'.id /\ goal.base = c[1]
        /\ catalog'.base = c[1] /\ goal.status = "PUBLISHED"
    BY <1>1, <1>2, <1>4 DEF Row, Statuses
  <1> HIDE DEF goal
  <1>6. work \in SUBSET Route /\ p \in Pcs /\ c[2] \in (SUBSET Endpoint) \cup {None}
        /\ p \in {"list", "put"} /\ (p = "list" => c[2] = {})
    BY <1>2, <1>3, RoutesTyped DEF Pcs, Distinct
  <1> HIDE DEF p, work
  <1>7. /\ r \in Busy /\ r.pc = p /\ r.kind = "create" /\ r.row = catalog' /\ r.goal = goal
        /\ r.eps = c[2] /\ r.todo = work
    BY <1>5, <1>6, NewTyped
  <1> HIDE DEF r
  <1>8. Aim(r) = work
    BY <1>5, <1>7 DEF Aim, work
  <1>9. Sound(r)
    BY <1>3, <1>5, <1>6, <1>7, <1>8 DEF Sound, Routing
  <1>10. Become(o, r)
    BY <1>1 DEF r, p, work, goal
  <1>11. Only(o) /\ op'[o] = r
    BY <1>9, <1>10, BecomeOnly
  <1>12. Starts(o, "create", catalog', goal)
    BY <1>7, <1>9, <1>11 DEF Starts, CreateApi, At
  <1> QED
    BY <1>1, <1>3, <1>4, <1>5, <1>6, <1>7, <1>8, <1>11, <1>12 DEF goal, TypeInv, TypeOK

LEMMA SyncStepIs ==
  ASSUME NEW row \in Row, NEW goal \in Row
  PROVE  /\ SyncStep(row, goal) \in {"unroute", "fetch", "update"}
         /\ SyncStep(row, goal) = "fetch" => goal.status = "PUBLISHED"
         /\ SyncStep(row, goal) = "update" =>
              goal.status # "PUBLISHED" /\ row.status # "PUBLISHED"
  BY DEF SyncStep

LEMMA PatchIs ==
  ASSUME TypeInv, NEW o \in Ops, PatchApi(o)
  PROVE  \E goal \in Row :
           /\ catalog \in Row /\ Starts(o, "patch", catalog, goal)
           /\ op'[o].pc \in {"replace", "unroute", "fetch", "update"}
           /\ op'[o].pc = "update" =>
                goal = catalog \/ (goal.status # "PUBLISHED" /\ catalog.status # "PUBLISHED")
           /\ op'[o].pc = "replace" => op'[o].eps \in Endpoints
  <1>0. catalog \in Row /\ op[o].pc = "idle"
    BY DEF PatchApi, TypeInv, TypeOK, At
  <1>1. PICK q \in Patches :
          LET goal == [catalog EXCEPT !.status = Given(q.status, @), !.base = Given(q.base, @)] IN
          Become(o, New("patch",
             IF q.endpoints # None THEN "replace"
             ELSE IF goal # catalog THEN SyncStep(catalog, goal) ELSE "update",
             catalog, goal, {c \in {"status", "base"} : q[c] # None}, q.endpoints, {}))
    BY DEF PatchApi
  <1>2. /\ q.status \in Statuses \cup {None} /\ q.base \in Bases \cup {None}
        /\ q.endpoints \in Endpoints \cup {None}
    BY RouteAssumption
  <1> DEFINE goal  == [catalog EXCEPT !.status = Given(q.status, @), !.base = Given(q.base, @)]
             asked == {c \in {"status", "base"} : q[c] # None}
             p     == IF q.endpoints # None THEN "replace"
                      ELSE IF goal # catalog THEN SyncStep(catalog, goal) ELSE "update"
             r     == New("patch", p, catalog, goal, asked, q.endpoints, {})
  <1>3. /\ goal \in Row /\ goal.id = catalog.id
        /\ goal.base # catalog.base => q.base # None
    BY <1>0, <1>2 DEF Row, Given
  <1>4. asked \in SUBSET {"status", "base"} /\ (q.base # None => "base" \in asked)
    OBVIOUS
  <1>5. q.endpoints \in (SUBSET Endpoint) \cup {None} /\ {} \in SUBSET Route
    BY <1>2, RouteAssumption
  <1>6. q.endpoints # None => Distinct(q.endpoints)
    BY <1>2, RouteAssumption DEF Distinct
  <1> HIDE DEF goal, asked
  <1>7. /\ p \in {"replace", "unroute", "fetch", "update"}
        /\ p = "replace" => q.endpoints # None
        /\ p = "fetch" => goal.status = "PUBLISHED"
        /\ p = "update" => goal = catalog
              \/ (goal.status # "PUBLISHED" /\ catalog.status # "PUBLISHED")
    BY <1>0, <1>3, SyncStepIs
  <1> HIDE DEF p
  <1>8. /\ r \in Busy /\ r.pc = p /\ r.kind = "patch" /\ r.row = catalog /\ r.goal = goal
        /\ r.asked = asked /\ r.eps = q.endpoints
    <2>1. p \in Pcs
      BY <1>7 DEF Pcs
    <2> QED
      BY <1>0, <1>3, <1>4, <1>5, <2>1, NewTyped
  <1> HIDE DEF r
  <1>9. Sound(r)
    BY <1>3, <1>4, <1>6, <1>7, <1>8 DEF Sound, Routing
  <1>10. Become(o, r)
    BY <1>1 DEF r, p, asked, goal
  <1>11. Only(o) /\ op'[o] = r
    BY <1>9, <1>10, BecomeOnly
  <1>12. Starts(o, "patch", catalog, goal)
    BY <1>0, <1>8, <1>9, <1>11 DEF Starts
  <1>13. op'[o].pc = "replace" => op'[o].eps \in Endpoints
    BY <1>2, <1>7, <1>8, <1>11
  <1> QED
    BY <1>0, <1>3, <1>7, <1>8, <1>11, <1>12, <1>13

LEMMA DeleteIs ==
  ASSUME TypeInv, NEW o \in Ops, DeleteApi(o)
  PROVE  /\ catalog \in Row /\ Starts(o, "delete", catalog, catalog)
         /\ op'[o].pc \in {"unroute", "remove"}
         /\ op'[o].pc = "remove" => catalog.status # "PUBLISHED"
  <1>0. catalog \in Row /\ op[o].pc = "idle"
    BY DEF DeleteApi, TypeInv, TypeOK, At
  <1> DEFINE p == IF catalog.status = "PUBLISHED" THEN "unroute" ELSE "remove"
             r == New("delete", p, catalog, catalog, {}, None, {})
  <1>1. /\ r \in Busy /\ r.pc = p /\ r.kind = "delete" /\ r.row = catalog /\ r.goal = catalog
    <2>1. p \in Pcs /\ {} \in SUBSET {"status", "base"} /\ {} \in SUBSET Route
          /\ None \in (SUBSET Endpoint) \cup {None}
      BY DEF Pcs
    <2> QED
      BY <1>0, <2>1, NewTyped
  <1>2. Become(o, r)
    BY DEF DeleteApi
  <1> HIDE DEF r
  <1>3. Sound(r)
    BY <1>1 DEF Sound, Routing
  <1>4. Only(o) /\ op'[o] = r
    BY <1>2, <1>3, BecomeOnly
  <1> QED
    BY <1>0, <1>1, <1>3, <1>4 DEF Starts

LEMMA ResyncIs ==
  ASSUME TypeInv, NEW o \in Ops, Resync(o)
  PROVE  /\ catalog \in Row /\ Starts(o, "resync", catalog, catalog)
         /\ op'[o].pc = "fetch" /\ catalog.status = "PUBLISHED"
  <1>0. catalog \in Row /\ op[o].pc = "idle" /\ catalog.status = "PUBLISHED"
    BY DEF Resync, TypeInv, TypeOK, At
  <1> DEFINE r == New("resync", "fetch", catalog, catalog, {}, None, {})
  <1>1. /\ r \in Busy /\ r.pc = "fetch" /\ r.kind = "resync" /\ r.row = catalog
        /\ r.goal = catalog /\ r.tries >= 1
    <2>1. "fetch" \in Pcs /\ {} \in SUBSET {"status", "base"} /\ {} \in SUBSET Route
          /\ None \in (SUBSET Endpoint) \cup {None}
      BY DEF Pcs
    <2> QED
      BY <1>0, <2>1, NewTyped
  <1>2. Become(o, r)
    BY DEF Resync
  <1> HIDE DEF r
  <1>3. Sound(r)
    BY <1>0, <1>1 DEF Sound, Routing
  <1>4. Only(o) /\ op'[o] = r
    BY <1>2, <1>3, BecomeOnly
  <1> QED
    BY <1>0, <1>1, <1>3, <1>4 DEF Starts
LEMMA IdleKept == [Idle EXCEPT !.pc = Idle.pc] = Idle
  BY DEF Idle

LEMMA PcTurned ==
  ASSUME NEW r \in Busy, NEW p \in Pcs
  PROVE  [r EXCEPT !.pc = p] = Turn(r, p, r.todo)
  BY DEF Turn, Busy

LEMMA ReplaceIs ==
  ASSUME TypeInv, NEW o \in Ops, Replace(o)
  PROVE  /\ op' \in [Ops -> Op] /\ \A p \in Ops : op'[p] = Idle \/ Sound(op'[p])
         /\ Distinct(endpoints')
         /\ \A p \in Ops \ {o} :
              op'[p] = op[p] \/ (/\ op[p].pc = "replace" /\ op'[p].pc = "merge"
                                /\ op'[p].eps = op[p].eps)
         /\ op'[o].pc \notin {"replace", "merge"}
         /\ op[o].pc = "replace" => endpoints' \in {op[o].eps, endpoints}
         /\ op[o].pc = "replace" /\ Exists(o) =>
              /\ endpoints' = op[o].eps
              /\ Goes(o, SyncStep(op[o].row, op[o].goal), op[o].todo)
  <1> DEFINE left == IF At(o, "merge") THEN endpoints ELSE {}
             step == SyncStep(op[o].row, op[o].goal)
  <1>0. Sound(op[o]) /\ op[o].pc \in {"replace", "merge"} /\ op[o] \in Busy
    BY BusyIsSound DEF Replace, At, Sound
  <1>1. Distinct(op[o].eps) /\ Distinct(endpoints) /\ op \in [Ops -> Op]
    BY <1>0 DEF Sound, TypeInv, TypeOK
  <1>2. CASE Exists(o) /\ ~\E d \in left, e \in op[o].eps : d.pattern = e.pattern
    <2>1. endpoints' = left \cup op[o].eps
      BY <1>2 DEF Replace
    <2>2. PICK late \in SUBSET {p \in Ops \ {o} : At(p, "replace")} :
            op' = [p \in Ops |-> [op[p] EXCEPT !.pc = CASE p = o -> step
                                                        [] p \in late -> "merge"
                                                        [] OTHER -> @]]
      BY <1>2 DEF Replace
    <2>3. /\ step \in {"unroute", "fetch", "update"}
          /\ step = "fetch" => op[o].goal.status = "PUBLISHED"
      BY <1>0, SyncStepIs DEF Busy
    <2> HIDE DEF left, step
    <2>4. Sound(op'[o]) /\ Goes(o, step, op[o].todo)
      <3>1. op'[o] = [op[o] EXCEPT !.pc = step]
        BY <2>2
      <3>2. step \in Pcs /\ op[o].todo \in SUBSET Route
        BY <1>0, <2>3 DEF Pcs, Busy
      <3>3. op'[o] = Turn(op[o], step, op[o].todo)
        BY <1>0, <3>1, <3>2, PcTurned
      <3>4. op[o].kind # "resync" /\ op[o].kind # "delete"
        BY <1>0 DEF Sound
      <3>5. Sound(Turn(op[o], step, op[o].todo))
        BY <1>0, <1>1, <2>3, <3>2, <3>4, TurnSound DEF Routing
      <3> QED
        BY <1>0, <3>2, <3>3, <3>5, Turned DEF Goes
    <2>5. ASSUME NEW p \in late
          PROVE  /\ Sound(op'[p]) /\ op[p].pc = "replace" /\ op'[p].pc = "merge"
                 /\ op'[p].eps = op[p].eps
      <3>1. p \in Ops /\ p # o /\ op[p].pc = "replace"
        BY DEF At
      <3>2. op'[p] = [op[p] EXCEPT !.pc = "merge"]
        BY <2>2, <3>1
      <3>3. Sound(op[p]) /\ op[p] \in Busy /\ op[p].todo \in SUBSET Route /\ "merge" \in Pcs
        BY <3>1, BusyIsSound DEF Sound, Pcs, Busy
      <3>4. op'[p] = Turn(op[p], "merge", op[p].todo)
        BY <3>2, <3>3, PcTurned
      <3>5. op[p].kind # "resync" /\ op[p].kind # "delete" /\ Distinct(op[p].eps)
        BY <3>1, <3>3 DEF Sound
      <3>6. Sound(Turn(op[p], "merge", op[p].todo))
        BY <3>3, <3>5, TurnSound DEF Routing
      <3> QED
        BY <3>1, <3>3, <3>4, <3>6, Turned
    <2>6. ASSUME NEW p \in Ops, p # o, p \notin late
          PROVE  op'[p] = op[p]
      <3>1. op'[p] = [op[p] EXCEPT !.pc = op[p].pc]
        BY <2>2, <2>6
      <3>2. CASE op[p] = Idle
        BY <3>1, <3>2, IdleKept
      <3>3. CASE Sound(op[p])
        <4>1. op[p] \in Busy
          BY <3>3 DEF Sound
        <4> QED
          BY <3>1, <4>1 DEF Busy
      <3> QED
        BY <3>2, <3>3 DEF TypeInv
    <2>7. ASSUME NEW p \in Ops
          PROVE  op'[p] = Idle \/ Sound(op'[p])
      BY <2>4, <2>5, <2>6 DEF TypeInv
    <2>8. op' \in [Ops -> Op]
      <3>1. \A p \in Ops : op'[p] \in Op
        BY <2>7 DEF Op, Sound, Busy, Pcs
      <3> QED
        BY <2>2, <3>1
    <2>9. Distinct(endpoints')
      BY <1>1, <1>2, <2>1 DEF Distinct, left
    <2>10. op[o].pc = "replace" => endpoints' = op[o].eps
      BY <2>1 DEF left, At
    <2>11. op'[o].pc \notin {"replace", "merge"}
      BY <2>3, <2>4 DEF Goes
    <2> QED
      BY <2>4, <2>5, <2>6, <2>7, <2>8, <2>9, <2>10, <2>11 DEF step
  <1>3. CASE ~(Exists(o) /\ ~\E d \in left, e \in op[o].eps : d.pattern = e.pattern)
    <2>1. Become(o, Idle) /\ endpoints' = endpoints
      BY <1>3 DEF Replace
    <2>2. Only(o) /\ op'[o] = Idle
      BY <2>1, BecomeOnly
    <2>3. ~(op[o].pc = "replace" /\ Exists(o))
      BY <1>3 DEF At
    <2> QED
      BY <1>1, <2>1, <2>2, <2>3 DEF Only, TypeInv, Idle
  <1> QED
    BY <1>2, <1>3
LEMMA FetchIs ==
  ASSUME TypeInv, NEW o \in Ops, Fetch(o)
  PROVE  /\ Sound(op[o]) /\ op[o].pc = "fetch" /\ Only(o) /\ Sound(op'[o])
         /\ op'[o].kind = op[o].kind /\ op'[o].row = op[o].row /\ op'[o].goal = op[o].goal
         /\ Exists(o) => op'[o].eps = endpoints
         /\ op'[o].todo = Aim(op'[o]) /\ op'[o].pc \in {"list", "put"}
         /\ op'[o].pc = "list" => Aim(op'[o]) = {}
  <1> DEFINE r    == op[o]
             eps  == IF Exists(o) THEN endpoints ELSE {}
             work == RoutesOf(r.goal.base, eps)
             c    == [r EXCEPT !.eps = eps, !.todo = work, !.pc = IF eps = {} THEN "list" ELSE "put"]
  <1>0. Sound(r) /\ r \in Busy /\ r.pc = "fetch" /\ r.goal.base \in Bases
    BY BusyIsSound DEF Fetch, At, Sound, Busy, Row
  <1>1. Distinct(eps) /\ eps \in SUBSET Endpoint
    BY DEF TypeInv, Distinct
  <1>2. work \in SUBSET Route /\ (eps = {} => work = {})
    BY <1>0, <1>1, RoutesTyped DEF RoutesOf
  <1>3. Become(o, c)
    BY DEF Fetch
  <1> HIDE DEF eps, work
  <1>4. /\ c \in Busy /\ c.pc = (IF eps = {} THEN "list" ELSE "put") /\ c.todo = work /\ c.eps = eps
        /\ c.kind = r.kind /\ c.row = r.row /\ c.goal = r.goal /\ c.asked = r.asked
        /\ c.tries = r.tries
    BY <1>0, <1>1, <1>2 DEF Busy, Pcs
  <1> HIDE DEF c
  <1>5. Aim(c) = work
    BY <1>4 DEF Aim, work
  <1>6. Sound(c)
    BY <1>0, <1>1, <1>2, <1>4, <1>5 DEF Sound, Routing
  <1>7. Only(o) /\ op'[o] = c
    BY <1>3, <1>6, BecomeOnly
  <1> QED
    BY <1>0, <1>2, <1>4, <1>5, <1>6, <1>7 DEF eps

\* A call for one of the routes is made; the last one leads on.
LEMMA PutIs ==
  ASSUME TypeInv, NEW o \in Ops, Put(o)
  PROVE  /\ Sound(op[o]) /\ op[o].pc = "put" /\ Only(o)
         /\ \E s \in op[o].todo :
              /\ routes' = WithRoute(s)
              /\ \/ Goes(o, "put", op[o].todo \ {s})
                 \/ Goes(o, "list", {}) /\ op[o].todo \ {s} = {}
  <1>0. Sound(op[o]) /\ op[o] \in Busy /\ op[o].pc = "put"
    BY BusyIsSound DEF Put, At, Sound
  <1>1. PICK s \in op[o].todo :
          /\ routes' = WithRoute(s)
          /\ Work(o, "put", op[o].todo \ {s}, Clear([op[o] EXCEPT !.pc = "list"]))
    BY DEF Put
  <1>2. /\ op[o].todo \ {s} \in SUBSET Route /\ {} \in SUBSET Route
        /\ Distinct(op[o].eps) /\ op[o].goal.status = "PUBLISHED" /\ op[o].kind # "delete"
        /\ op[o].todo \subseteq Aim(op[o])
    BY <1>0 DEF Sound, Busy, Routing
  <1>3. CASE op[o].todo \ {s} = {}
    <2>1. Become(o, Turn(op[o], "list", {}))
      BY <1>1, <1>3 DEF Work, Clear, Turn
    <2>2. Sound(Turn(op[o], "list", {})) /\ "list" \in Pcs
      BY <1>0, <1>2, TurnSound DEF Pcs, Routing
    <2> QED
      BY <1>0, <1>1, <1>2, <1>3, <2>1, <2>2, BecomeGoes
  <1>4. CASE op[o].todo \ {s} # {}
    <2>1. Become(o, Turn(op[o], "put", op[o].todo \ {s}))
      BY <1>1, <1>4 DEF Work, Turn
    <2>2. Sound(Turn(op[o], "put", op[o].todo \ {s})) /\ "put" \in Pcs
      BY <1>0, <1>2, TurnSound DEF Pcs, Routing
    <2> QED
      BY <1>0, <1>1, <1>2, <2>1, <2>2, BecomeGoes
  <1> QED
    BY <1>3, <1>4

LEMMA ListAllIs ==
  ASSUME TypeInv, NEW o \in Ops, ListAll(o)
  PROVE  /\ Sound(op[o]) /\ op[o].pc = "list" /\ Only(o)
         /\ \/ Goes(o, "prune", Orphans(o))
            \/ Orphans(o) = {} /\ Pruned(o)
  <1>0. Sound(op[o]) /\ op[o] \in Busy /\ op[o].pc = "list"
    BY BusyIsSound DEF ListAll, At, Sound
  <1>1. Work(o, "prune", Orphans(o), AfterPrune(o))
    BY DEF ListAll
  <1>2. CASE Orphans(o) = {}
    BY <1>0, <1>1, <1>2, BecomePruned DEF Work
  <1>3. CASE Orphans(o) # {}
    <2>1. Become(o, Turn(op[o], "prune", Orphans(o)))
      BY <1>1, <1>3 DEF Work, Turn
    <2>2. Orphans(o) \in SUBSET Route
      BY DEF Orphans, TypeInv, TypeOK
    <2>3. \A t \in Aim(op[o]), s \in Orphans(o) : ~SameId(t, s)
      BY DEF Orphans, Aim
    <2>4. Distinct(op[o].eps) /\ op[o].goal.status = "PUBLISHED" /\ op[o].kind # "delete"
      BY <1>0 DEF Sound, Routing
    <2>5. Sound(Turn(op[o], "prune", Orphans(o))) /\ "prune" \in Pcs
      BY <1>0, <2>2, <2>3, <2>4, TurnSound DEF Pcs, Routing
    <2> QED
      BY <1>0, <2>1, <2>2, <2>5, BecomeGoes
  <1> QED
    BY <1>2, <1>3

LEMMA ListOwnIs ==
  ASSUME TypeInv, NEW o \in Ops, ListOwn(o)
  PROVE  /\ Sound(op[o]) /\ op[o].pc = "unroute" /\ Only(o)
         /\ \/ Goes(o, "delete", routes)
            \/ routes = {} /\ Unrouted(o)
  <1>0. Sound(op[o]) /\ op[o] \in Busy /\ op[o].pc = "unroute"
    BY BusyIsSound DEF ListOwn, At, Sound
  <1>1. Work(o, "delete", routes, AfterUnroute(o))
    BY DEF ListOwn
  <1>2. CASE routes = {}
    BY <1>0, <1>1, <1>2, BecomeUnrouted DEF Work
  <1>3. CASE routes # {}
    <2>1. Become(o, Turn(op[o], "delete", routes))
      BY <1>1, <1>3 DEF Work, Turn
    <2>2. routes \in SUBSET Route
      BY DEF TypeInv, TypeOK
    <2>3. op[o].kind # "resync"
      BY <1>0 DEF Sound
    <2>4. Sound(Turn(op[o], "delete", routes)) /\ "delete" \in Pcs
      BY <1>0, <2>2, <2>3, TurnSound DEF Pcs, Routing
    <2> QED
      BY <1>0, <2>1, <2>2, <2>4, BecomeGoes
  <1> QED
    BY <1>2, <1>3

LEMMA DeleteRouteIs ==
  ASSUME TypeInv, NEW o \in Ops, DeleteRoute(o)
  PROVE  /\ Sound(op[o]) /\ op[o].pc \in {"prune", "delete"} /\ Only(o)
         /\ \E s \in op[o].todo :
              /\ routes' = WithoutRoute(s)
              /\ \/ Goes(o, op[o].pc, op[o].todo \ {s})
                 \/ /\ op[o].todo \ {s} = {}
                    /\ \/ op[o].pc = "prune" /\ Pruned(o)
                       \/ op[o].pc = "delete" /\ Unrouted(o)
  <1>0. Sound(op[o]) /\ op[o] \in Busy /\ op[o].pc \in {"prune", "delete"}
    BY BusyIsSound DEF DeleteRoute, At, Sound
  <1>1. PICK s \in op[o].todo :
          /\ routes' = WithoutRoute(s)
          /\ Work(o, op[o].pc, op[o].todo \ {s},
                  IF At(o, "prune") THEN AfterPrune(o) ELSE AfterUnroute(o))
    BY DEF DeleteRoute
  <1>2. CASE op[o].todo \ {s} # {}
    <2>1. Become(o, Turn(op[o], op[o].pc, op[o].todo \ {s}))
      BY <1>0, <1>1, <1>2 DEF Work, Turn, Busy
    <2>2. op[o].todo \ {s} \in SUBSET Route /\ op[o].pc \in Pcs
      BY <1>0 DEF Busy
    <2>3. /\ op[o].pc = "prune" => Distinct(op[o].eps) /\ op[o].goal.status = "PUBLISHED"
          /\ op[o].pc = "prune" => \A t \in Aim(op[o]), x \in op[o].todo \ {s} : ~SameId(t, x)
          /\ op[o].kind = "delete" => op[o].pc = "delete"
          /\ op[o].kind = "resync" => op[o].pc = "prune"
      BY <1>0 DEF Sound, Routing
    <2>4. Sound(Turn(op[o], op[o].pc, op[o].todo \ {s}))
      BY <1>0, <2>2, <2>3, TurnSound DEF Routing
    <2> QED
      BY <1>0, <1>1, <2>1, <2>2, <2>4, BecomeGoes
  <1>3. CASE op[o].todo \ {s} = {} /\ op[o].pc = "prune"
    <2>1. Become(o, AfterPrune(o))
      BY <1>1, <1>3 DEF Work, At
    <2> QED
      BY <1>0, <1>1, <1>3, <2>1, BecomePruned
  <1>4. CASE op[o].todo \ {s} = {} /\ op[o].pc = "delete"
    <2>1. Become(o, AfterUnroute(o))
      BY <1>1, <1>4 DEF Work, At
    <2> QED
      BY <1>0, <1>1, <1>4, <2>1, BecomeUnrouted
  <1> QED
    BY <1>0, <1>2, <1>3, <1>4

LEMMA SmokePassesIs ==
  ASSUME TypeInv, NEW o \in Ops, SmokePasses(o)
  PROVE  Sound(op[o]) /\ op[o].pc = "smoke" /\ Only(o) /\ Goes(o, "update", op[o].todo)
  <1>0. Sound(op[o]) /\ op[o] \in Busy /\ op[o].pc = "smoke" /\ op[o].todo \in SUBSET Route
    BY BusyIsSound DEF SmokePasses, At, Sound, Busy
  <1>1. "update" \in Pcs /\ op[o].kind # "resync" /\ op[o].kind # "delete"
    BY <1>0 DEF Sound, Pcs
  <1>2. [op EXCEPT ![o].pc = "update"] = [op EXCEPT ![o] = [op[o] EXCEPT !.pc = "update"]]
    OBVIOUS
  <1>3. Become(o, Turn(op[o], "update", op[o].todo))
    BY <1>0, <1>1, <1>2, PcTurned DEF SmokePasses, Goto, Become
  <1>4. Sound(Turn(op[o], "update", op[o].todo))
    BY <1>0, <1>1, TurnSound DEF Routing
  <1> QED
    BY <1>0, <1>1, <1>3, <1>4, BecomeGoes

LEMMA SmokeFailsIs ==
  ASSUME TypeInv, NEW o \in Ops, SmokeFails(o)
  PROVE  Sound(op[o]) /\ op[o].pc = "smoke" /\ Only(o) /\ Failed(o)
  BY BusyIsSound, BecomeFailed DEF SmokeFails, At

LEMMA EndIs ==
  ASSUME TypeInv, NEW o \in Ops, op[o].pc # "idle", Become(o, Idle)
  PROVE  Sound(op[o]) /\ Only(o) /\ op'[o] = Idle
  BY BusyIsSound, BecomeOnly

LEMMA CallFailsIs ==
  ASSUME TypeInv, NEW o \in Ops, CallFails(o)
  PROVE  /\ Sound(op[o]) /\ op[o].pc \in {"put", "prune", "delete"} /\ Only(o) /\ Failed(o)
         /\ \E s \in op[o].todo :
              \/ routes' = routes
              \/ op[o].pc = "put" /\ routes' = WithRoute(s)
              \/ op[o].pc # "put" /\ routes' = WithoutRoute(s)
  BY BusyIsSound, BecomeFailed DEF CallFails, At

LEMMA ListFailsIs ==
  ASSUME TypeInv, NEW o \in Ops, ListFails(o)
  PROVE  /\ Sound(op[o]) /\ Only(o)
         /\ \/ op[o].pc = "list" /\ Pruned(o)
            \/ op[o].pc = "unroute" /\ (Unrouted(o) \/ Failed(o))
  BY BusyIsSound, BecomePruned, BecomeUnrouted, BecomeFailed DEF ListFails, At
-----------------------------------------------------------------------------
(* The types.                                                              *)

Acts(o) == Start(o) \/ Step(o) \/ CallFails(o) \/ ListFails(o) \/ Abort(o)

\* Whoever acts, a request that stands by stays as it is, unless it is about to
\* replace the endpoints.
Moved(o) ==
  /\ op' \in [Ops -> Op] /\ \A p \in Ops : op'[p] = Idle \/ Sound(op'[p])
  /\ Active(o) \/ op'[o].pc # "idle"
  /\ \A p \in Ops \ {o} : op'[p] = op[p] \/ (op[p].pc = "replace" /\ op'[p].pc = "merge")

LEMMA OnlyMoves ==
  ASSUME TypeInv, NEW o \in Ops, Only(o), Active(o) \/ op'[o].pc # "idle"
  PROVE  Moved(o)
  BY DEF Only, Moved, TypeInv

LEMMA StartsMoves ==
  ASSUME TypeInv, NEW o \in Ops, NEW kind, NEW row, NEW goal, Starts(o, kind, row, goal)
  PROVE  Moved(o) /\ op'[o].pc # "idle"
  BY OnlyMoves DEF Starts, Sound, Busy, Pcs

LEMMA ActsMoves ==
  ASSUME TypeInv, NEW o \in Ops, Acts(o)
  PROVE  Moved(o)
  <1>1. CASE CreateApi(o)
    BY <1>1, CreateIs, StartsMoves
  <1>2. CASE PatchApi(o)
    BY <1>2, PatchIs, StartsMoves
  <1>3. CASE DeleteApi(o)
    BY <1>3, DeleteIs, StartsMoves
  <1>4. CASE Resync(o)
    BY <1>4, ResyncIs, StartsMoves
  <1>5. CASE Replace(o)
    <2>1. Active(o)
      BY <1>5 DEF Replace, At, Active
    <2> QED
      BY <1>5, <2>1, ReplaceIs DEF Moved
  <1>6. CASE Fetch(o)
    BY <1>6, FetchIs, OnlyMoves DEF Active, At
  <1>7. CASE Put(o)
    BY <1>7, PutIs, OnlyMoves DEF Active, At
  <1>8. CASE ListAll(o)
    BY <1>8, ListAllIs, OnlyMoves DEF Active, At
  <1>9. CASE ListOwn(o)
    BY <1>9, ListOwnIs, OnlyMoves DEF Active, At
  <1>10. CASE DeleteRoute(o)
    BY <1>10, DeleteRouteIs, OnlyMoves DEF Active, At
  <1>11. CASE SmokePasses(o)
    BY <1>11, SmokePassesIs, OnlyMoves DEF Active, At
  <1>12. CASE SmokeFails(o)
    BY <1>12, SmokeFailsIs, OnlyMoves DEF Active, At
  <1>13. CASE Update(o) \/ RemoveRow(o) \/ Abort(o)
    <2>1. Active(o) /\ Become(o, Idle)
      BY <1>13 DEF Update, RemoveRow, Abort, Active, At
    <2> QED
      BY <2>1, EndIs, OnlyMoves DEF Active, At
  <1>14. CASE CallFails(o)
    BY <1>14, CallFailsIs, OnlyMoves DEF Active, At
  <1>15. CASE ListFails(o)
    BY <1>15, ListFailsIs, OnlyMoves DEF Active, At
  <1> QED
    BY <1>1, <1>2, <1>3, <1>4, <1>5, <1>6, <1>7, <1>8, <1>9, <1>10, <1>11, <1>12, <1>13,
       <1>14, <1>15 DEF Acts, Start, Step

LEMMA WithRouteTyped ==
  ASSUME TypeInv, NEW s \in Route
  PROVE  /\ WithRoute(s) \in SUBSET Route
         /\ \A r, q \in WithRoute(s) : SameId(r, q) => r = q
         /\ WithoutRoute(s) \in SUBSET Route
         /\ \A r, q \in WithoutRoute(s) : SameId(r, q) => r = q
  BY DEF WithRoute, WithoutRoute, TypeInv, TypeOK, SameId

RoutesOK == routes \in SUBSET Route /\ \A r, s \in routes : SameId(r, s) => r = s

LEMMA ActsRoutes ==
  ASSUME TypeInv, NEW o \in Ops, Acts(o)
  PROVE  RoutesOK'
  <1>0. RoutesOK
    BY DEF TypeInv, TypeOK, RoutesOK
  <1>1. ASSUME NEW s \in op[o].todo, Sound(op[o]),
               routes' \in {routes, WithRoute(s), WithoutRoute(s)}
        PROVE  RoutesOK'
    <2>1. s \in Route
      BY <1>1 DEF Sound, Busy
    <2> QED
      BY <1>0, <1>1, <2>1, WithRouteTyped DEF RoutesOK
  <1>2. CASE Put(o)
    BY <1>1, <1>2, PutIs
  <1>3. CASE DeleteRoute(o)
    BY <1>1, <1>3, DeleteRouteIs
  <1>4. CASE CallFails(o)
    BY <1>1, <1>4, CallFailsIs
  <1>5. CASE ~(Put(o) \/ DeleteRoute(o) \/ CallFails(o))
    <2>1. routes' = routes
      BY <1>5 DEF Acts, Start, CreateApi, PatchApi, DeleteApi, Resync, Step, Replace, Fetch, ListAll,
                  ListOwn, SmokePasses, SmokeFails, Update, RemoveRow, ListFails, Abort
    <2> QED
      BY <1>0, <2>1 DEF RoutesOK
  <1> QED
    BY <1>2, <1>3, <1>4, <1>5

LEMMA UpdateWrites ==
  ASSUME TypeInv, NEW o \in Ops, Update(o)
  PROVE  /\ catalog' \in Row \cup {None}
         /\ Exists(o) /\ catalog = op[o].row => catalog' = op[o].goal
  <1>0. Sound(op[o]) /\ op[o] \in Busy /\ catalog \in Row \cup {None}
    BY BusyIsSound DEF Update, At, Sound, TypeInv, TypeOK
  <1>1. CASE ~Exists(o)
    BY <1>0, <1>1 DEF Update
  <1>2. CASE Exists(o)
    <2> DEFINE r       == op[o]
               written == r.asked \cup (IF r.goal.status # r.row.status THEN {"status"} ELSE {})
               status  == IF "status" \in written THEN r.goal.status ELSE catalog.status
               base    == IF "base" \in written THEN r.goal.base ELSE catalog.base
    <2>1. catalog \in Row /\ r.goal \in Row /\ r.row \in Row
      BY <1>0, <1>2 DEF Exists, Busy
    <2>2. catalog' = [catalog EXCEPT !.status = status, !.base = base]
      BY <1>2 DEF Update
    <2>3. status \in Statuses /\ base \in Bases
      BY <2>1 DEF Row
    <2>4. catalog = r.row => status = r.goal.status /\ base = r.goal.base /\ catalog.id = r.goal.id
      BY <1>0 DEF Sound
    <2> HIDE DEF status, base
    <2>5. catalog' \in Row
      BY <2>1, <2>2, <2>3 DEF Row
    <2>6. catalog = r.row => catalog' = r.goal
      BY <2>1, <2>2, <2>4 DEF Row
    <2> QED
      BY <2>5, <2>6
  <1> QED
    BY <1>1, <1>2

LEMMA StepsFaultless ==
  ASSUME NEW o \in Ops, Start(o) \/ Step(o)
  PROVE  faults' = faults
  BY DEF Start, CreateApi, PatchApi, DeleteApi, Resync, Step, Replace, Fetch, Put, ListAll, ListOwn,
         DeleteRoute, SmokePasses, SmokeFails, Update, RemoveRow

LEMMA ActsTyped ==
  ASSUME TypeInv, NEW o \in Ops, Acts(o)
  PROVE  TypeInv'
  <1>0. /\ catalog \in Row \cup {None} /\ Distinct(endpoints) /\ born \in 0..MaxApis
        /\ faults \in 0..MaxFaults
    BY DEF TypeInv, TypeOK
  <1>1. Moved(o) /\ RoutesOK'
    BY ActsMoves, ActsRoutes
  <1>2. faults' \in 0..MaxFaults
    <2>1. CASE CallFails(o) \/ ListFails(o) \/ Abort(o)
      BY <1>0, <2>1, RouteAssumption DEF CallFails, ListFails, Abort, Fault
    <2>2. CASE Start(o) \/ Step(o)
      BY <1>0, <2>2, StepsFaultless
    <2> QED
      BY <2>1, <2>2 DEF Acts
  <1>3. catalog' \in Row \cup {None} /\ Distinct(endpoints') /\ born' \in 0..MaxApis
    <2>1. CASE CreateApi(o)
      BY <2>1, CreateIs
    <2>2. CASE Replace(o)
      BY <1>0, <2>2, ReplaceIs DEF Replace
    <2>3. CASE Update(o)
      BY <1>0, <2>3, UpdateWrites DEF Update
    <2>4. CASE RemoveRow(o)
      <3>1. Distinct({})
        BY DEF Distinct
      <3> QED
        BY <1>0, <2>4, <3>1 DEF RemoveRow
    <2>5. CASE ~(CreateApi(o) \/ Replace(o) \/ Update(o) \/ RemoveRow(o))
      <3>1. UNCHANGED <<catalog, endpoints, born>>
        BY <2>5 DEF Acts, Start, PatchApi, DeleteApi, Resync, Step, Fetch, Put, ListAll, ListOwn,
                    DeleteRoute, SmokePasses, SmokeFails, CallFails, ListFails, Abort
      <3> QED
        BY <1>0, <3>1
    <2> QED
      BY <2>1, <2>2, <2>3, <2>4, <2>5
  <1>4. endpoints' \in SUBSET Endpoint
    BY <1>3 DEF Distinct
  <1> QED
    BY <1>1, <1>2, <1>3, <1>4 DEF TypeInv, TypeOK, Moved, RoutesOK

LEMMA LostTyped ==
  ASSUME TypeInv, RoutesLost
  PROVE  TypeInv'
  BY RouteAssumption DEF RoutesLost, Fault, TypeInv, TypeOK

LEMMA NextTyped == TypeInv /\ [Next]_vars => TypeInv'
  <1> SUFFICES ASSUME TypeInv, [Next]_vars
               PROVE  TypeInv'
    OBVIOUS
  <1>1. CASE UNCHANGED vars
    BY <1>1 DEF vars, TypeInv, TypeOK
  <1>2. CASE Next
    BY <1>2, ActsTyped, LostTyped DEF Next, Acts
  <1> QED
    BY <1>1, <1>2

LEMMA InitTyped == Init => TypeInv
  BY RouteAssumption DEF Init, TypeInv, TypeOK, Distinct, Op
-----------------------------------------------------------------------------
(* The history.                                                            *)

\* What a request carries after this step.
Now(o) == IF Active(o) THEN marks[o] \cup Befell(o) ELSE {}
Race   == If(Overlap, "raced")
Ends   == {Now(o) \cup Race : o \in {p \in Ops : Active(p) /\ op'[p].pc = "idle"}}

LEMMA TrackIs ==
  ASSUME Track
  PROVE  /\ marks' = [o \in Ops |-> IF op'[o].pc # "idle" THEN Now(o) \cup Race ELSE {}]
         /\ blame' = IF {"listed"} \in Ends THEN {}
                     ELSE blame \cup ((UNION Ends) \cap Mishaps)
                                \cup If(op' = op \/ "raced" \in UNION Ends, "disturbed")
  BY Zenon DEF Track, Now, Race, Ends

LEMMA BefellTyped ==
  ASSUME NEW o \in Ops
  PROVE  /\ Befell(o) \subseteq {"failed", "disturbed", "listed"}
         /\ op' = op => Befell(o) = {"disturbed"}
  <1>1. CASE op' = op
    BY <1>1 DEF Befell
  <1>2. CASE op' # op /\ op'[o] = op[o]
    BY <1>2 DEF Befell
  <1>3. CASE op' # op /\ op'[o] # op[o] /\ faults' # faults
    BY <1>3 DEF Befell, If
  <1>4. CASE op' # op /\ op'[o] # op[o] /\ ~(faults' # faults)
    BY <1>4 DEF Befell, If
  <1> QED
    BY <1>1, <1>2, <1>3, <1>4

LEMMA TrackTyped ==
  ASSUME HistoryTyped, Track
  PROVE  HistoryTyped'
  <1>1. Race \subseteq Marks
    BY DEF Race, If, Marks
  <1>2. \A o \in Ops : Now(o) \subseteq Marks
    BY BefellTyped DEF Now, Marks, HistoryTyped
  <1>3. marks' \in [Ops -> SUBSET Marks]
    BY <1>1, <1>2, TrackIs
  <1>4. blame' \in SUBSET Mishaps
    <2>1. If(op' = op \/ "raced" \in UNION Ends, "disturbed") \subseteq Mishaps
      BY DEF If, Mishaps
    <2>2. (UNION Ends) \cap Mishaps \subseteq Mishaps /\ blame \subseteq Mishaps
      BY DEF HistoryTyped
    <2>3. CASE {"listed"} \in Ends
      BY <2>3, TrackIs
    <2>4. CASE {"listed"} \notin Ends
      <3>1. blame' = blame \cup ((UNION Ends) \cap Mishaps)
                           \cup If(op' = op \/ "raced" \in UNION Ends, "disturbed")
        BY <2>4, TrackIs, Zenon
      <3> QED
        BY <2>1, <2>2, <3>1
    <2> QED
      BY <2>3, <2>4
  <1> QED
    BY <1>3, <1>4 DEF HistoryTyped

LEMMA AlwaysTyped == HSpec => [](TypeInv /\ HistoryTyped)
  <1>1. HInit => TypeInv /\ HistoryTyped
    BY InitTyped DEF HInit, HistoryTyped
  <1>2. TypeInv /\ HistoryTyped /\ [HNext]_hvars => (TypeInv /\ HistoryTyped)'
    <2>1. CASE UNCHANGED hvars
      BY <2>1, NextTyped DEF hvars, HistoryTyped
    <2>2. CASE HNext
      BY <2>2, NextTyped, TrackTyped DEF HNext
    <2> QED
      BY <2>1, <2>2
  <1> QED
    BY <1>1, <1>2, PTL DEF HSpec

\* The entry, its endpoints and routes, the requests in progress and the history
\* hold what their types say; no two routes have one id.
THEOREM RouteTypes == HSpec => []HTypeOK
  <1>1. TypeInv /\ HistoryTyped => HTypeOK
    BY DEF TypeInv, HistoryTyped, HTypeOK
  <1> QED
    BY <1>1, AlwaysTyped, PTL

-----------------------------------------------------------------------------
(* Requests that are not raced are alone.                                  *)

LEMMA FewKept ==
  ASSUME TypeInv, Few, NEW o \in Ops, Moved(o)
  PROVE  /\ Few'
         /\ IsFiniteSet({p \in Ops : Active(p) \/ op'[p].pc # "idle"})
  <1> DEFINE S == {p \in Ops : Active(p)}
  <1>1. IsFiniteSet(S \cup {o})
    BY FS_AddElement DEF Few
  <1>2. {p \in Ops : Active(p) \/ op'[p].pc # "idle"} \in SUBSET (S \cup {o})
    BY DEF Moved, Active, At
  <1>3. {p \in Ops : Active(p)}' \in SUBSET (S \cup {o})
    BY DEF Moved, Active, At
  <1> HIDE DEF S
  <1>4. IsFiniteSet({p \in Ops : Active(p) \/ op'[p].pc # "idle"})
    BY <1>1, <1>2, FS_Subset
  <1>5. IsFiniteSet({p \in Ops : Active(p)}')
    BY <1>1, <1>3, FS_Subset
  <1> QED
    BY <1>4, <1>5 DEF Few

LEMMA TwoOverlap ==
  ASSUME NEW S, IsFiniteSet(S), NEW o \in S, NEW p \in S, o # p
  PROVE  Cardinality(S) > 1
  <1>1. IsFiniteSet({o}) /\ Cardinality({o}) = 1
    BY FS_Singleton
  <1>2. IsFiniteSet({o} \cup {p}) /\ Cardinality({o} \cup {p}) = 2
    <2>1. /\ IsFiniteSet({o} \cup {p})
          /\ Cardinality({o} \cup {p}) =
               IF p \in {o} THEN Cardinality({o}) ELSE Cardinality({o}) + 1
      BY <1>1, FS_AddElement, Zenon
    <2> QED
      BY <1>1, <2>1
  <1>3. {o} \cup {p} \in SUBSET S
    OBVIOUS
  <1>4. Cardinality({o} \cup {p}) <= Cardinality(S) /\ Cardinality(S) \in Nat
    BY <1>3, FS_Subset, FS_CardinalityType
  <1> QED
    BY <1>2, <1>4

\* Unless requests overlap, all but the one that moves rest before and after.
LEMMA AloneUnlessOverlap ==
  ASSUME TypeInv, Few, NEW o \in Ops, Moved(o), ~Overlap
  PROVE  \A p \in Ops \ {o} : op[p].pc = "idle" /\ op'[p] = op[p]
  <1> DEFINE S == {p \in Ops : Active(p) \/ op'[p].pc # "idle"}
  <1>1. IsFiniteSet(S)
    BY FewKept
  <1>2. o \in S
    BY DEF Moved
  <1>3. ASSUME NEW p \in Ops, p # o
        PROVE  op[p].pc = "idle" /\ op'[p] = op[p]
    <2>1. p \notin S
      <3>1. SUFFICES ASSUME p \in S PROVE FALSE
        OBVIOUS
      <3>2. Cardinality(S) > 1
        BY <1>1, <1>2, <1>3, <3>1, TwoOverlap
      <3> QED
        BY <3>2 DEF Overlap
    <2> QED
      BY <1>3, <2>1 DEF Active, At, Moved
  <1> QED
    BY <1>3

\* A request that is not raced after a step of o is o.
LEMMA LoneIsMover ==
  ASSUME TypeInv, Few, Track, NEW o \in Ops, Moved(o), NEW x \in Ops, Lone(x)'
  PROVE  /\ x = o /\ ~Overlap /\ op'[o].pc # "idle"
         /\ Active(o) => Lone(o) /\ marks'[o] = marks[o] \cup Befell(o)
         /\ ~Active(o) => marks'[o] = {}
         /\ \A p \in Ops \ {o} : op[p].pc = "idle" /\ op'[p] = op[p]
         /\ op' # op => blame' = blame
  <1>1. op'[x].pc # "idle" /\ "raced" \notin marks'[x]
    BY DEF Lone, Active, At
  <1>2. marks'[x] = Now(x) \cup Race
    BY <1>1, TrackIs
  <1>3. ~Overlap /\ Race = {}
    BY <1>1, <1>2 DEF Race, If
  <1>4. \A p \in Ops \ {o} : op[p].pc = "idle" /\ op'[p] = op[p]
    BY <1>3, AloneUnlessOverlap
  <1>5. x = o
    BY <1>1, <1>4
  <1>6. /\ Active(o) => Lone(o) /\ marks'[o] = marks[o] \cup Befell(o)
        /\ ~Active(o) => marks'[o] = {}
    BY <1>1, <1>2, <1>3, <1>5 DEF Now, Lone
  <1>7. Ends = {}
    BY <1>1, <1>4, <1>5 DEF Ends, Active, At
  <1>8. op' # op => blame' = blame
    <2>1. blame' = blame \cup ((UNION {}) \cap Mishaps) \cup If(op' = op \/ "raced" \in UNION {}, "disturbed")
      BY <1>7, TrackIs
    <2> QED
      BY <2>1 DEF If
  <1> QED
    BY <1>1, <1>3, <1>4, <1>5, <1>6, <1>8
LEMMA StartsCurrent ==
  ASSUME TypeInv, NEW o \in Ops, Start(o)
  PROVE  Current(op[o])'
  <1>1. CASE CreateApi(o)
    BY <1>1, CreateIs DEF Current, Starts
  <1>2. CASE PatchApi(o)
    <2>1. catalog' = catalog
      BY <1>2 DEF PatchApi
    <2> QED
      BY <1>2, <2>1, PatchIs DEF Current, Starts, Routing
  <1>3. CASE DeleteApi(o)
    <2>1. catalog' = catalog
      BY <1>3 DEF DeleteApi
    <2> QED
      BY <1>3, <2>1, DeleteIs DEF Current, Starts, Routing
  <1>4. CASE Resync(o)
    <2>1. catalog' = catalog
      BY <1>4 DEF Resync
    <2> QED
      BY <1>4, <2>1, ResyncIs DEF Current, Starts, Routing
  <1> QED
    BY <1>1, <1>2, <1>3, <1>4 DEF Start

\* What is current for a request stays so while it goes on.
LEMMA CurrentExists ==
  ASSUME TypeInv, NEW o \in Ops, Active(o), Current(op[o])
  PROVE  Exists(o) /\ catalog \in Row
  <1>1. op[o].row \in Row
    BY BusyIsSound DEF Active, At, Sound, Busy
  <1> QED
    BY <1>1, RouteAssumption DEF Exists, Current

LEMMA KeepsCurrent ==
  ASSUME NEW o \in Ops, Current(op[o]), UNCHANGED <<catalog, endpoints>>,
         op'[o].row = op[o].row, op'[o].pc # "merge",
         op'[o].pc \in Routing => op'[o].eps = endpoints
  PROVE  Current(op[o])'
  BY DEF Current

LEMMA PrunedCurrent ==
  ASSUME NEW o \in Ops, op[o].pc \in Routing, Current(op[o]), UNCHANGED <<catalog, endpoints>>,
         Pruned(o), op'[o].pc # "idle"
  PROVE  Current(op[o])'
  BY KeepsCurrent DEF Pruned, Goes, Idle, Current

LEMMA UnroutedCurrent ==
  ASSUME NEW o \in Ops, Current(op[o]), UNCHANGED <<catalog, endpoints>>, Unrouted(o)
  PROVE  Current(op[o])'
  BY KeepsCurrent DEF Unrouted, Goes, Routing

LEMMA FailedCurrent ==
  ASSUME NEW o \in Ops, Sound(op[o]), op[o].pc # "fetch", Current(op[o]),
         UNCHANGED <<catalog, endpoints>>, Failed(o), op'[o].pc # "idle"
  PROVE  Current(op[o])'
  <1>1. CASE Goes(o, "remove", {})
    BY <1>1, KeepsCurrent DEF Goes, Routing
  <1>2. CASE op[o].kind = "resync" /\ Retried(op[o], op'[o])
    <2>1. op[o].pc \in Routing
      BY <1>2 DEF Sound, Routing
    <2> QED
      BY <1>2, <2>1, KeepsCurrent DEF Retried, Current
  <1>3. CASE Drafted(op[o], op'[o])
    BY <1>3, KeepsCurrent DEF Drafted, Routing
  <1> QED
    BY <1>1, <1>2, <1>3 DEF Failed, Idle

LEMMA ActsCurrent ==
  ASSUME TypeInv, NEW o \in Ops, Acts(o), op'[o].pc # "idle", Active(o) => Current(op[o])
  PROVE  Current(op[o])'
  <1>1. CASE Start(o)
    BY <1>1, StartsCurrent
  <1>2. CASE Replace(o)
    <2>1. Active(o) /\ op[o].pc = "replace" /\ Exists(o) /\ catalog' = catalog
      BY <1>2, CurrentExists DEF Replace, At, Active, Current
    <2>2. Goes(o, SyncStep(op[o].row, op[o].goal), op[o].todo)
      BY <1>2, <2>1, ReplaceIs
    <2>3. op[o].row \in Row /\ op[o].goal \in Row
      BY <2>1, BusyIsSound DEF Sound, Busy
    <2>4. op'[o].row = op[o].row /\ op'[o].pc \in {"unroute", "fetch", "update"}
      BY <2>2, <2>3, SyncStepIs DEF Goes
    <2> QED
      BY <2>1, <2>4 DEF Current, Routing
  <1>3. CASE Fetch(o)
    <2>1. Active(o) /\ Exists(o) /\ UNCHANGED <<catalog, endpoints>>
      BY <1>3, CurrentExists DEF Fetch, At, Active
    <2> QED
      BY <1>3, <2>1, FetchIs, KeepsCurrent
  <1>4. CASE Put(o)
    <2>1. Active(o) /\ op[o].pc \in Routing /\ UNCHANGED <<catalog, endpoints>>
      BY <1>4 DEF Put, At, Active, Routing
    <2>2. op'[o].pc \in {"put", "list"} /\ op'[o].row = op[o].row /\ op'[o].eps = op[o].eps
      BY <1>4, PutIs DEF Goes
    <2> QED
      BY <2>1, <2>2, KeepsCurrent DEF Current
  <1>5. CASE ListAll(o)
    <2>1. Active(o) /\ op[o].pc \in Routing /\ UNCHANGED <<catalog, endpoints>>
      BY <1>5 DEF ListAll, At, Active, Routing
    <2>2. CASE Goes(o, "prune", Orphans(o))
      BY <2>1, <2>2, KeepsCurrent DEF Current, Goes
    <2> QED
      BY <1>5, <2>1, <2>2, ListAllIs, PrunedCurrent
  <1>6. CASE ListOwn(o)
    <2>1. Active(o) /\ UNCHANGED <<catalog, endpoints>>
      BY <1>6 DEF ListOwn, At, Active
    <2>2. CASE Goes(o, "delete", routes)
      BY <2>1, <2>2, KeepsCurrent DEF Goes, Routing
    <2> QED
      BY <1>6, <2>1, <2>2, ListOwnIs, UnroutedCurrent
  <1>7. CASE DeleteRoute(o)
    <2>1. Active(o) /\ UNCHANGED <<catalog, endpoints>> /\ op[o].pc \in {"prune", "delete"}
      BY <1>7 DEF DeleteRoute, At, Active
    <2>2. ASSUME NEW s \in op[o].todo, Goes(o, op[o].pc, op[o].todo \ {s})
          PROVE  Current(op[o])'
      BY <2>1, <2>2, KeepsCurrent DEF Goes, Current
    <2>3. CASE op[o].pc = "prune" /\ Pruned(o)
      BY <2>1, <2>3, PrunedCurrent DEF Routing
    <2>4. CASE Unrouted(o)
      BY <2>1, <2>4, UnroutedCurrent
    <2> QED
      BY <1>7, <2>2, <2>3, <2>4, DeleteRouteIs
  <1>8. CASE SmokePasses(o)
    <2>1. Active(o) /\ UNCHANGED <<catalog, endpoints>>
      BY <1>8 DEF SmokePasses, At, Active
    <2> QED
      BY <1>8, <2>1, SmokePassesIs, KeepsCurrent DEF Goes, Routing
  <1>9. CASE SmokeFails(o)
    <2>1. Active(o) /\ UNCHANGED <<catalog, endpoints>>
      BY <1>9 DEF SmokeFails, At, Active
    <2> QED
      BY <1>9, <2>1, SmokeFailsIs, FailedCurrent
  <1>10. CASE Update(o) \/ RemoveRow(o) \/ Abort(o)
    <2>1. Active(o) /\ Become(o, Idle)
      BY <1>10 DEF Update, RemoveRow, Abort, Active, At
    <2> QED
      BY <2>1, EndIs DEF Active, At, Idle
  <1>11. CASE CallFails(o)
    <2>1. Active(o) /\ UNCHANGED <<catalog, endpoints>>
      BY <1>11 DEF CallFails, At, Active
    <2> QED
      BY <1>11, <2>1, CallFailsIs, FailedCurrent
  <1>12. CASE ListFails(o)
    <2>1. Active(o) /\ UNCHANGED <<catalog, endpoints>>
      BY <1>12 DEF ListFails, At, Active
    <2> QED
      BY <1>12, <2>1, ListFailsIs, FailedCurrent, PrunedCurrent, UnroutedCurrent DEF Routing
  <1> QED
    BY <1>1, <1>2, <1>3, <1>4, <1>5, <1>6, <1>7, <1>8, <1>9, <1>10, <1>11, <1>12 DEF Acts, Step

LEMMA ActsUndisputed ==
  ASSUME TypeInv, Few, Undisputed, Track, NEW o \in Ops, Acts(o)
  PROVE  Undisputed'
  <1> SUFFICES ASSUME NEW x \in Ops, Lone(x)'
               PROVE  (\A p \in Ops \ {x} : ~Active(p)') /\ Current(op[x])'
    BY DEF Undisputed
  <1>1. Moved(o)
    BY ActsMoves
  <1>2. /\ x = o /\ op'[o].pc # "idle"
        /\ Active(o) => Lone(o)
        /\ \A p \in Ops \ {o} : op[p].pc = "idle" /\ op'[p] = op[p]
    BY <1>1, LoneIsMover
  <1>3. Active(o) => Current(op[o])
    BY <1>2 DEF Undisputed
  <1>4. Current(op[o])'
    BY <1>2, <1>3, ActsCurrent
  <1> QED
    BY <1>2, <1>4 DEF Active, At
-----------------------------------------------------------------------------
(* What a request that goes undisturbed makes of the routes.               *)

LEMMA FaultlessBefell ==
  ASSUME NEW o \in Ops, op'[o] # op[o], faults' = faults
  PROVE  /\ op[o].pc \in {"list", "unroute"} => Befell(o) = {"listed"}
         /\ op[o].pc = "smoke" =>
              IF op'[o].pc # "idle" /\ op'[o].goal.status = "DRAFT" THEN Befell(o) = {"failed"}
                                                                   ELSE Befell(o) = {}
         /\ op[o].pc \notin {"list", "unroute", "smoke"} => Befell(o) = {}
  <1>1. Befell(o) = If(At(o, "list") \/ At(o, "unroute"), "listed")
                    \cup If(At(o, "smoke") /\ op'[o].pc # "idle" /\ op'[o].goal.status = "DRAFT",
                            "failed")
    BY DEF Befell
  <1> QED
    BY <1>1 DEF If, At

LEMMA FaultyBefell ==
  ASSUME NEW o \in Ops, op'[o] # op[o], faults' # faults
  PROVE  /\ \/ "failed" \in Befell(o)
            \/ op[o].kind = "resync" /\ op'[o].pc # "idle" /\ op'[o].tries < op[o].tries
         /\ op[o].kind # "resync" /\ op'[o].pc = "idle" => "disturbed" \in Befell(o)
  <1> DEFINE retries == op[o].kind = "resync" /\ op'[o].pc # "idle" /\ op'[o].tries < op[o].tries
  <1>1. Befell(o) = If(~retries, "failed")
                    \cup If(op[o].kind # "resync" /\ op'[o].pc = "idle", "disturbed")
    BY DEF Befell
  <1> QED
    BY <1>1 DEF If

LEMMA FaultRaises ==
  ASSUME TypeInv, Fault
  PROVE  faults' # faults
  BY DEF Fault, TypeInv, TypeOK

\* A step of an undisturbed request, and what it is to show.
Calmly(o) ==
  /\ Active(o) /\ Current(op[o]) /\ Story(op[o], marks[o])
  /\ Now(o) = marks[o] \cup Befell(o) /\ Now(o) \subseteq {"failed", "listed"}
  /\ op'[o] # op[o]
  /\ op'[o].pc # "idle" => marks'[o] = Now(o) /\ blame' = blame

Settles(o) ==
  IF op'[o].pc # "idle" THEN Story(op[o], marks[o])'
  ELSE /\ Exact(Now(o)) => routes' = Wanted'
       /\ "disturbed" \notin blame => Wanted' \subseteq routes'

\* The request is about to write the catalog.
LEMMA SettlesWriting ==
  ASSUME NEW o \in Ops, Calmly(o), op'[o].pc \in {"update", "remove"}, op'[o].kind # "resync",
         Exact(Now(o)) => routes' = Outcome(op[o])',
         "disturbed" \notin blame => Outcome(op[o])' \subseteq routes'
  PROVE  Settles(o)
  <1>1. marks'[o] = Now(o) /\ blame' = blame
    BY DEF Calmly
  <1>2. Exact(marks[o])' = Exact(Now(o))
    BY <1>1 DEF Exact
  <1> QED
    BY <1>1, <1>2 DEF Settles, Story

LEMMA SettlesElsewhere ==
  ASSUME NEW o \in Ops, op'[o].pc \in {"unroute", "fetch"}, op'[o].kind # "resync"
  PROVE  Settles(o)
  BY DEF Settles, Story

LEMMA UnroutedSettles ==
  ASSUME NEW o \in Ops, Calmly(o), Unrouted(o), "failed" \notin Now(o) => routes' = {}
  PROVE  Settles(o)
  <1>1. PICK p \in {"remove", "fetch", "update"} :
          Goes(o, p, {}) /\ (p = "update" => op[o].goal.status # "PUBLISHED")
    BY DEF Unrouted
  <1>2. op'[o].kind # "resync" /\ op'[o].pc = p /\ op'[o].goal = op[o].goal
    BY <1>1 DEF Unrouted, Goes
  <1>3. CASE p = "fetch"
    BY <1>2, <1>3, SettlesElsewhere
  <1>4. CASE p # "fetch"
    <2>1. Outcome(op[o])' = {}
      BY <1>1, <1>2, <1>4 DEF Outcome
    <2> QED
      BY <1>2, <1>4, <2>1, SettlesWriting DEF Exact
  <1> QED
    BY <1>3, <1>4

\* The routes that a resync is about are those the catalog wants.
LEMMA ResyncAims ==
  ASSUME TypeInv, NEW o \in Ops, Active(o), Current(op[o]), op[o].kind = "resync"
  PROVE  /\ Wanted = RoutesOf(op[o].row.base, endpoints)
         /\ op[o].pc \in Routing => Aim(op[o]) = RoutesOf(op[o].row.base, endpoints)
  <1>1. Sound(op[o])
    BY BusyIsSound DEF Active, At
  <1>2. catalog # None /\ catalog = op[o].row
    BY CurrentExists DEF Exists, Current
  <1> QED
    BY <1>1, <1>2 DEF Sound, Current, Wanted, Published, Aim

LEMMA FailedSettles ==
  ASSUME TypeInv, NEW o \in Ops, Sound(op[o]), Calmly(o), op[o].pc # "fetch", Failed(o),
         faults' # faults \/ op[o].pc = "smoke", UNCHANGED <<catalog, endpoints>>,
         op[o].kind = "resync" => Wanted \cap routes \subseteq routes'
  PROVE  Settles(o)
  <1>0. Active(o) /\ Current(op[o]) /\ Story(op[o], marks[o]) /\ Wanted' = Wanted
    BY DEF Calmly, Wanted, Published
  <1>1. CASE op[o].kind = "resync" /\ op'[o] = Idle
    <2>1. "failed" \in Now(o)
      <3>1. faults' # faults
        BY <1>1 DEF Sound
      <3> QED
        BY <1>1, <3>1, FaultyBefell DEF Calmly, Idle
    <2>2. "disturbed" \notin blame => Wanted \subseteq routes
      BY <1>0, <1>1, ResyncAims DEF Story
    <2> QED
      BY <1>0, <1>1, <2>1, <2>2 DEF Settles, Exact, Idle
  <1>2. CASE op[o].kind = "delete" /\ Goes(o, "remove", {})
    <2>1. op[o].pc # "smoke" /\ op'[o].pc = "remove" /\ op'[o].kind = "delete"
      BY <1>2 DEF Sound, Goes
    <2>2. "failed" \in Now(o)
      BY <1>2, <2>1, FaultyBefell DEF Calmly
    <2>3. Outcome(op[o])' = {}
      BY <2>1 DEF Outcome
    <2> QED
      BY <2>1, <2>2, <2>3, SettlesWriting DEF Exact
  <1>3. CASE op[o].kind = "resync" /\ Retried(op[o], op'[o])
    <2>1. /\ op'[o].kind = "resync" /\ op'[o].row = op[o].row /\ Aim(op'[o]) = Aim(op[o])
          /\ op'[o].pc \in {"put", "list"} /\ op'[o].todo = Aim(op[o])
          /\ op'[o].pc = "list" => Aim(op[o]) = {}
      BY <1>3 DEF Retried, Aim
    <2>2. blame' = blame
      BY <2>1 DEF Calmly
    <2>3. "disturbed" \notin blame => RoutesOf(op[o].row.base, endpoints) \subseteq routes'
      BY <1>0, <1>3, ResyncAims DEF Story
    <2> QED
      BY <2>1, <2>2, <2>3 DEF Settles, Story
  <1>4. CASE op[o].kind \in {"create", "patch"} /\ Drafted(op[o], op'[o])
    <2>1. /\ op'[o].pc = "update" /\ op'[o].goal.status = "DRAFT" /\ op'[o].kind # "resync"
          /\ op[o].kind # "resync"
      BY <1>4 DEF Drafted
    <2>2. "failed" \in Now(o)
      <3>1. op'[o] # op[o] /\ Now(o) = marks[o] \cup Befell(o)
        BY DEF Calmly
      <3>2. CASE faults' # faults
        BY <2>1, <3>1, <3>2, FaultyBefell
      <3>3. CASE faults' = faults /\ op[o].pc = "smoke"
        BY <2>1, <3>1, <3>3, FaultlessBefell
      <3> QED
        BY <3>2, <3>3
    <2>3. Outcome(op[o])' = {}
      BY <2>1 DEF Outcome
    <2> QED
      BY <2>1, <2>2, <2>3, SettlesWriting DEF Exact
  <1> QED
    BY <1>1, <1>2, <1>3, <1>4 DEF Failed
LEMMA ReplaceSettles ==
  ASSUME TypeInv, NEW o \in Ops, Replace(o), Calmly(o)
  PROVE  Settles(o)
  <1>1. /\ Sound(op[o]) /\ op[o].pc = "replace" /\ Exists(o) /\ faults' = faults /\ routes' = routes
        /\ op[o].kind # "resync"
    BY BusyIsSound, CurrentExists DEF Calmly, Replace, At, Active, Current, Sound
  <1>2. Goes(o, SyncStep(op[o].row, op[o].goal), op[o].todo)
    BY <1>1, ReplaceIs
  <1>3. op[o].row \in Row /\ op[o].goal \in Row
    BY <1>1 DEF Sound, Busy
  <1>4. /\ op'[o].kind # "resync" /\ op'[o].goal = op[o].goal
        /\ op'[o].pc \in {"unroute", "fetch", "update"}
        /\ op'[o].pc = "update" => op[o].goal.status # "PUBLISHED" /\ op[o].row.status # "PUBLISHED"
    BY <1>1, <1>2, <1>3, SyncStepIs DEF Goes
  <1>5. CASE op'[o].pc = "update"
    <2>1. Now(o) = {}
      BY <1>1, FaultlessBefell DEF Calmly, Story
    <2>2. Outcome(op[o])' = {}
      BY <1>4, <1>5 DEF Outcome
    <2>3. blame = {} => routes = {}
      BY <1>1, <1>4, <1>5 DEF Calmly, Story
    <2> QED
      BY <1>1, <1>4, <1>5, <2>1, <2>2, <2>3, SettlesWriting DEF Exact
  <1> QED
    BY <1>4, <1>5, SettlesElsewhere

LEMMA FetchSettles ==
  ASSUME TypeInv, NEW o \in Ops, Fetch(o), Calmly(o)
  PROVE  Settles(o)
  <1>1. routes' = routes /\ endpoints' = endpoints
    BY DEF Fetch
  <1>2. /\ op'[o].pc \in {"list", "put"} /\ op'[o].todo = Aim(op'[o])
        /\ op'[o].pc = "list" => Aim(op'[o]) = {}
        /\ op'[o].kind = op[o].kind /\ op'[o].row = op[o].row
    BY FetchIs
  <1>3. blame' = blame
    BY <1>2 DEF Calmly
  <1> QED
    BY <1>1, <1>2, <1>3 DEF Settles, Story, Calmly

LEMMA PutSettles ==
  ASSUME TypeInv, NEW o \in Ops, Put(o), Calmly(o)
  PROVE  Settles(o)
  <1>1. PICK s \in op[o].todo :
          /\ routes' = WithRoute(s)
          /\ \/ Goes(o, "put", op[o].todo \ {s})
             \/ Goes(o, "list", {}) /\ op[o].todo \ {s} = {}
    BY PutIs
  <1>2. Sound(op[o]) /\ op[o].pc = "put" /\ endpoints' = endpoints
    BY PutIs DEF Put
  <1>3. s \in Aim(op[o]) /\ \A t \in Aim(op[o]) : SameId(s, t) => s = t
    BY <1>2, AimTyped DEF Sound, Routing
  <1>4. \A t \in Aim(op[o]) : t = s \/ t \in routes => t \in routes'
    BY <1>1, <1>3 DEF WithRoute
  <1>5. Aim(op[o]) \ op[o].todo \subseteq routes
    BY <1>2 DEF Calmly, Story
  <1>6. /\ Aim(op'[o]) = Aim(op[o]) /\ op'[o].kind = op[o].kind /\ op'[o].row = op[o].row
        /\ op'[o].pc \in {"put", "list"}
    BY <1>1 DEF Goes, Aim
  <1>7. Aim(op[o]) \ (op[o].todo \ {s}) \subseteq routes'
    BY <1>4, <1>5
  <1>8. op[o].kind = "resync" /\ "disturbed" \notin blame =>
          RoutesOf(op[o].row.base, endpoints) \subseteq routes'
    BY <1>2, <1>4, ResyncAims DEF Calmly, Story, Routing
  <1>9. blame' = blame
    BY <1>6 DEF Calmly
  <1>10. CASE Goes(o, "put", op[o].todo \ {s})
    <2>1. op'[o].pc = "put" /\ op'[o].todo = op[o].todo \ {s}
      BY <1>10 DEF Goes
    <2> QED
      BY <1>2, <1>6, <1>7, <1>8, <1>9, <2>1 DEF Settles, Story
  <1>11. CASE Goes(o, "list", {}) /\ op[o].todo \ {s} = {}
    <2>1. op'[o].pc = "list"
      BY <1>11 DEF Goes
    <2>2. Aim(op'[o]) \subseteq routes'
      BY <1>6, <1>7, <1>11
    <2> QED
      BY <1>2, <1>6, <1>8, <1>9, <2>1, <2>2 DEF Settles, Story
  <1> QED
    BY <1>1, <1>10, <1>11

\* All routes that are not to be kept are gone, or the list was empty.
LEMMA PrunedSettles ==
  ASSUME TypeInv, NEW o \in Ops, Sound(op[o]), op[o].pc \in {"list", "prune"}, Calmly(o), Pruned(o),
         UNCHANGED <<catalog, endpoints>>, Aim(op[o]) \subseteq routes',
         "failed" \notin Now(o) => routes' = Aim(op[o])
  PROVE  Settles(o)
  <1>1. CASE op[o].kind = "resync" /\ op'[o] = Idle
    <2>1. Wanted' = Aim(op[o])
      <3>1. Wanted' = Wanted
        BY DEF Wanted, Published
      <3> QED
        BY <1>1, <3>1, ResyncAims DEF Calmly, Routing
    <2> QED
      BY <1>1, <2>1 DEF Settles, Exact, Idle
  <1>2. CASE op[o].kind # "resync" /\ Goes(o, "smoke", {})
    <2>1. op'[o].pc = "smoke" /\ op'[o].kind # "resync" /\ Aim(op'[o]) = Aim(op[o])
      BY <1>2 DEF Goes, Aim
    <2>2. marks'[o] = Now(o)
      BY <2>1 DEF Calmly
    <2> QED
      BY <2>1, <2>2 DEF Settles, Story
  <1> QED
    BY <1>1, <1>2 DEF Pruned

LEMMA ListAllSettles ==
  ASSUME TypeInv, NEW o \in Ops, ListAll(o), Calmly(o)
  PROVE  Settles(o)
  <1>1. /\ Sound(op[o]) /\ op[o].pc = "list" /\ routes' = routes /\ UNCHANGED <<catalog, endpoints>>
        /\ faults' = faults
    BY ListAllIs DEF ListAll
  <1>2. Aim(op[o]) \subseteq routes
    BY <1>1 DEF Calmly, Story
  <1>3. routes \subseteq Aim(op[o]) \cup Orphans(o)
    BY <1>2 DEF Orphans, Aim, TypeInv, TypeOK
  <1>4. "listed" \in Now(o)
    BY <1>1, FaultlessBefell DEF Calmly
  <1>5. CASE Goes(o, "prune", Orphans(o))
    <2>1. /\ op'[o].pc = "prune" /\ op'[o].todo = Orphans(o) /\ Aim(op'[o]) = Aim(op[o])
          /\ op'[o].kind = op[o].kind /\ op'[o].row = op[o].row
      BY <1>5 DEF Goes, Aim
    <2>2. marks'[o] = Now(o) /\ blame' = blame
      BY <2>1 DEF Calmly
    <2>3. op[o].kind = "resync" /\ "disturbed" \notin blame =>
            RoutesOf(op[o].row.base, endpoints) \subseteq routes
      BY DEF Calmly, Story
    <2> QED
      BY <1>1, <1>2, <1>3, <1>4, <2>1, <2>2, <2>3 DEF Settles, Story
  <1>6. CASE Orphans(o) = {} /\ Pruned(o)
    BY <1>1, <1>2, <1>3, <1>6, PrunedSettles
  <1> QED
    BY <1>5, <1>6, ListAllIs

LEMMA ListOwnSettles ==
  ASSUME TypeInv, NEW o \in Ops, ListOwn(o), Calmly(o)
  PROVE  Settles(o)
  <1>1. /\ Sound(op[o]) /\ op[o].pc = "unroute" /\ routes' = routes /\ faults' = faults
        /\ op[o].kind # "resync"
    BY ListOwnIs DEF ListOwn, Sound
  <1>2. "listed" \in Now(o)
    BY <1>1, FaultlessBefell DEF Calmly
  <1>3. CASE Goes(o, "delete", routes)
    <2>1. op'[o].pc = "delete" /\ op'[o].todo = routes /\ op'[o].kind # "resync"
      BY <1>1, <1>3 DEF Goes
    <2>2. marks'[o] = Now(o)
      BY <2>1 DEF Calmly
    <2> QED
      BY <1>1, <1>2, <2>1, <2>2 DEF Settles, Story
  <1>4. CASE routes = {} /\ Unrouted(o)
    BY <1>1, <1>4, UnroutedSettles
  <1> QED
    BY <1>3, <1>4, ListOwnIs

LEMMA DeleteRouteSettles ==
  ASSUME TypeInv, NEW o \in Ops, DeleteRoute(o), Calmly(o)
  PROVE  Settles(o)
  <1>1. /\ Sound(op[o]) /\ op[o].pc \in {"prune", "delete"} /\ UNCHANGED <<catalog, endpoints>>
        /\ faults' = faults
    BY DeleteRouteIs DEF DeleteRoute
  <1>2. PICK s \in op[o].todo :
          /\ routes' = WithoutRoute(s)
          /\ \/ Goes(o, op[o].pc, op[o].todo \ {s})
             \/ /\ op[o].todo \ {s} = {}
                /\ \/ op[o].pc = "prune" /\ Pruned(o)
                   \/ op[o].pc = "delete" /\ Unrouted(o)
    BY DeleteRouteIs
  <1>3. Now(o) = marks[o]
    BY <1>1, FaultlessBefell DEF Calmly
  <1>4. s \notin routes' /\ routes' \subseteq routes
    BY <1>2 DEF WithoutRoute, SameId
  <1>5. CASE op[o].pc = "prune"
    <2>1. Aim(op[o]) \subseteq routes'
      <3>1. Aim(op[o]) \subseteq routes /\ \A t \in Aim(op[o]) : ~SameId(t, s)
        BY <1>1, <1>5 DEF Calmly, Story, Sound
      <3> QED
        BY <1>2, <3>1 DEF WithoutRoute, SameId
    <2>2. "failed" \notin Now(o) =>
            "listed" \in Now(o) /\ routes' \subseteq Aim(op[o]) \cup (op[o].todo \ {s})
      BY <1>3, <1>4, <1>5 DEF Calmly, Story
    <2>3. CASE Goes(o, op[o].pc, op[o].todo \ {s})
      <3>1. /\ op'[o].pc = "prune" /\ op'[o].todo = op[o].todo \ {s} /\ Aim(op'[o]) = Aim(op[o])
            /\ op'[o].kind = op[o].kind /\ op'[o].row = op[o].row
        BY <1>5, <2>3 DEF Goes, Aim
      <3>2. marks'[o] = Now(o) /\ blame' = blame
        BY <3>1 DEF Calmly
      <3>3. op[o].kind = "resync" => RoutesOf(op[o].row.base, endpoints) \subseteq routes'
        BY <1>5, <2>1, ResyncAims DEF Calmly, Routing
      <3> QED
        BY <1>1, <2>1, <2>2, <3>1, <3>2, <3>3 DEF Settles, Story
    <2>4. CASE op[o].todo \ {s} = {} /\ Pruned(o)
      BY <1>1, <1>5, <2>1, <2>2, <2>4, PrunedSettles
    <2> QED
      BY <1>2, <1>5, <2>3, <2>4
  <1>6. CASE op[o].pc = "delete"
    <2>1. "failed" \notin Now(o) => "listed" \in Now(o) /\ routes' \subseteq op[o].todo \ {s}
      BY <1>3, <1>4, <1>6 DEF Calmly, Story
    <2>2. CASE Goes(o, op[o].pc, op[o].todo \ {s})
      <3>1. op'[o].pc = "delete" /\ op'[o].todo = op[o].todo \ {s} /\ op'[o].kind # "resync"
        BY <1>1, <1>6, <2>2 DEF Goes, Sound
      <3>2. marks'[o] = Now(o)
        BY <3>1 DEF Calmly
      <3> QED
        BY <2>1, <3>1, <3>2 DEF Settles, Story
    <2>3. CASE op[o].todo \ {s} = {} /\ Unrouted(o)
      BY <2>1, <2>3, UnroutedSettles
    <2> QED
      BY <1>2, <1>6, <2>2, <2>3
  <1> QED
    BY <1>1, <1>5, <1>6

LEMMA SmokePassesSettles ==
  ASSUME TypeInv, NEW o \in Ops, SmokePasses(o), Calmly(o)
  PROVE  Settles(o)
  <1>1. /\ Sound(op[o]) /\ op[o].pc = "smoke" /\ routes' = routes /\ endpoints' = endpoints
        /\ faults' = faults /\ op[o].kind # "resync" /\ op[o].goal.status = "PUBLISHED"
    BY SmokePassesIs DEF SmokePasses, Sound, Routing
  <1>2. op'[o].pc = "update" /\ op'[o].kind = op[o].kind /\ op'[o].goal = op[o].goal
    BY SmokePassesIs DEF Goes
  <1>3. Now(o) = marks[o]
    BY <1>1, <1>2, FaultlessBefell DEF Calmly
  <1>4. Outcome(op[o])' = Aim(op[o])
    BY <1>1, <1>2 DEF Outcome, Aim, Calmly, Current, Routing
  <1>5. Aim(op[o]) \subseteq routes /\ ("failed" \notin Now(o) => routes = Aim(op[o]))
    BY <1>1, <1>3 DEF Calmly, Story
  <1> QED
    BY <1>1, <1>2, <1>4, <1>5, SettlesWriting DEF Exact

LEMMA UpdateSettles ==
  ASSUME TypeInv, NEW o \in Ops, Update(o), Calmly(o)
  PROVE  Settles(o)
  <1>1. /\ Sound(op[o]) /\ op[o].pc = "update" /\ routes' = routes /\ endpoints' = endpoints
        /\ faults' = faults /\ op'[o] = Idle
    BY EndIs DEF Update, At
  <1>2. catalog' = op[o].goal /\ op[o].goal \in Row
    BY <1>1, UpdateWrites, CurrentExists DEF Calmly, Current, Sound, Busy
  <1>3. Wanted' = Outcome(op[o])
    BY <1>1, <1>2, RouteAssumption DEF Wanted, Published, Outcome
  <1>4. Now(o) = marks[o]
    BY <1>1, FaultlessBefell DEF Calmly
  <1> QED
    BY <1>1, <1>3, <1>4 DEF Settles, Idle, Calmly, Story

LEMMA RemoveRowSettles ==
  ASSUME TypeInv, NEW o \in Ops, RemoveRow(o), Calmly(o)
  PROVE  Settles(o)
  <1>1. /\ Sound(op[o]) /\ op[o].pc = "remove" /\ routes' = routes /\ faults' = faults
        /\ op'[o] = Idle
    BY EndIs DEF RemoveRow, At
  <1>2. catalog' = None
    BY CurrentExists DEF RemoveRow, Calmly
  <1>3. Wanted' = {} /\ Outcome(op[o]) = {}
    BY <1>1, <1>2 DEF Wanted, Published, Outcome
  <1>4. Now(o) = marks[o]
    BY <1>1, FaultlessBefell DEF Calmly
  <1> QED
    BY <1>1, <1>3, <1>4 DEF Settles, Idle, Calmly, Story

\* Only a resync may die and leave the routes as good as they were.
LEMMA AbortSettles ==
  ASSUME TypeInv, NEW o \in Ops, Abort(o), Calmly(o)
  PROVE  Settles(o)
  <1>1. /\ Sound(op[o]) /\ routes' = routes /\ UNCHANGED <<catalog, endpoints>> /\ op'[o] = Idle
        /\ faults' # faults
    BY EndIs, FaultRaises DEF Abort, At
  <1>2. op[o].kind = "resync" /\ "failed" \in Now(o)
    BY <1>1, FaultyBefell DEF Calmly, Idle
  <1>3. "disturbed" \notin blame => Wanted \subseteq routes
    BY <1>2, ResyncAims DEF Calmly, Story
  <1>4. Wanted' = Wanted
    BY <1>1 DEF Wanted, Published
  <1> QED
    BY <1>1, <1>2, <1>3, <1>4 DEF Settles, Idle, Exact

LEMMA CallFailsSettles ==
  ASSUME TypeInv, NEW o \in Ops, CallFails(o), Calmly(o)
  PROVE  Settles(o)
  <1>1. /\ Sound(op[o]) /\ op[o].pc \in {"put", "prune", "delete"} /\ Failed(o)
        /\ UNCHANGED <<catalog, endpoints>> /\ faults' # faults
    BY CallFailsIs, FaultRaises DEF CallFails
  <1>2. ASSUME op[o].kind = "resync"
        PROVE  Wanted \cap routes \subseteq routes'
    <2>1. PICK s \in op[o].todo :
            \/ routes' = routes
            \/ op[o].pc = "put" /\ routes' = WithRoute(s)
            \/ op[o].pc # "put" /\ routes' = WithoutRoute(s)
      BY CallFailsIs
    <2>2. op[o].pc \in {"put", "prune"} /\ Wanted = Aim(op[o])
      BY <1>1, <1>2, ResyncAims DEF Calmly, Sound, Routing
    <2>3. \A r, t \in Aim(op[o]) : SameId(r, t) => r = t
      BY <1>1, <2>2, AimTyped DEF Routing
    <2>4. CASE op[o].pc = "put" /\ routes' = WithRoute(s)
      <3>1. s \in Aim(op[o])
        BY <1>1, <2>4 DEF Sound
      <3> QED
        BY <2>2, <2>3, <2>4, <3>1 DEF WithRoute
    <2>5. CASE op[o].pc = "prune" /\ routes' = WithoutRoute(s)
      <3>1. \A t \in Aim(op[o]) : ~SameId(t, s)
        BY <1>1, <2>5 DEF Sound
      <3> QED
        BY <2>2, <2>5, <3>1 DEF WithoutRoute, SameId
    <2> QED
      BY <2>1, <2>2, <2>4, <2>5
  <1> QED
    BY <1>1, <1>2, FailedSettles

LEMMA ListFailsSettles ==
  ASSUME TypeInv, NEW o \in Ops, ListFails(o), Calmly(o)
  PROVE  Settles(o)
  <1>1. /\ Sound(op[o]) /\ routes' = routes /\ UNCHANGED <<catalog, endpoints>> /\ faults' # faults
    BY ListFailsIs, FaultRaises DEF ListFails
  <1>2. CASE op[o].pc = "list" /\ Pruned(o)
    <2>1. Aim(op[o]) \subseteq routes
      BY <1>2 DEF Calmly, Story
    <2>2. "failed" \in Now(o)
      BY <1>1, <1>2, FaultyBefell DEF Calmly, Pruned, Idle, Goes
    <2> QED
      BY <1>1, <1>2, <2>1, <2>2, PrunedSettles
  <1>3. CASE op[o].pc = "unroute" /\ Unrouted(o)
    <2>1. "failed" \in Now(o)
      BY <1>1, <1>3, FaultyBefell DEF Calmly, Unrouted
    <2> QED
      BY <1>3, <2>1, UnroutedSettles
  <1>4. CASE op[o].pc = "unroute" /\ Failed(o)
    BY <1>1, <1>4, FailedSettles
  <1> QED
    BY <1>2, <1>3, <1>4, ListFailsIs

LEMMA SmokeFailsSettles ==
  ASSUME TypeInv, NEW o \in Ops, SmokeFails(o), Calmly(o)
  PROVE  Settles(o)
  <1>1. /\ Sound(op[o]) /\ op[o].pc = "smoke" /\ Failed(o) /\ routes' = routes
        /\ UNCHANGED <<catalog, endpoints>>
    BY SmokeFailsIs DEF SmokeFails
  <1> QED
    BY <1>1, FailedSettles

LEMMA ActsSettles ==
  ASSUME TypeInv, NEW o \in Ops, Acts(o), Calmly(o)
  PROVE  Settles(o)
  <1>1. ~Start(o)
    BY DEF Start, CreateApi, PatchApi, DeleteApi, Resync, Calmly, Active, At
  <1> QED
    BY <1>1, ReplaceSettles, FetchSettles, PutSettles, ListAllSettles, ListOwnSettles,
       DeleteRouteSettles, SmokePassesSettles, SmokeFailsSettles, UpdateSettles, RemoveRowSettles,
       AbortSettles, CallFailsSettles, ListFailsSettles DEF Acts, Step
\* A request that begins while the others rest finds the routes as they were left.
LEMMA StartSettles ==
  ASSUME TypeInv, NEW o \in Ops, Start(o), Reconciled, marks'[o] = {}, blame' = blame
  PROVE  Story(op[o], marks[o])'
  <1>0. routes' = routes
    BY DEF Start, CreateApi, PatchApi, DeleteApi, Resync
  <1>1. CASE CreateApi(o)
    <2>1. Starts(o, "create", catalog', [catalog' EXCEPT !.status = "PUBLISHED"])
      BY <1>1, CreateIs
    <2>2. /\ op'[o].pc \in {"list", "put"} /\ op'[o].todo = Aim(op'[o])
          /\ op'[o].pc = "list" => op'[o].eps = {}
      BY <1>1, CreateIs
    <2>3. op'[o].kind = "create"
      BY <2>1 DEF Starts
    <2>4. op'[o].pc = "list" => Aim(op'[o]) = {}
      BY <2>2 DEF Aim, RoutesOf
    <2> QED
      BY <2>2, <2>3, <2>4 DEF Story
  <1>2. CASE PatchApi(o)
    <2>0. catalog # None /\ UNCHANGED <<catalog, endpoints>>
      BY <1>2 DEF PatchApi
    <2>1. PICK goal \in Row :
            /\ Starts(o, "patch", catalog, goal)
            /\ op'[o].pc \in {"replace", "unroute", "fetch", "update"}
            /\ op'[o].pc = "update" =>
                 goal = catalog \/ (goal.status # "PUBLISHED" /\ catalog.status # "PUBLISHED")
      BY <1>2, PatchIs
    <2>2. op'[o].kind = "patch" /\ op'[o].row = catalog /\ op'[o].goal = goal
      BY <2>1 DEF Starts
    <2>3. op'[o].pc = "update" => Outcome(op[o])' = Wanted
      BY <2>0, <2>1, <2>2 DEF Outcome, Wanted, Published
    <2>4. catalog.status # "PUBLISHED" => Wanted = {}
      BY DEF Wanted, Published
    <2> QED
      BY <1>0, <2>1, <2>2, <2>3, <2>4 DEF Story, Exact, Reconciled
  <1>3. CASE DeleteApi(o)
    <2>1. /\ op'[o].kind = "delete" /\ op'[o].pc \in {"unroute", "remove"}
          /\ op'[o].pc = "remove" => catalog.status # "PUBLISHED"
      BY <1>3, DeleteIs DEF Starts
    <2>2. catalog.status # "PUBLISHED" => Wanted = {}
      BY DEF Wanted, Published
    <2>3. op'[o].pc = "remove" => Outcome(op[o])' = {}
      BY DEF Outcome
    <2> QED
      BY <1>0, <2>1, <2>2, <2>3 DEF Story, Exact, Reconciled
  <1>4. CASE Resync(o)
    <2>1. /\ op'[o].kind = "resync" /\ op'[o].pc = "fetch" /\ op'[o].row = catalog
          /\ catalog.status = "PUBLISHED"
      BY <1>4, ResyncIs DEF Starts
    <2>2. catalog # None /\ endpoints' = endpoints
      BY <1>4 DEF Resync
    <2>3. Wanted = RoutesOf(catalog.base, endpoints)
      BY <2>1, <2>2 DEF Wanted, Published
    <2> QED
      BY <1>0, <2>1, <2>2, <2>3 DEF Story, Reconciled
  <1> QED
    BY <1>1, <1>2, <1>3, <1>4 DEF Start

LEMMA UnmovedOp ==
  ASSUME TypeInv, TypeInv', NEW o \in Ops, op'[o] = op[o], \A p \in Ops \ {o} : op'[p] = op[p]
  PROVE  op' = op
  <1>1. op \in [Ops -> Op] /\ op' \in [Ops -> Op]
    BY DEF TypeInv, TypeOK
  <1>2. \A p \in Ops : op'[p] = op[p]
    OBVIOUS
  <1> QED
    BY <1>1, <1>2

LEMMA ActsTold ==
  ASSUME RouteInv, Track, NEW o \in Ops, Acts(o)
  PROVE  Told'
  <1> SUFFICES ASSUME NEW x \in Ops, Calm(x)'
               PROVE  Story(op[x], marks[x])'
    BY DEF Told
  <1>0. TypeInv /\ TypeInv' /\ Few /\ Moved(o)
    BY ActsMoves, ActsTyped DEF RouteInv
  <1>1. Lone(x)' /\ op'[x].pc # "idle" /\ marks'[x] \subseteq {"failed", "listed"}
    BY DEF Calm, Lone, Active, At
  <1>2. /\ x = o
        /\ Active(o) => Lone(o) /\ marks'[o] = marks[o] \cup Befell(o)
        /\ ~Active(o) => marks'[o] = {}
        /\ \A p \in Ops \ {o} : op[p].pc = "idle" /\ op'[p] = op[p]
        /\ op' # op => blame' = blame
    BY <1>0, <1>1, LoneIsMover
  <1>3. op' # op
    <2>1. CASE Active(o)
      BY <1>1, <1>2, <2>1, BefellTyped
    <2>2. CASE ~Active(o)
      BY <1>1, <1>2, <2>2 DEF Active, At
    <2> QED
      BY <2>1, <2>2
  <1>4. op'[o] # op[o]
    BY <1>0, <1>2, <1>3, UnmovedOp
  <1>5. CASE Active(o)
    <2>1. Current(op[o])
      BY <1>2, <1>5 DEF RouteInv, Undisputed
    <2>2. Story(op[o], marks[o])
      BY <1>1, <1>2, <1>5 DEF RouteInv, Told, Calm
    <2>3. Now(o) = marks[o] \cup Befell(o)
      BY <1>5 DEF Now
    <2>4. Calmly(o)
      BY <1>1, <1>2, <1>3, <1>4, <1>5, <2>1, <2>2, <2>3 DEF Calmly
    <2>5. Settles(o)
      BY <1>0, <2>4, ActsSettles
    <2> QED
      BY <1>1, <1>2, <2>5 DEF Settles
  <1>6. CASE ~Active(o)
    <2>1. Quiet
      BY <1>2, <1>6 DEF Quiet, Active, At
    <2>2. Start(o)
      BY <1>6 DEF Acts, Step, Replace, Fetch, Put, ListAll, ListOwn, DeleteRoute, SmokePasses,
                  SmokeFails, Update, RemoveRow, CallFails, ListFails, Abort, Active, At
    <2> QED
      BY <1>0, <1>2, <1>3, <1>6, <2>1, <2>2, StartSettles DEF RouteInv
  <1> QED
    BY <1>5, <1>6

\* The last request in progress ends, and nothing but failed calls befell it.
LEMMA AloneReconciles ==
  ASSUME RouteInv, NEW o \in Ops, Acts(o), TypeInv', Active(o), op'[o].pc = "idle",
         op' # op, \A p \in Ops \ {o} : op'[p] = op[p] /\ op[p].pc = "idle",
         Now(o) \subseteq {"failed", "listed"},
         \/ Now(o) = {"listed"} /\ blame' = {}
         \/ blame' = blame \cup (Now(o) \cap Mishaps)
  PROVE  Reconciled'
  <1>1. Now(o) = marks[o] \cup Befell(o)
    BY DEF Now
  <1>2. Lone(o) /\ Calm(o)
    BY <1>1 DEF Lone, Calm
  <1>3. Current(op[o]) /\ Story(op[o], marks[o])
    BY <1>2 DEF RouteInv, Undisputed, Told
  <1>4. op'[o] # op[o]
    BY UnmovedOp DEF RouteInv
  <1>5. Calmly(o)
    BY <1>1, <1>3, <1>4 DEF Calmly
  <1>6. /\ Exact(Now(o)) => routes' = Wanted'
        /\ "disturbed" \notin blame => Wanted' \subseteq routes'
    BY <1>5, ActsSettles DEF Settles, RouteInv
  <1>7. CASE Now(o) = {"listed"} /\ blame' = {}
    <2>1. Exact(Now(o))
      BY <1>7 DEF Exact
    <2> QED
      BY <1>6, <2>1 DEF Reconciled
  <1>8. CASE blame' = blame \cup (Now(o) \cap Mishaps)
    <2>1. blame' = {} => Exact(Now(o))
      BY <1>8 DEF Exact, Mishaps
    <2>2. "disturbed" \notin blame' => "disturbed" \notin blame
      BY <1>8
    <2> QED
      BY <1>6, <2>1, <2>2 DEF Reconciled
  <1> QED
    BY <1>7, <1>8

\* Once nothing is in progress, the last request has told what it leaves.
LEMMA ActsReconciled ==
  ASSUME RouteInv, Track, NEW o \in Ops, Acts(o), Quiet'
  PROVE  Reconciled'
  <1>0. TypeInv /\ TypeInv' /\ Few /\ Moved(o) /\ HistoryTyped /\ HistoryTyped'
    BY ActsMoves, ActsTyped, TrackTyped DEF RouteInv
  <1>1. \A p \in Ops : op'[p].pc = "idle"
    BY DEF Quiet, Active, At
  <1>2. Active(o)
    BY <1>0, <1>1 DEF Moved
  <1>3. \A p \in Ops \ {o} : op'[p] = op[p] /\ op[p].pc = "idle"
    BY <1>0, <1>1 DEF Moved
  <1>4. Ends = {Now(o) \cup Race}
    BY <1>1, <1>2, <1>3 DEF Ends, Active, At
  <1>5. CASE "disturbed" \in blame'
    BY <1>5 DEF Reconciled
  <1>6. CASE "disturbed" \notin blame'
    <2>1. op' # op
      BY <1>1, <1>2 DEF Active, At
    <2>2. UNION Ends = Now(o) \cup Race
      BY <1>4
    <2>3. CASE {"listed"} \in Ends
      <3>1. Now(o) \cup Race = {"listed"} /\ blame' = {}
        BY <1>4, <2>3, TrackIs
      <3>2. Race = {} /\ Now(o) = {"listed"}
        BY <3>1 DEF Race, If
      <3> QED
        BY <1>0, <1>1, <1>2, <1>3, <2>1, <3>1, <3>2, AloneReconciles
    <2>4. CASE {"listed"} \notin Ends
      <3>1. blame' = blame \cup ((UNION Ends) \cap Mishaps)
                           \cup If(op' = op \/ "raced" \in UNION Ends, "disturbed")
        BY <2>4, TrackIs, Zenon
      <3>2. "raced" \notin UNION Ends
        BY <1>6, <3>1 DEF If
      <3>3. Race = {} /\ "raced" \notin Now(o)
        BY <2>2, <3>2 DEF Race, If
      <3>4. blame' = blame \cup (Now(o) \cap Mishaps)
        BY <2>1, <2>2, <3>1, <3>2, <3>3 DEF If
      <3>5. Now(o) \subseteq Marks
        BY <1>0, BefellTyped DEF Now, HistoryTyped, Marks
      <3>6. Now(o) \subseteq {"failed", "listed"}
        BY <1>6, <3>3, <3>4, <3>5 DEF Marks, Mishaps
      <3> QED
        BY <1>0, <1>1, <1>2, <1>3, <2>1, <3>4, <3>6, AloneReconciles
    <2> QED
      BY <2>3, <2>4
  <1> QED
    BY <1>5, <1>6
-----------------------------------------------------------------------------
(* The routes and the catalog.                                             *)

LEMMA LostKept ==
  ASSUME RouteInv, Track, RoutesLost
  PROVE  RouteInv'
  <1>0. op' = op /\ UNCHANGED <<catalog, endpoints>>
    BY DEF RoutesLost
  <1>1. TypeInv' /\ HistoryTyped'
    BY LostTyped, TrackTyped DEF RouteInv
  <1>2. \A o \in Ops : Active(o)' = Active(o)
    BY <1>0 DEF Active, At
  <1>3. \A o \in Ops : Active(o) => marks'[o] = marks[o] \cup {"disturbed"} \cup Race
    BY <1>0, TrackIs, BefellTyped DEF Active, At, Now
  <1>4. Few'
    BY <1>0 DEF RouteInv, Few, Active, At
  <1>5. Undisputed'
    <2> SUFFICES ASSUME NEW o \in Ops, Lone(o)'
                 PROVE  (\A p \in Ops \ {o} : ~Active(p)') /\ Current(op[o])'
      BY DEF Undisputed
    <2>1. Lone(o)
      BY <1>2, <1>3 DEF Lone
    <2>2. (\A p \in Ops \ {o} : ~Active(p)) /\ Current(op[o])
      BY <2>1 DEF RouteInv, Undisputed
    <2> QED
      BY <1>0, <1>2, <2>2 DEF Current
  <1>6. Told'
    BY <1>2, <1>3 DEF Told, Calm
  <1>7. "disturbed" \in blame'
    <2>1. {"listed"} \notin Ends
      BY <1>0 DEF Ends, Active, At
    <2>2. blame' = blame \cup ((UNION Ends) \cap Mishaps)
                         \cup If(op' = op \/ "raced" \in UNION Ends, "disturbed")
      BY <2>1, TrackIs, Zenon
    <2> QED
      BY <1>0, <2>2 DEF If
  <1> QED
    BY <1>1, <1>4, <1>5, <1>6, <1>7 DEF RouteInv, Reconciled

LEMMA RouteStep == RouteInv /\ [HNext]_hvars => RouteInv'
  <1> SUFFICES ASSUME RouteInv, [HNext]_hvars
               PROVE  RouteInv'
    OBVIOUS
  <1>1. ASSUME Track, NEW o \in Ops, Acts(o)
        PROVE  RouteInv'
    <2>1. TypeInv' /\ HistoryTyped'
      BY <1>1, ActsTyped, TrackTyped DEF RouteInv
    <2>2. Few'
      BY <1>1, ActsMoves, FewKept DEF RouteInv
    <2>3. Undisputed'
      BY <1>1, ActsUndisputed DEF RouteInv
    <2>4. Told' /\ (Quiet' => Reconciled')
      BY <1>1, ActsTold, ActsReconciled
    <2> QED
      BY <2>1, <2>2, <2>3, <2>4 DEF RouteInv
  <1>2. CASE HNext
    BY <1>1, <1>2, LostKept DEF HNext, Next, Acts
  <1>3. CASE UNCHANGED hvars
    <2>1. /\ TypeInv' /\ HistoryTyped'
      BY <1>3, NextTyped DEF RouteInv, HistoryTyped, hvars
    <2>2. Few' /\ Undisputed'
      BY <1>3 DEF RouteInv, hvars, vars, Few, Undisputed, Lone, Active, At, Current
    <2>3. Told'
      BY <1>3 DEF RouteInv, hvars, vars, Told, Calm, Active, At, Story, Exact, Outcome
    <2>4. Quiet' => Reconciled'
      BY <1>3 DEF RouteInv, hvars, vars, Quiet, Active, At, Reconciled, Wanted, Published
    <2> QED
      BY <2>1, <2>2, <2>3, <2>4 DEF RouteInv
  <1> QED
    BY <1>2, <1>3

LEMMA RouteInit == HInit => RouteInv
  <1> SUFFICES ASSUME HInit
               PROVE  RouteInv
    OBVIOUS
  <1>1. TypeInv /\ HistoryTyped
    BY InitTyped DEF HInit, HistoryTyped
  <1>2. \A o \in Ops : ~Active(o)
    BY DEF HInit, Init, Active, At, Idle
  <1>3. {o \in Ops : Active(o)} = {}
    BY <1>2
  <1>4. Few
    BY <1>3, FS_EmptySet DEF Few
  <1>5. Undisputed /\ Told
    BY <1>2 DEF Undisputed, Told, Lone, Calm
  <1>6. Reconciled
    BY DEF HInit, Init, Reconciled, Wanted, Published
  <1> QED
    BY <1>1, <1>4, <1>5, <1>6 DEF RouteInv

LEMMA AlwaysRouteInv == HSpec => []RouteInv
  BY RouteInit, RouteStep, PTL DEF HSpec

\* At rest, and when nothing befell a request since the last that reconciled
\* them, the routes in APISIX are exactly those of a PUBLISHED entry, contents
\* included (upsert_api_routes, delete_api_routes and the order of their calls).
THEOREM RoutesFollowCatalog == HSpec => []RoutesAgree
  <1>1. RouteInv => RoutesAgree
    BY DEF RouteInv, Reconciled, RoutesAgree
  <1> QED
    BY <1>1, AlwaysRouteInv, PTL

\* A call or a smoke test that fails leaves no PUBLISHED entry without a route of
\* one of its endpoints: the status is only written when the routes are put.
THEOREM FailuresKeepRouted == HSpec => []PublishedIsRouted
  <1>1. RouteInv => PublishedIsRouted
    BY DEF RouteInv, Reconciled, PublishedIsRouted
  <1> QED
    BY <1>1, AlwaysRouteInv, PTL

\* A route that is taken away while its endpoint is published is an orphan only
\* of a request that was raced.
LEMMA PruneSpares ==
  ASSUME RouteInv, NEW o \in Ops, Sound(op[o]), op[o].pc = "prune", "raced" \notin marks[o],
         op[o].goal.base = catalog.base, NEW r \in routes, Served(r), NEW s \in op[o].todo
  PROVE  ~SameId(s, r)
  <1>1. Lone(o)
    BY DEF Lone, Active, At
  <1>2. op[o].eps = endpoints
    BY <1>1 DEF RouteInv, Undisputed, Current, Routing
  <1>3. PICK e \in endpoints : e.pattern = r.pattern
    BY DEF Served
  <1> DEFINE t == [base |-> op[o].goal.base, pattern |-> e.pattern, content |-> e.content]
  <1>4. t \in Aim(op[o])
    BY <1>2 DEF Aim, RoutesOf
  <1>5. ~SameId(t, s)
    BY <1>4 DEF Sound
  <1> QED
    BY <1>3, <1>5 DEF SameId, Served

LEMMA ServingStep ==
  ASSUME RouteInv, NEW o \in Ops, Acts(o), NEW r \in routes, Served(r),
         ~\E s \in routes' : SameId(r, s)
  PROVE  \/ At(o, "delete") \/ "raced" \in marks[o]
         \/ At(o, "prune") /\ op[o].goal.base # catalog.base
  <1>0. TypeInv /\ SameId(r, r) /\ r \notin routes'
    BY DEF RouteInv, SameId
  <1>1. ASSUME NEW s, r \notin WithRoute(s), routes' = WithRoute(s)
        PROVE  FALSE
    BY <1>0, <1>1 DEF WithRoute, SameId
  <1>2. ASSUME NEW s \in op[o].todo, Sound(op[o]), op[o].pc \in {"prune", "delete"},
               routes' = WithoutRoute(s)
        PROVE  \/ At(o, "delete") \/ "raced" \in marks[o]
               \/ At(o, "prune") /\ op[o].goal.base # catalog.base
    <2>1. SameId(s, r)
      BY <1>0, <1>2 DEF WithoutRoute
    <2> QED
      BY <1>2, <2>1, PruneSpares DEF At
  <1>3. CASE Put(o)
    BY <1>0, <1>1, <1>3, PutIs
  <1>4. CASE DeleteRoute(o)
    BY <1>0, <1>2, <1>4, DeleteRouteIs
  <1>5. CASE CallFails(o)
    BY <1>0, <1>1, <1>2, <1>5, CallFailsIs
  <1>6. CASE ~(Put(o) \/ DeleteRoute(o) \/ CallFails(o))
    <2>1. routes' = routes
      BY <1>6 DEF Acts, Start, CreateApi, PatchApi, DeleteApi, Resync, Step, Replace, Fetch, ListAll,
                  ListOwn, SmokePasses, SmokeFails, Update, RemoveRow, ListFails, Abort
    <2> QED
      BY <1>0, <2>1
  <1> QED
    BY <1>3, <1>4, <1>5, <1>6

\* No step takes a published endpoint that stays published off the gateway, but
\* the deletion before a change of base, a race or a loss of routes.
THEOREM ServingIsKept == HSpec => KeepsServing
  <1> DEFINE Kept == \A r \in routes :
                       /\ Served(r) /\ Served(r)'
                       /\ ~\E s \in routes' : SameId(r, s)
                       => \/ \E o \in Ops : \/ At(o, "delete") \/ "raced" \in marks[o]
                                            \/ At(o, "prune") /\ op[o].goal.base # catalog.base
                          \/ RoutesLost
  <1>1. RouteInv /\ [HNext]_hvars => [Kept]_hvars
    <2>1. ASSUME RouteInv, NEW o \in Ops, Acts(o)
          PROVE  Kept
      BY <2>1, ServingStep
    <2>2. HNext => RoutesLost \/ \E o \in Ops : Acts(o)
      BY DEF HNext, Next, Acts
    <2> QED
      BY <2>1, <2>2
  <1>2. HSpec => [][Kept]_hvars
    BY <1>1, AlwaysRouteInv, PTL DEF HSpec
  <1> QED
    BY <1>2 DEF KeepsServing

-----------------------------------------------------------------------------
(* Sets of places.                                                         *)

\* A set of naturals has a least one: the intervals up to its members have a least one.
LEMMA LeastNatural ==
  ASSUME NEW T, T \subseteq Nat, T # {}
  PROVE  \E m \in T : \A k \in T : m <= k
<1> DEFINE F == {1..n : n \in T}
<1>1. F \subseteq FiniteSubsetsOf(Nat)  BY FS_Interval DEF FiniteSubsetsOf
<1>2. F # {}  OBVIOUS
<1>3. IsWellFoundedOn(StrictSubsetOrdering(Nat), FiniteSubsetsOf(Nat))
  BY FS_StrictSubsetOrderingWellFounded
<1>4. \E s \in F : \A t \in F : ~(<<t, s>> \in StrictSubsetOrdering(Nat))
  BY <1>1, <1>2, <1>3, WFMin, Zenon
<1>5. PICK m \in T : \A k \in T : ~(<<1..k, 1..m>> \in StrictSubsetOrdering(Nat))
  BY <1>4
<1>6. ASSUME NEW k \in T, k < m PROVE FALSE
  <2>1. 1..k \subseteq 1..m /\ m \in 1..m /\ m \notin 1..k
        /\ 1..k \in SUBSET Nat /\ 1..m \in SUBSET Nat
    BY <1>6
  <2>2. <<1..k, 1..m>> \in StrictSubsetOrdering(Nat)  BY <2>1 DEF StrictSubsetOrdering
  <2> QED BY <1>5, <2>2
<1> QED BY <1>6

\* So what holds of 0, and of n + 1 if of n, holds of all.
LEMMA Inductive ==
  ASSUME NEW S, 0 \in S, \A n \in Nat : n \in S => n + 1 \in S
  PROVE  Nat \subseteq S
<1> DEFINE T == Nat \ S
<1> SUFFICES ASSUME T # {} PROVE FALSE
  OBVIOUS
<1>1. PICK m \in T : \A k \in T : m <= k  BY LeastNatural, Zenon
<1>2. m # 0  OBVIOUS
<1>3. m - 1 \in Nat /\ m - 1 \notin T  BY <1>1, <1>2
<1> QED BY <1>3

\* The same up to a bound.
LEMMA InductiveUpto ==
  ASSUME NEW m \in Nat, NEW S, 0 \in S, \A n \in 0..(m - 1) : n \in S => n + 1 \in S
  PROVE  0..m \subseteq S
<1> DEFINE T == {n \in Nat : n <= m => n \in S}
<1>1. 0 \in T  OBVIOUS
<1>2. \A n \in Nat : n \in T => n + 1 \in T  OBVIOUS
<1> HIDE DEF T
<1>3. Nat \subseteq T  BY <1>1, <1>2, Inductive, Zenon
<1> QED BY <1>3 DEF T

\* The places of a path are finitely many.
LEMMA UptoFinite ==
  ASSUME NEW m \in Nat, NEW S, \A i \in S : i \in 1..m, NEW j
  PROVE  /\ IsFiniteSet(S) /\ IsFiniteSet({i \in S : i <= j})
         /\ Upto(S, j) \in Nat /\ Cardinality(S) \in Nat
<1>1. IsFiniteSet(1..m)  BY FS_Interval
<1>2. S \subseteq 1..m  BY Zenon
<1>3. IsFiniteSet(S)  BY <1>1, <1>2, FS_Subset, Zenon
<1>4. {i \in S : i <= j} \subseteq S  OBVIOUS
<1>5. IsFiniteSet({i \in S : i <= j})  BY <1>3, <1>4, FS_Subset, Zenon
<1>6. Upto(S, j) \in Nat  BY <1>5, FS_CardinalityType, Zenon DEF Upto
<1> QED BY <1>3, <1>5, <1>6, FS_CardinalityType, Zenon

\* None lie up to 0, and all up to the end.
LEMMA UptoEnds ==
  ASSUME NEW m \in Nat, NEW S, \A i \in S : i \in 1..m
  PROVE  Upto(S, 0) = 0 /\ Upto(S, m) = Cardinality(S)
<1>1. {i \in S : i <= 0} = {}  OBVIOUS
<1>2. {i \in S : i <= m} = S  OBVIOUS
<1> QED BY <1>1, <1>2, FS_EmptySet DEF Upto

\* One more lies up to a place of them than up to the one before.
LEMMA UptoStep ==
  ASSUME NEW m \in Nat, NEW S, \A i \in S : i \in 1..m, NEW j \in 1..m
  PROVE  /\ j \in S => Upto(S, j) = Upto(S, j - 1) + 1
         /\ j \notin S => Upto(S, j) = Upto(S, j - 1)
<1> DEFINE A == {i \in S : i <= j - 1}
<1>1. IsFiniteSet(A) /\ Upto(S, j - 1) \in Nat  BY UptoFinite, Zenon
<1>2. CASE j \in S
  <2>1. \A i \in S : i <= j <=> i <= j - 1 \/ i = j  OBVIOUS
  <2>2. {i \in S : i <= j} \subseteq A \cup {j}  BY <2>1
  <2>3. A \cup {j} \subseteq {i \in S : i <= j}  BY <1>2, <2>1
  <2>4. {i \in S : i <= j} = A \cup {j}  BY <2>2, <2>3, Zenon
  <2>5. j \notin A  OBVIOUS
  <2>6. Cardinality(A \cup {j}) = Cardinality(A) + 1  BY <1>1, <2>5, FS_AddElement, Zenon
  <2> QED BY <1>1, <1>2, <2>4, <2>6 DEF Upto
<1>3. CASE j \notin S
  <2>1. {i \in S : i <= j} = A  BY <1>3
  <2> QED BY <1>1, <1>3, <2>1 DEF Upto
<1> QED BY <1>2, <1>3

\* The count grows.
LEMMA UptoGrows ==
  ASSUME NEW m \in Nat, NEW S, \A i \in S : i \in 1..m, NEW i \in Int, NEW j \in Int, i <= j
  PROVE  Upto(S, i) <= Upto(S, j)
<1>1. {k \in S : k <= i} \subseteq {k \in S : k <= j}  OBVIOUS
<1>2. IsFiniteSet({k \in S : k <= j})  BY UptoFinite, Zenon
<1> QED BY <1>1, <1>2, FS_Subset, Zenon DEF Upto

-----------------------------------------------------------------------------
(* What a path is made of that an expression fits.                         *)

\* own[j] is the place in t of the symbol that u[j] belongs to.
Owns(t, u, own) ==
  /\ own \in [0..Len(u) -> 0..Len(t)]
  /\ own[0] = 0 /\ own[Len(u)] = Len(t)
  /\ \A j \in 1..Len(u) :
       /\ own[j] >= 1
       /\ own[j] = own[j - 1] + 1 \/ own[j] = own[j - 1]
       /\ t[own[j]] \in Params => u[j] # "/"
       /\ t[own[j]] \notin Params => own[j] = own[j - 1] + 1 /\ u[j] = t[own[j]]

\* An expression fits a path if each symbol of the path belongs to one of its own.
LEMMA FitsOwns ==
  ASSUME NEW t \in Seq(Symbols), NEW u \in Seq(Symbols), Fits(t, u)
  PROVE  \E own : Owns(t, u, own)
<1> DEFINE m == Len(u)  n == Len(t)
<1>1. m \in Nat /\ n \in Nat /\ DOMAIN u = 1..m  BY LenProperties
<1>2. PICK S \in SUBSET (1..m) :
        /\ Cardinality(S) = n
        /\ \A j \in 1..m :
             /\ Upto(S, j) > 0
             /\ IF t[Upto(S, j)] \in Params THEN u[j] # "/" ELSE u[j] = t[Upto(S, j)] /\ j \in S
  BY <1>1, Zenon DEF Fits
<1> DEFINE own == [j \in 0..m |-> Upto(S, j)]
<1> HIDE DEF m, n
<1>3. \A i \in S : i \in 1..m  BY <1>2, Zenon
<1>4. Upto(S, 0) = 0 /\ Upto(S, m) = n  BY <1>1, <1>2, <1>3, UptoEnds, Zenon
<1>5. ASSUME NEW j \in 0..m PROVE Upto(S, j) \in 0..n
  <2>1. j \in Int /\ m \in Int /\ j <= m  BY <1>1
  <2>2. Upto(S, j) <= Upto(S, m)  BY <1>1, <1>3, <2>1, UptoGrows
  <2>3. Upto(S, j) \in Nat  BY <1>1, <1>3, UptoFinite, Zenon
  <2> QED BY <1>1, <1>4, <2>2, <2>3
<1>6. ASSUME NEW j \in 1..m
      PROVE  /\ Upto(S, j) = Upto(S, j - 1) + 1 \/ Upto(S, j) = Upto(S, j - 1)
             /\ j \in S => Upto(S, j) = Upto(S, j - 1) + 1
  <2>1. (j \in S => Upto(S, j) = Upto(S, j - 1) + 1) /\ (j \notin S => Upto(S, j) = Upto(S, j - 1))
    BY <1>1, <1>3, UptoStep, Zenon
  <2>2. j - 1 \in 0..m  BY <1>1
  <2>3. Upto(S, j - 1) \in Nat  BY <1>1, <1>3, UptoFinite, Zenon
  <2> QED BY <2>1, <2>3
<1>7. own \in [0..m -> 0..n] /\ own[0] = 0 /\ own[m] = n
  BY <1>1, <1>4, <1>5
<1>8. ASSUME NEW j \in 1..m
      PROVE  /\ own[j] >= 1
             /\ own[j] = own[j - 1] + 1 \/ own[j] = own[j - 1]
             /\ t[own[j]] \in Params => u[j] # "/"
             /\ t[own[j]] \notin Params => own[j] = own[j - 1] + 1 /\ u[j] = t[own[j]]
  <2>1. j \in 0..m /\ j - 1 \in 0..m  BY <1>1
  <2>2. own[j] = Upto(S, j) /\ own[j - 1] = Upto(S, j - 1)  BY <2>1
  <2>3. own[j] \in 0..n  BY <1>5, <2>1
  <2> HIDE DEF own
  <2>4. own[j] > 0  BY <1>2, <2>2
  <2>5. own[j] >= 1  BY <1>1, <2>3, <2>4
  <2>6. IF t[own[j]] \in Params THEN u[j] # "/" ELSE u[j] = t[own[j]] /\ j \in S
    BY <1>2, <2>2, Zenon
  <2> QED BY <1>6, <2>2, <2>5, <2>6, Zenon
<1> HIDE DEF own
<1>9. Owns(t, u, own)
  BY <1>7, <1>8, Zenon DEF Owns, m, n
<1> QED BY <1>9

\* And back.
LEMMA OwnsFits ==
  ASSUME NEW t \in Seq(Symbols), NEW u \in Seq(Symbols), NEW own, Owns(t, u, own)
  PROVE  Fits(t, u)
<1> DEFINE m == Len(u)  n == Len(t)
           S == {j \in 1..m : own[j] = own[j - 1] + 1}
<1>1. m \in Nat /\ n \in Nat /\ DOMAIN u = 1..m  BY LenProperties
<1>2. own \in [0..m -> 0..n] /\ own[0] = 0 /\ own[m] = n  BY DEF Owns
<1>3. \A j \in 1..m :
        /\ own[j] >= 1
        /\ own[j] = own[j - 1] + 1 \/ own[j] = own[j - 1]
        /\ t[own[j]] \in Params => u[j] # "/"
        /\ t[own[j]] \notin Params => own[j] = own[j - 1] + 1 /\ u[j] = t[own[j]]
  BY Zenon DEF Owns
<1>4. (\A i \in S : i \in 1..m) /\ \A j \in 1..m : j \in S <=> own[j] = own[j - 1] + 1
  OBVIOUS
<1> HIDE DEF m, n, S
<1>5. \A j \in 0..m : Upto(S, j) = own[j]
  <2> DEFINE T == {j \in 0..m : Upto(S, j) = own[j]}
  <2>1. 0 \in T  BY <1>1, <1>2, <1>4, UptoEnds
  <2>2. ASSUME NEW k \in 0..(m - 1), k \in T PROVE k + 1 \in T
    <3>1. k + 1 \in 1..m /\ k + 1 \in 0..m /\ k \in 0..m /\ (k + 1) - 1 = k  BY <1>1, <2>2
    <3>2. /\ k + 1 \in S => Upto(S, k + 1) = Upto(S, (k + 1) - 1) + 1
          /\ k + 1 \notin S => Upto(S, k + 1) = Upto(S, (k + 1) - 1)
      BY <1>1, <1>4, <3>1, UptoStep, Zenon
    <3>3. Upto(S, k) = own[k]  BY <2>2
    <3>4. own[k + 1] \in Int /\ own[k] \in Int  BY <1>1, <1>2, <3>1
    <3>5. own[k + 1] = own[k] + 1 \/ own[k + 1] = own[k]  BY <1>3, <3>1
    <3>6. k + 1 \in S <=> own[k + 1] = own[k] + 1  BY <1>4, <3>1
    <3>7. Upto(S, k + 1) = own[k + 1]  BY <3>1, <3>2, <3>3, <3>4, <3>5, <3>6
    <3> QED BY <3>1, <3>7
  <2> HIDE DEF T
  <2>3. 0..m \subseteq T  BY <1>1, <2>1, <2>2, InductiveUpto
  <2> QED BY <2>3 DEF T
<1>6. Cardinality(S) = n  BY <1>1, <1>2, <1>4, <1>5, UptoEnds
<1>7. ASSUME NEW j \in 1..m
      PROVE  /\ Upto(S, j) > 0
             /\ IF t[Upto(S, j)] \in Params THEN u[j] # "/" ELSE u[j] = t[Upto(S, j)] /\ j \in S
  <2>1. j \in 0..m  BY <1>1
  <2>2. Upto(S, j) = own[j]  BY <1>5, <2>1
  <2>3. own[j] >= 1 /\ own[j] \in Int  BY <1>1, <1>2, <1>3, <2>1
  <2>4. own[j] > 0  BY <2>3
  <2> QED BY <1>3, <1>4, <2>2, <2>4, Zenon
<1>8. S \in SUBSET DOMAIN u  BY <1>1, <1>4, Zenon
<1> QED BY <1>1, <1>6, <1>7, <1>8, Zenon DEF Fits, n

\* What symbols belong to lies in their order, and no more apart than they do.
LEMMA OwnGrows ==
  ASSUME NEW t \in Seq(Symbols), NEW u \in Seq(Symbols), NEW own, Owns(t, u, own),
         NEW i \in 0..Len(u), NEW j \in 0..Len(u), i <= j
  PROVE  own[i] <= own[j] /\ own[j] - own[i] <= j - i
<1> DEFINE m == Len(u)
           T == {d \in Nat : i + d <= m => own[i] <= own[i + d] /\ own[i + d] - own[i] <= d}
<1>1. m \in Nat /\ Len(t) \in Nat  BY LenProperties
<1>2. own \in [0..m -> 0..Len(t)]  BY DEF Owns
<1>3. \A k \in 1..m : own[k] = own[k - 1] + 1 \/ own[k] = own[k - 1]  BY Zenon DEF Owns
<1> HIDE DEF m
<1>4. i \in 0..m /\ j \in 0..m  BY DEF m
<1>5. 0 \in T  BY <1>1, <1>2, <1>4
<1>6. ASSUME NEW d \in Nat, d \in T PROVE d + 1 \in T
  <2> SUFFICES ASSUME i + (d + 1) <= m
               PROVE  own[i] <= own[i + (d + 1)] /\ own[i + (d + 1)] - own[i] <= d + 1
    OBVIOUS
  <2>1. i + d \in 0..m /\ i + (d + 1) \in 1..m /\ i + (d + 1) \in 0..m
        /\ (i + (d + 1)) - 1 = i + d /\ i + d <= m
    BY <1>1, <1>4
  <2>2. own[i] \in Int /\ own[i + d] \in Int /\ own[i + (d + 1)] \in Int
    BY <1>1, <1>2, <1>4, <2>1
  <2>3. own[i + (d + 1)] = own[i + d] + 1 \/ own[i + (d + 1)] = own[i + d]  BY <1>3, <2>1
  <2>4. own[i] <= own[i + d] /\ own[i + d] - own[i] <= d  BY <1>6, <2>1
  <2> QED BY <2>2, <2>3, <2>4
<1> HIDE DEF T
<1>7. Nat \subseteq T  BY <1>5, <1>6, Inductive
<1>8. j - i \in Nat /\ i + (j - i) = j /\ j <= m  BY <1>1, <1>4
<1>9. j - i \in T  BY <1>7, <1>8
<1> QED BY <1>8, <1>9 DEF T

\* The slashes of a path are places in it.
LEMMA SlashesOf ==
  ASSUME NEW t \in Seq(Symbols)
  PROVE  /\ Len(t) \in Nat /\ DOMAIN t = 1..Len(t)
         /\ \A i \in Slashes(t) : i \in 1..Len(t)
         /\ \A i \in 1..Len(t) : i \in Slashes(t) <=> t[i] = "/"
         /\ Cardinality(Slashes(t)) \in Nat
<1>1. Len(t) \in Nat /\ DOMAIN t = 1..Len(t)  BY LenProperties
<1>2. /\ \A i \in Slashes(t) : i \in 1..Len(t)
      /\ \A i \in 1..Len(t) : i \in Slashes(t) <=> t[i] = "/"
  BY <1>1, Zenon DEF Slashes
<1> QED BY <1>1, <1>2, UptoFinite, Zenon

\* As many slashes before any place as before what it belongs to.
LEMMA OwnSlashes ==
  ASSUME NEW t \in Seq(Symbols), NEW u \in Seq(Symbols), NEW own, Owns(t, u, own)
  PROVE  \A j \in 0..Len(u) : Upto(Slashes(u), j) = Upto(Slashes(t), own[j])
<1> DEFINE m == Len(u)  n == Len(t)
           S == Slashes(u)  R == Slashes(t)
           T == {j \in 0..m : Upto(S, j) = Upto(R, own[j])}
<1>1. m \in Nat /\ n \in Nat /\ (\A i \in S : i \in 1..m) /\ (\A i \in R : i \in 1..n)
      /\ (\A i \in 1..m : i \in S <=> u[i] = "/") /\ (\A i \in 1..n : i \in R <=> t[i] = "/")
  BY SlashesOf, Zenon
<1>2. own \in [0..m -> 0..n] /\ own[0] = 0  BY DEF Owns
<1>3. \A j \in 1..m :
        /\ own[j] >= 1
        /\ own[j] = own[j - 1] + 1 \/ own[j] = own[j - 1]
        /\ t[own[j]] \in Params => u[j] # "/"
        /\ t[own[j]] \notin Params => own[j] = own[j - 1] + 1 /\ u[j] = t[own[j]]
  BY Zenon DEF Owns
<1>4. "/" \notin Params  BY RulesAssumption
<1> HIDE DEF m, n, S, R
<1>5. 0 \in T  BY <1>1, <1>2, UptoEnds
<1>6. ASSUME NEW k \in 0..(m - 1), k \in T PROVE k + 1 \in T
  <2> DEFINE j == k + 1
  <2>1. j \in 1..m /\ j \in 0..m /\ k \in 0..m /\ j - 1 = k  BY <1>1
  <2> HIDE DEF j
  <2>2. own[j] \in Int /\ own[k] \in Int /\ own[j] \in 1..n
    BY <1>1, <1>2, <1>3, <2>1
  <2>3. /\ j \in S => Upto(S, j) = Upto(S, k) + 1
        /\ j \notin S => Upto(S, j) = Upto(S, k)
    BY <1>1, <2>1, UptoStep
  <2>4. /\ own[j] \in R => Upto(R, own[j]) = Upto(R, own[j] - 1) + 1
        /\ own[j] \notin R => Upto(R, own[j]) = Upto(R, own[j] - 1)
    BY <1>1, <2>2, UptoStep
  <2>5. Upto(S, k) = Upto(R, own[k])  BY <1>6
  <2>6. own[j] = own[k] + 1 => own[j] - 1 = own[k]  BY <2>2
  <2>7. Upto(S, j) = Upto(R, own[j])
    <3>1. CASE t[own[j]] \in Params
      <4>1. j \notin S /\ own[j] \notin R  BY <1>1, <1>3, <1>4, <2>1, <2>2, <3>1, Zenon
      <4>2. own[j] = own[k] + 1 \/ own[j] = own[k]  BY <1>3, <2>1
      <4> QED BY <2>3, <2>4, <2>5, <2>6, <4>1, <4>2, Zenon
    <3>2. CASE t[own[j]] \notin Params
      <4>1. own[j] = own[k] + 1 /\ u[j] = t[own[j]]  BY <1>3, <2>1, <3>2
      <4>2. j \in S <=> own[j] \in R  BY <1>1, <2>1, <2>2, <4>1, Zenon
      <4> QED BY <2>3, <2>4, <2>5, <2>6, <4>1, <4>2, Zenon
    <3> QED BY <3>1, <3>2
  <2> QED BY <2>1, <2>7 DEF j
<1> HIDE DEF T
<1>7. 0..m \subseteq T  BY <1>1, <1>5, <1>6, InductiveUpto
<1> QED BY <1>7 DEF T, S, R, m

\* A cut is the first place with so many slashes up to it.
LEMMA CutLeast ==
  ASSUME NEW t \in Seq(Symbols), NEW k
  PROVE  /\ Cut(t, k) \in 1..(Len(t) + 1)
         /\ \A i \in 1..Len(t) : Upto(Slashes(t), i) >= k => Cut(t, k) <= i
         /\ Cut(t, k) <= Len(t) => Upto(Slashes(t), Cut(t, k)) >= k
<1> DEFINE n == Len(t)
           D == {i \in 1..n : Upto(Slashes(t), i) >= k} \cup {n + 1}
<1>1. n \in Nat /\ DOMAIN t = 1..n  BY SlashesOf
<1>2. Cut(t, k) = Min(D)  BY <1>1 DEF Cut
<1>3. (\A i \in D : i \in 1..(n + 1)) /\ n + 1 \in D
      /\ (\A i \in 1..n : Upto(Slashes(t), i) >= k => i \in D)
      /\ \A i \in D : i <= n => Upto(Slashes(t), i) >= k
  BY <1>1
<1> HIDE DEF D, n
<1>4. D \subseteq Nat /\ D # {}
  BY <1>1, <1>3
<1>5. \E c \in D : \A i \in D : c <= i  BY <1>4, LeastNatural, Zenon
<1>6. Min(D) \in D /\ \A i \in D : Min(D) <= i  BY <1>5, Zenon DEF Min
<1> QED BY <1>2, <1>3, <1>6, Zenon DEF n

\* The slash that a segment begins with.
LEMMA CutIs ==
  ASSUME NEW t \in Seq(Symbols), NEW k \in 1..Cardinality(Slashes(t))
  PROVE  Cut(t, k) \in Slashes(t) /\ Upto(Slashes(t), Cut(t, k)) = k
<1> DEFINE n == Len(t)  S == Slashes(t)  c == Cut(t, k)
<1>1. n \in Nat /\ (\A i \in S : i \in 1..n) /\ Cardinality(S) \in Nat  BY SlashesOf
<1>2. /\ c \in 1..(n + 1)
      /\ \A i \in 1..n : Upto(S, i) >= k => c <= i
      /\ c <= n => Upto(S, c) >= k
  BY CutLeast, Zenon
<1> HIDE DEF n, S, c
<1>3. Upto(S, 0) = 0 /\ Upto(S, n) = Cardinality(S)  BY <1>1, UptoEnds
<1>4. k \in Nat /\ k >= 1 /\ k <= Cardinality(S)  BY <1>1 DEF S
<1>5. n >= 1
  <2> SUFFICES ASSUME n = 0 PROVE FALSE
    BY <1>1
  <2> QED BY <1>3, <1>4
<1>6. c \in 1..n /\ c - 1 \in 0..n
  <2>1. n \in 1..n /\ Upto(S, n) >= k  BY <1>1, <1>3, <1>4, <1>5
  <2>2. c <= n  BY <1>2, <2>1
  <2> QED BY <1>1, <1>2, <2>2
<1>7. Upto(S, c) \in Nat /\ Upto(S, c - 1) \in Nat  BY <1>1, UptoFinite
<1>8. Upto(S, c) >= k  BY <1>1, <1>2, <1>6
<1>9. Upto(S, c - 1) < k
  <2>1. CASE c = 1
    BY <1>3, <1>4, <2>1
  <2>2. CASE c # 1
    <3>1. c - 1 \in 1..n /\ ~(c <= c - 1)  BY <1>1, <1>6, <2>2
    <3>2. ~(Upto(S, c - 1) >= k)  BY <1>2, <3>1
    <3> QED BY <1>4, <1>7, <3>2
  <2> QED BY <2>1, <2>2
<1>10. /\ c \in S => Upto(S, c) = Upto(S, c - 1) + 1
       /\ c \notin S => Upto(S, c) = Upto(S, c - 1)
  BY <1>1, <1>6, UptoStep
<1>11. c \in S /\ Upto(S, c) = k  BY <1>4, <1>7, <1>8, <1>9, <1>10
<1> QED BY <1>11 DEF S, c

\* The slash k of a path is its cut k.
LEMMA CutOf ==
  ASSUME NEW t \in Seq(Symbols), NEW i \in Slashes(t)
  PROVE  /\ Upto(Slashes(t), i) \in 1..Cardinality(Slashes(t))
         /\ Cut(t, Upto(Slashes(t), i)) = i
<1> DEFINE n == Len(t)  S == Slashes(t)  k == Upto(S, i)  c == Cut(t, k)
<1>1. n \in Nat /\ (\A j \in S : j \in 1..n) /\ Cardinality(S) \in Nat  BY SlashesOf
<1>2. /\ c \in 1..(n + 1)
      /\ \A j \in 1..n : Upto(S, j) >= k => c <= j
      /\ c <= n => Upto(S, c) >= k
  BY CutLeast, Zenon
<1> HIDE DEF n, S, c
<1>3. i \in S /\ i \in 1..n  BY <1>1 DEF S
<1>4. Upto(S, i) \in Nat /\ Upto(S, i - 1) \in Nat /\ Upto(S, c) \in Nat  BY <1>1, UptoFinite
<1>5. Upto(S, i) = Upto(S, i - 1) + 1  BY <1>1, <1>3, UptoStep
<1>6. Upto(S, i) <= Upto(S, n) /\ Upto(S, n) = Cardinality(S)
  <2>1. i \in Int /\ n \in Int /\ i <= n  BY <1>1, <1>3
  <2> QED BY <1>1, <2>1, UptoGrows, UptoEnds
<1>7. k \in 1..Cardinality(S)  BY <1>1, <1>4, <1>5, <1>6
<1>8. c <= i  BY <1>2, <1>3, <1>4
<1>9. ~(c < i)
  <2> SUFFICES ASSUME c < i PROVE FALSE
    OBVIOUS
  <2>1. c \in Int /\ i - 1 \in Int /\ c <= i - 1 /\ c <= n  BY <1>1, <1>2, <1>3
  <2>2. Upto(S, c) <= Upto(S, i - 1)  BY <1>1, <2>1, UptoGrows
  <2>3. Upto(S, c) >= Upto(S, i)  BY <1>2, <2>1
  <2> QED BY <1>4, <1>5, <2>2, <2>3
<1>10. c = i  BY <1>1, <1>2, <1>3, <1>8, <1>9
<1> QED BY <1>7, <1>10 DEF S, c

\* After the last segment the path ends.
LEMMA CutLast ==
  ASSUME NEW t \in Seq(Symbols)
  PROVE  Cut(t, Cardinality(Slashes(t)) + 1) = Len(t) + 1
<1> DEFINE n == Len(t)  S == Slashes(t)  k == Cardinality(S) + 1  c == Cut(t, k)
<1>1. n \in Nat /\ (\A j \in S : j \in 1..n) /\ Cardinality(S) \in Nat  BY SlashesOf
<1>2. c \in 1..(n + 1) /\ (c <= n => Upto(S, c) >= k)  BY CutLeast, Zenon
<1> HIDE DEF n, S, c
<1>3. ~(c <= n)
  <2> SUFFICES ASSUME c <= n PROVE FALSE
    OBVIOUS
  <2>1. Upto(S, c) >= k  BY <1>2
  <2>2. c \in Int /\ n \in Int  BY <1>1, <1>2
  <2>3. Upto(S, c) <= Upto(S, n)  BY <1>1, <2>2, UptoGrows
  <2>4. Upto(S, n) = Cardinality(S) /\ Upto(S, c) \in Nat  BY <1>1, UptoEnds, UptoFinite
  <2> QED BY <1>1, <2>1, <2>3, <2>4
<1>4. c = n + 1  BY <1>1, <1>2, <1>3
<1> QED BY <1>4 DEF n, S, c

\* A segment is what follows its slash and goes up to the next.
LEMMA CutBetween ==
  ASSUME NEW t \in Seq(Symbols), NEW k \in 1..Cardinality(Slashes(t))
  PROVE  /\ Cut(t, k) \in 1..Len(t) /\ Cut(t, k + 1) \in 1..(Len(t) + 1)
         /\ Cut(t, k) < Cut(t, k + 1)
         /\ \A j \in 1..Len(t) :
              (Cut(t, k) <= j /\ j < Cut(t, k + 1)) <=> Upto(Slashes(t), j) = k
<1> DEFINE n == Len(t)  S == Slashes(t)  a == Cut(t, k)  b == Cut(t, k + 1)
<1>1. n \in Nat /\ (\A j \in S : j \in 1..n) /\ k \in Nat  BY SlashesOf
<1>2. /\ b \in 1..(n + 1)
      /\ \A i \in 1..n : Upto(S, i) >= k + 1 => b <= i
      /\ b <= n => Upto(S, b) >= k + 1
      /\ \A i \in 1..n : Upto(S, i) >= k => a <= i
  BY CutLeast, Zenon
<1>3. a \in S /\ Upto(S, a) = k  BY CutIs
<1> HIDE DEF n, S, a, b
<1>4. a \in 1..n  BY <1>1, <1>3
<1>5. ASSUME NEW j \in 1..n PROVE (a <= j /\ j < b) <=> Upto(S, j) = k
  <2>1. Upto(S, j) \in Nat /\ Upto(S, b) \in Nat  BY <1>1, UptoFinite
  <2>2. j \in Int /\ a \in Int /\ b \in Int /\ j <= n  BY <1>1, <1>2, <1>4
  <2>3. ASSUME a <= j, j < b PROVE Upto(S, j) = k
    <3>1. Upto(S, a) <= Upto(S, j)  BY <1>1, <2>2, <2>3, UptoGrows
    <3>2. ~(b <= j)  BY <2>2, <2>3
    <3>3. ~(Upto(S, j) >= k + 1)  BY <1>2, <3>2
    <3> QED BY <1>1, <1>3, <2>1, <3>1, <3>3
  <2>4. ASSUME Upto(S, j) = k PROVE a <= j /\ j < b
    <3>1. a <= j  BY <1>1, <1>2, <2>4
    <3>2. ~(b <= j)
      <4> SUFFICES ASSUME b <= j PROVE FALSE
        OBVIOUS
      <4>1. b <= n  BY <1>1, <2>2
      <4>2. Upto(S, b) >= k + 1  BY <1>2, <4>1
      <4>3. Upto(S, b) <= Upto(S, j)  BY <1>1, <2>2, UptoGrows
      <4> QED BY <1>1, <2>1, <2>4, <4>2, <4>3
    <3> QED BY <2>2, <3>1, <3>2
  <2> QED BY <2>3, <2>4
<1>6. a < b  BY <1>3, <1>4, <1>5
<1> QED BY <1>2, <1>4, <1>5, <1>6 DEF n, S, a, b

-----------------------------------------------------------------------------
(* Segments.                                                               *)

\* The segment k of t, by the places it takes.
LEMMA SegmentIs ==
  ASSUME NEW t \in Seq(Symbols), NEW k \in 1..Cardinality(Slashes(t)),
         NEW a, a = Cut(t, k), NEW b, b = Cut(t, k + 1)
  PROVE  /\ Segments(t)[k] \in Seq(Symbols)
         /\ Len(Segments(t)[k]) = b - (a + 1)
         /\ \A i \in 1..(b - (a + 1)) : Segments(t)[k][i] = t[a + i]
<1> DEFINE n == Len(t)
<1>1. a \in 1..n /\ b \in 1..(n + 1) /\ a < b /\ n \in Nat
  BY CutBetween, SlashesOf
<1>2. Segments(t)[k] = SubSeq(t, a + 1, b - 1)  BY DEF Segments
<1> HIDE DEF n
<1>3. \A i \in (a + 1)..(b - 1) : t[i] \in Symbols
  <2>1. \A i \in (a + 1)..(b - 1) : i \in 1..n  BY <1>1
  <2> QED BY <2>1, ElementOfSeq DEF n
<1>4. a + 1 \in Int /\ b - 1 \in Int  BY <1>1
<1> DEFINE s == SubSeq(t, a + 1, b - 1)
<1>5. /\ s \in Seq(Symbols)
      /\ Len(s) = IF a + 1 <= b - 1 THEN (b - 1) - (a + 1) + 1 ELSE 0
      /\ \A i \in 1..((b - 1) - (a + 1) + 1) : s[i] = t[(a + 1) + i - 1]
  BY <1>3, <1>4, SubSeqProperties
<1> HIDE DEF s
<1>6. Len(s) = b - (a + 1)  BY <1>1, <1>5
<1>7. ASSUME NEW i \in 1..(b - (a + 1)) PROVE s[i] = t[a + i]
  <2>1. i \in 1..((b - 1) - (a + 1) + 1) /\ (a + 1) + i - 1 = a + i  BY <1>1
  <2> QED BY <1>5, <2>1
<1> QED BY <1>2, <1>5, <1>6, <1>7 DEF s

\* There is one for each slash.
LEMMA SegmentsLen ==
  ASSUME NEW t \in Seq(Symbols)
  PROVE  /\ Len(Segments(t)) = Cardinality(Slashes(t))
         /\ DOMAIN Segments(t) = 1..Cardinality(Slashes(t))
<1>1. Cardinality(Slashes(t)) \in Nat  BY SlashesOf
<1>2. DOMAIN Segments(t) = 1..Cardinality(Slashes(t))  BY DEF Segments
<1> QED BY <1>1, <1>2

\* A segment without parameters.
LEMMA SegmentLiteral ==
  ASSUME NEW t \in Seq(Symbols), NEW k \in 1..Cardinality(Slashes(t)),
         NEW a, a = Cut(t, k), NEW b, b = Cut(t, k + 1)
  PROVE  IsLiteral(Segments(t)[k])
           <=> \A i \in 1..(b - (a + 1)) : t[a + i] \notin Params
<1> DEFINE s == Segments(t)[k]
<1>1. /\ s \in Seq(Symbols) /\ Len(s) = b - (a + 1)
      /\ \A i \in 1..(b - (a + 1)) : s[i] = t[a + i]
  BY SegmentIs
<1> HIDE DEF s
<1>2. DOMAIN s = 1..(b - (a + 1))  BY <1>1, LenProperties
<1>3. IsLiteral(s) <=> \A i \in DOMAIN s : s[i] \notin Params
  BY DEF IsLiteral, ParamsOf, ToSet
<1>4. IsLiteral(s) <=> \A i \in 1..(b - (a + 1)) : t[a + i] \notin Params
  BY <1>1, <1>2, <1>3
<1> QED BY <1>4 DEF s

-----------------------------------------------------------------------------
(* Expressions and segments.                                               *)

\* The paths that have the segments of t.
Matching(t, u) ==
  /\ Len(Segments(t)) = Len(Segments(u))
  /\ \A k \in DOMAIN Segments(t) :
       IF IsLiteral(Segments(t)[k]) THEN Segments(t)[k] = Segments(u)[k]
       ELSE Segments(u)[k] # <<>>

\* A path has its own segments.
LEMMA MatchingSelf ==
  ASSUME NEW t
  PROVE  Matching(t, t)
<1>1. ASSUME NEW i \in DOMAIN Segments(t), ~IsLiteral(Segments(t)[i])
      PROVE  Segments(t)[i] # <<>>
  <2>1. DOMAIN <<>> = {}  OBVIOUS
  <2> QED BY <1>1, <2>1 DEF IsLiteral, ParamsOf, ToSet
<1> QED BY <1>1 DEF Matching

\* A path has as many slashes as an expression that fits it.
LEMMA OwnCount ==
  ASSUME NEW t \in Seq(Symbols), NEW u \in Seq(Symbols), NEW own, Owns(t, u, own)
  PROVE  Cardinality(Slashes(u)) = Cardinality(Slashes(t))
<1>1. Len(u) \in Nat /\ Len(t) \in Nat /\ own[Len(u)] = Len(t)  BY SlashesOf DEF Owns
<1>2. Len(u) \in 0..Len(u)  BY <1>1
<1>3. Upto(Slashes(u), Len(u)) = Upto(Slashes(t), own[Len(u)])  BY <1>2, OwnSlashes
<1>4. (\A i \in Slashes(u) : i \in 1..Len(u)) /\ \A i \in Slashes(t) : i \in 1..Len(t)
  BY SlashesOf
<1>5. Upto(Slashes(u), Len(u)) = Cardinality(Slashes(u))  BY <1>1, <1>4, UptoEnds
<1>6. Upto(Slashes(t), Len(t)) = Cardinality(Slashes(t))  BY <1>1, <1>4, UptoEnds
<1> QED BY <1>1, <1>3, <1>5, <1>6

\* Slashes belong to slashes.
LEMMA OwnCut ==
  ASSUME NEW t \in Seq(Symbols), NEW u \in Seq(Symbols), NEW own, Owns(t, u, own),
         NEW k \in 1..Cardinality(Slashes(u))
  PROVE  own[Cut(u, k)] = Cut(t, k) /\ own[Cut(u, k) - 1] = Cut(t, k) - 1
<1> DEFINE m == Len(u)  c == Cut(u, k)
<1>1. c \in Slashes(u) /\ Upto(Slashes(u), c) = k  BY CutIs
<1>2. c \in 1..m /\ u[c] = "/" /\ m \in Nat /\ Len(t) \in Nat
  BY <1>1, SlashesOf
<1>3. "/" \notin Params  BY RulesAssumption
<1>4. /\ own \in [0..m -> 0..Len(t)]
      /\ own[c] >= 1
      /\ t[own[c]] \in Params => u[c] # "/"
      /\ t[own[c]] \notin Params => own[c] = own[c - 1] + 1 /\ u[c] = t[own[c]]
  BY <1>2, Zenon DEF Owns
<1>5. c \in 0..m /\ c - 1 \in 0..m  BY <1>2
<1> HIDE DEF m, c
<1>6. own[c] = own[c - 1] + 1 /\ t[own[c]] = "/"  BY <1>2, <1>3, <1>4
<1>7. own[c] \in 1..Len(t) /\ own[c - 1] \in Int  BY <1>2, <1>4, <1>5
<1>8. own[c] \in Slashes(t)  BY <1>6, <1>7, SlashesOf
<1>9. Upto(Slashes(t), own[c]) = k  BY <1>1, <1>5, OwnSlashes DEF m, c
<1>10. Cut(t, k) = own[c]  BY <1>8, <1>9, CutOf, Zenon
<1> QED BY <1>6, <1>7, <1>10 DEF c

\* So a path that an expression fits has its segments.
LEMMA FitsMatching ==
  ASSUME NEW t \in Seq(Symbols), NEW u \in Seq(Symbols), Fits(t, u)
  PROVE  Matching(t, u)
<1>1. PICK own : Owns(t, u, own)  BY FitsOwns
<1> DEFINE m == Len(u)  n == Len(t)  N == Cardinality(Slashes(t))
<1>2. Cardinality(Slashes(u)) = N /\ N \in Nat /\ m \in Nat /\ n \in Nat
  BY <1>1, OwnCount, SlashesOf
<1>3. /\ own \in [0..m -> 0..n] /\ own[m] = n
      /\ \A j \in 1..m : t[own[j]] \notin Params => own[j] = own[j - 1] + 1 /\ u[j] = t[own[j]]
  BY <1>1, Zenon DEF Owns
<1>4. Len(Segments(t)) = Len(Segments(u)) /\ DOMAIN Segments(t) = 1..N
  BY <1>2, SegmentsLen
<1>5. ASSUME NEW k \in 1..N
      PROVE  IF IsLiteral(Segments(t)[k]) THEN Segments(t)[k] = Segments(u)[k]
             ELSE Segments(u)[k] # <<>>
  <2> DEFINE a == Cut(u, k)  b == Cut(u, k + 1)  A == Cut(t, k)  B == Cut(t, k + 1)
             T == Segments(t)[k]  U == Segments(u)[k]
  <2>1. /\ a \in 1..m /\ b \in 1..(m + 1) /\ a < b
        /\ A \in 1..n /\ B \in 1..(n + 1) /\ A < B
    BY <1>2, CutBetween
  <2>2. own[a] = A  BY <1>1, <1>2, OwnCut
  <2>3. own[b - 1] = B - 1
    <3>1. CASE k = N
      <4>1. b = m + 1 /\ B = n + 1  BY <1>2, <3>1, CutLast
      <4> QED BY <1>2, <1>3, <4>1
    <3>2. CASE k # N
      <4>1. k + 1 \in 1..N  BY <1>2, <3>2
      <4> QED BY <1>1, <1>2, <4>1, OwnCut
    <3> QED BY <3>1, <3>2
  <2>4. /\ T \in Seq(Symbols) /\ Len(T) = B - (A + 1)
        /\ \A i \in 1..(B - (A + 1)) : T[i] = t[A + i]
    <3>1. k \in 1..Cardinality(Slashes(t))  OBVIOUS
    <3> QED BY <3>1, SegmentIs
  <2>5. /\ U \in Seq(Symbols) /\ Len(U) = b - (a + 1)
        /\ \A i \in 1..(b - (a + 1)) : U[i] = u[a + i]
    <3>1. k \in 1..Cardinality(Slashes(u))  BY <1>2
    <3> QED BY <3>1, SegmentIs
  <2>6. IsLiteral(T) <=> \A i \in 1..(B - (A + 1)) : t[A + i] \notin Params
    BY <1>2, SegmentLiteral
  <2> HIDE DEF a, b, A, B, T, U, m, n, N
  <2>7. ASSUME NEW j \in a..(b - 1)
        PROVE  j \in 0..m /\ own[j] \in Int /\ A <= own[j] /\ own[j] <= B - 1
    <3>1. j \in 0..m /\ a \in 0..m /\ b - 1 \in 0..m /\ a <= j /\ j <= b - 1  BY <1>2, <2>1
    <3>2. own[j] \in 0..n  BY <1>3, <3>1
    <3>3. own[a] <= own[j]  BY <1>1, <3>1, OwnGrows DEF m
    <3>4. own[j] <= own[b - 1]  BY <1>1, <3>1, OwnGrows DEF m
    <3> QED BY <1>2, <2>2, <2>3, <3>1, <3>2, <3>3, <3>4
  <2>8. CASE IsLiteral(T)
    <3> DEFINE S == {d \in 0..((b - 1) - a) : own[a + d] = A + d}
    <3>1. 0 \in S  BY <2>1, <2>2
    <3>2. ASSUME NEW j \in (a + 1)..(b - 1)
          PROVE  own[j] = own[j - 1] + 1 /\ u[j] = t[own[j]]
      <4>1. j \in 1..m /\ j \in a..(b - 1) /\ j - 1 \in a..(b - 1) /\ a \in a..(b - 1)
            /\ j - 1 \in 0..m /\ j \in 0..m
        BY <1>2, <2>1
      <4>2. own[j - 1] <= own[j]
        <5>1. j - 1 <= j  BY <1>2, <4>1
        <5> QED BY <1>1, <4>1, <5>1, OwnGrows DEF m
      <4>3. own[j] >= 1 /\ own[j] \in 0..n /\ (own[j] = own[j - 1] + 1 \/ own[j] = own[j - 1])
        BY <1>1, <1>3, <4>1, Zenon DEF Owns, m
      <4>4. t[own[j]] \notin Params
        <5>1. own[j] \in Int /\ A <= own[j] /\ own[j] <= B - 1  BY <2>7, <4>1
        <5>2. CASE own[j] = A
          <6>1. A \in Slashes(t)  BY <1>2, CutIs DEF A, N
          <6>2. t[A] = "/"  BY <6>1, SlashesOf
          <6> QED BY <5>2, <6>2, RulesAssumption
        <5>3. CASE own[j] # A
          <6>1. own[j] - A \in 1..(B - (A + 1)) /\ A + (own[j] - A) = own[j]
            BY <1>2, <2>1, <5>1, <5>3
          <6> QED BY <2>6, <2>8, <6>1
        <5> QED BY <5>2, <5>3
      <4> QED BY <1>3, <4>1, <4>4
    <3>3. ASSUME NEW d \in 0..(((b - 1) - a) - 1), d \in S PROVE d + 1 \in S
      <4>1. a + (d + 1) \in (a + 1)..(b - 1) /\ (a + (d + 1)) - 1 = a + d
            /\ d + 1 \in 0..((b - 1) - a) /\ d \in 0..((b - 1) - a)
        BY <1>2, <2>1
      <4>2. own[a + (d + 1)] = own[a + d] + 1  BY <3>2, <4>1
      <4>3. own[a + d] = A + d  BY <3>3
      <4>4. own[a + (d + 1)] = A + (d + 1)  BY <1>2, <2>1, <4>2, <4>3
      <4> QED BY <4>1, <4>4
    <3>4. (b - 1) - a \in Nat  BY <1>2, <2>1
    <3>5. \A d \in 0..((b - 1) - a) : own[a + d] = A + d
      <4> HIDE DEF S
      <4>1. 0..((b - 1) - a) \subseteq S  BY <3>1, <3>3, <3>4, InductiveUpto
      <4> QED BY <4>1 DEF S
    <3>6. (b - 1) - a = (B - 1) - A
      <4>1. (b - 1) - a \in 0..((b - 1) - a) /\ a + ((b - 1) - a) = b - 1
        BY <1>2, <2>1, <3>4
      <4>2. own[b - 1] = A + ((b - 1) - a)  BY <3>5, <4>1
      <4> QED BY <1>2, <2>1, <2>3, <4>2
    <3>7. Len(T) = Len(U)  BY <1>2, <2>1, <2>4, <2>5, <3>6
    <3>8. ASSUME NEW i \in 1..Len(T) PROVE T[i] = U[i]
      <4>1. i \in 1..(B - (A + 1)) /\ i \in 1..(b - (a + 1)) /\ i \in 0..((b - 1) - a)
            /\ a + i \in (a + 1)..(b - 1)
        BY <1>2, <2>1, <2>4, <2>5, <3>7
      <4>2. u[a + i] = t[own[a + i]] /\ own[a + i] = A + i  BY <3>2, <3>5, <4>1
      <4> QED BY <2>4, <2>5, <4>1, <4>2
    <3>9. T = U  BY <2>4, <2>5, <3>7, <3>8, SeqEqual
    <3> QED BY <2>8, <3>9 DEF T, U
  <2>9. CASE ~IsLiteral(T)
    <3>1. PICK i \in 1..(B - (A + 1)) : t[A + i] \in Params  BY <2>6, <2>9
    <3>2. B - 1 > A  BY <1>2, <2>1, <3>1
    <3>3. a # b - 1  BY <1>2, <2>1, <2>2, <2>3, <3>2
    <3>4. Len(U) # 0  BY <1>2, <2>1, <2>5, <3>3
    <3>5. U # <<>>  BY <3>4
    <3> QED BY <2>9, <3>5 DEF T, U
  <2> QED BY <2>8, <2>9
<1> QED BY <1>4, <1>5, Zenon DEF Matching

\* A segment of a path and the one that it has to be like.
LEMMA SegmentsLike ==
  ASSUME NEW t \in Seq(Symbols), NEW u \in Seq(Symbols), Whole(t), Matching(t, u),
         NEW k \in 1..Cardinality(Slashes(t))
  PROVE  LET a == Cut(u, k)  b == Cut(u, k + 1)  A == Cut(t, k)  B == Cut(t, k + 1) IN
         /\ a \in 1..Len(u) /\ b \in 1..(Len(u) + 1) /\ a < b /\ u[a] = "/"
         /\ A \in 1..Len(t) /\ B \in 1..(Len(t) + 1) /\ A < B /\ t[A] = "/"
         /\ IsLiteral(Segments(t)[k]) =>
              /\ b - a = B - A
              /\ \A i \in 1..(b - (a + 1)) : u[a + i] = t[A + i] /\ t[A + i] \notin Params
         /\ ~IsLiteral(Segments(t)[k]) => B = A + 2 /\ b >= a + 2 /\ t[A + 1] \in Params
<1> DEFINE a == Cut(u, k)  b == Cut(u, k + 1)  A == Cut(t, k)  B == Cut(t, k + 1)
           T == Segments(t)[k]  U == Segments(u)[k]
<1>1. /\ Cardinality(Slashes(u)) = Cardinality(Slashes(t))
      /\ DOMAIN Segments(t) = 1..Cardinality(Slashes(t))
  BY SegmentsLen DEF Matching
<1>2. k \in 1..Cardinality(Slashes(u)) /\ k \in 1..Cardinality(Slashes(t))  BY <1>1
<1>3. /\ a \in 1..Len(u) /\ b \in 1..(Len(u) + 1) /\ a < b /\ a \in Slashes(u)
      /\ A \in 1..Len(t) /\ B \in 1..(Len(t) + 1) /\ A < B /\ A \in Slashes(t)
      /\ Len(u) \in Nat /\ Len(t) \in Nat
  BY <1>2, CutBetween, CutIs, SlashesOf
<1>4. u[a] = "/" /\ t[A] = "/"  BY <1>3, SlashesOf
<1>5. a \in Int /\ b \in Int /\ A \in Int /\ B \in Int  BY <1>3
<1>6. /\ T \in Seq(Symbols) /\ Len(T) = B - (A + 1)
      /\ \A i \in 1..(B - (A + 1)) : T[i] = t[A + i]
  BY <1>2, SegmentIs
<1>7. /\ U \in Seq(Symbols) /\ Len(U) = b - (a + 1)
      /\ \A i \in 1..(b - (a + 1)) : U[i] = u[a + i]
  BY <1>2, SegmentIs
<1>8. IsLiteral(T) <=> \A i \in 1..(B - (A + 1)) : t[A + i] \notin Params
  BY <1>2, SegmentLiteral
<1>9. IF IsLiteral(T) THEN T = U ELSE U # <<>>
  BY <1>1, <1>2, Zenon DEF Matching
<1>10. IsLiteral(T) \/ Len(T) = 1
  <2>1. T \in ToSet(Segments(t))  BY <1>1, <1>2 DEF ToSet
  <2> QED BY <2>1, Zenon DEF Whole
<1> HIDE DEF T, U, a, b, A, B
<1>11. ASSUME IsLiteral(T)
       PROVE  /\ b - a = B - A
              /\ \A i \in 1..(b - (a + 1)) : u[a + i] = t[A + i] /\ t[A + i] \notin Params
  <2>1. T = U  BY <1>9, <1>11
  <2>2. b - (a + 1) = B - (A + 1)  BY <1>6, <1>7, <2>1
  <2>3. b - a = B - A  BY <1>5, <2>2
  <2> QED BY <1>6, <1>7, <1>8, <1>11, <2>1, <2>2, <2>3
<1>12. ASSUME ~IsLiteral(T) PROVE B = A + 2 /\ b >= a + 2 /\ t[A + 1] \in Params
  <2>1. B - (A + 1) = 1  BY <1>6, <1>10, <1>12
  <2>2. B = A + 2  BY <1>5, <2>1
  <2>3. t[A + 1] \in Params
    <3>1. PICK i \in 1..(B - (A + 1)) : t[A + i] \in Params  BY <1>8, <1>12
    <3>2. i = 1  BY <2>1, <3>1
    <3> QED BY <3>1, <3>2
  <2>4. Len(U) # 0  BY <1>7, <1>9, <1>12, EmptySeq
  <2>5. b - (a + 1) # 0  BY <1>7, <2>4
  <2>6. b >= a + 2  BY <1>3, <1>5, <2>5
  <2> QED BY <2>2, <2>3, <2>6
<1> QED BY <1>3, <1>4, <1>11, <1>12, Zenon DEF T, a, b, A, B

\* The place in t that u[j] belongs to.
Place(t, u, j) ==
  LET k == Upto(Slashes(u), j)
      a == Cut(u, k)
      A == Cut(t, k)
  IN  IF j = a THEN A ELSE IF IsLiteral(Segments(t)[k]) THEN A + (j - a) ELSE A + 1

\* It is in the same segment, and no symbol is out of place.
LEMMA PlaceIs ==
  ASSUME NEW t \in Seq(Symbols), NEW u \in Seq(Symbols), Whole(t), Matching(t, u),
         NEW j \in 1..Len(u), u[1] = "/"
  PROVE  LET k == Upto(Slashes(u), j)
             a == Cut(u, k)  b == Cut(u, k + 1)  A == Cut(t, k)  B == Cut(t, k + 1)
             p == Place(t, u, j)
         IN
         /\ k \in 1..Cardinality(Slashes(t)) /\ a <= j /\ j < b
         /\ p \in Int /\ A <= p /\ p <= B - 1
         /\ j = a => p = A
         /\ j = b - 1 => p = B - 1
         /\ t[p] \in Params => u[j] # "/"
         /\ t[p] \notin Params => u[j] = t[p] /\ (j # a => IsLiteral(Segments(t)[k]))
<1> DEFINE m == Len(u)  S == Slashes(u)  k == Upto(S, j)
           a == Cut(u, k)  b == Cut(u, k + 1)  A == Cut(t, k)  B == Cut(t, k + 1)
           p == Place(t, u, j)
           Goal ==
             /\ k \in 1..Cardinality(Slashes(t)) /\ a <= j /\ j < b
             /\ p \in Int /\ A <= p /\ p <= B - 1
             /\ j = a => p = A
             /\ j = b - 1 => p = B - 1
             /\ t[p] \in Params => u[j] # "/"
             /\ t[p] \notin Params => u[j] = t[p] /\ (j # a => IsLiteral(Segments(t)[k]))
<1>1. m \in Nat /\ (\A i \in S : i \in 1..m) /\ (\A i \in 1..m : i \in S <=> u[i] = "/")
      /\ Cardinality(S) \in Nat
  BY SlashesOf
<1>2. Cardinality(S) = Cardinality(Slashes(t))
  BY SegmentsLen DEF Matching
<1> HIDE DEF m, S
<1>3. j \in 1..m /\ 1 \in 1..m /\ 1 \in S /\ j \in Int /\ m \in Int /\ 1 <= j /\ j <= m
  BY <1>1 DEF m
<1>4. k \in 1..Cardinality(S)
  <2>1. Upto(S, 1) = Upto(S, 0) + 1 /\ Upto(S, 0) = 0 /\ Upto(S, m) = Cardinality(S)
    <3>1. 1 \in S => Upto(S, 1) = Upto(S, 1 - 1) + 1  BY <1>1, <1>3, UptoStep, Zenon
    <3> QED BY <1>1, <1>3, <3>1, UptoEnds
  <2>2. Upto(S, 1) <= Upto(S, j) /\ Upto(S, j) <= Upto(S, m)  BY <1>1, <1>3, UptoGrows
  <2>3. Upto(S, j) \in Nat  BY <1>1, UptoFinite
  <2> QED BY <1>1, <2>1, <2>2, <2>3
<1>5. k \in 1..Cardinality(Slashes(u)) /\ k \in 1..Cardinality(Slashes(t))  BY <1>2, <1>4 DEF S
<1>6. a <= j /\ j < b  BY <1>5, CutBetween DEF S
<1>7. /\ a \in 1..Len(u) /\ b \in 1..(Len(u) + 1) /\ a < b /\ u[a] = "/"
      /\ A \in 1..Len(t) /\ B \in 1..(Len(t) + 1) /\ A < B /\ t[A] = "/"
      /\ IsLiteral(Segments(t)[k]) =>
           /\ b - a = B - A
           /\ \A i \in 1..(b - (a + 1)) : u[a + i] = t[A + i] /\ t[A + i] \notin Params
      /\ ~IsLiteral(Segments(t)[k]) => B = A + 2 /\ b >= a + 2 /\ t[A + 1] \in Params
  BY <1>5, SegmentsLike
<1>8. p = IF j = a THEN A ELSE IF IsLiteral(Segments(t)[k]) THEN A + (j - a) ELSE A + 1
  BY Zenon DEF Place, S
<1> HIDE DEF k, a, b, A, B, p
<1>9. "/" \notin Params  BY RulesAssumption
<1>10. j # a => u[j] # "/"
  <2> SUFFICES ASSUME u[j] = "/" PROVE j = a
    OBVIOUS
  <2>1. j \in Slashes(u)  BY <1>1, <1>3 DEF S
  <2> QED BY <2>1, CutOf DEF a, k, S
<1>11. a \in Int /\ b \in Int /\ A \in Int /\ B \in Int  BY <1>1, <1>7, SlashesOf
<1>12. ASSUME j = a PROVE Goal
  <2>1. p = A /\ u[j] = t[p] /\ t[p] \notin Params  BY <1>7, <1>8, <1>9, <1>12
  <2>2. j = b - 1 => p = B - 1
    <3>1. CASE IsLiteral(Segments(t)[k])
      BY <1>7, <1>11, <1>12, <2>1, <3>1
    <3>2. CASE ~IsLiteral(Segments(t)[k])
      <4>1. b >= a + 2  BY <1>7, <3>2
      <4> QED BY <1>11, <1>12, <4>1
    <3> QED BY <3>1, <3>2
  <2> QED BY <1>5, <1>6, <1>7, <1>11, <1>12, <2>1, <2>2
<1>13. ASSUME j # a, IsLiteral(Segments(t)[k]) PROVE Goal
  <2>1. p = A + (j - a)  BY <1>8, <1>13
  <2>2. j - a \in 1..(b - (a + 1)) /\ a + (j - a) = j  BY <1>3, <1>6, <1>11, <1>13
  <2>3. u[j] = t[p] /\ t[p] \notin Params  BY <1>7, <1>13, <2>1, <2>2
  <2>4. b - a = B - A  BY <1>7, <1>13
  <2>5. p \in Int /\ A <= p /\ p <= B - 1 /\ (j = b - 1 => p = B - 1)
    <3>1. j <= b - 1 /\ j \in Int  BY <1>3, <1>6, <1>11
    <3>2. B - 1 = A + ((b - 1) - a)  BY <1>11, <2>4
    <3> QED BY <1>6, <1>11, <2>1, <3>1, <3>2
  <2> QED BY <1>5, <1>6, <1>13, <2>3, <2>5
<1>14. ASSUME j # a, ~IsLiteral(Segments(t)[k]) PROVE Goal
  <2>1. p = A + 1 /\ B = A + 2 /\ t[p] \in Params  BY <1>7, <1>8, <1>14
  <2>2. p \in Int /\ A <= p /\ p <= B - 1 /\ p = B - 1  BY <1>11, <2>1
  <2> QED BY <1>5, <1>6, <1>10, <1>14, <2>1, <2>2
<1>15. Goal  BY <1>12, <1>13, <1>14, Zenon
<1> QED BY <1>15, Zenon DEF k, a, b, A, B, p, S

\* A path that begins with a slash, or the empty one.
Rooted(t) == t = <<>> \/ t[1] = "/"

\* A path with the segments of an expression is one that it fits, if parameters
\* are whole segments.
LEMMA MatchingFits ==
  ASSUME NEW t \in Seq(Symbols), NEW u \in Seq(Symbols), Rooted(t), Rooted(u),
         Whole(t), Matching(t, u)
  PROVE  Fits(t, u)
<1> DEFINE m == Len(u)  n == Len(t)  N == Cardinality(Slashes(t))
           K(j) == Upto(Slashes(u), j)
           own == [j \in 0..m |-> IF j = 0 THEN 0 ELSE Place(t, u, j)]
<1>1. m \in Nat /\ n \in Nat /\ N \in Nat /\ (\A i \in Slashes(u) : i \in 1..m)
      /\ (\A i \in 1..m : i \in Slashes(u) <=> u[i] = "/")
      /\ \A i \in 1..n : i \in Slashes(t) <=> t[i] = "/"
  BY SlashesOf
<1>2. Cardinality(Slashes(u)) = N
  BY SegmentsLen DEF Matching
<1>3. CASE m = 0
  <2>1. N = 0  BY <1>1, <1>2, <1>3, UptoEnds
  <2>2. n = 0
    <3> SUFFICES ASSUME n # 0 PROVE FALSE
      OBVIOUS
    <3>1. 1 \in 1..n /\ t # <<>>  BY <1>1
    <3>2. 1 \in Slashes(t)  BY <1>1, <3>1 DEF Rooted
    <3>3. Upto(Slashes(t), 1) \in 1..N  BY <3>2, CutOf
    <3> QED BY <2>1, <3>3
  <2>3. Owns(t, u, [j \in 0..0 |-> 0])  BY <1>3, <2>2 DEF Owns
  <2> QED BY <2>3, OwnsFits
<1>4. CASE m # 0
  <2>1. 1 \in 1..m /\ m \in 1..m /\ u # <<>>  BY <1>1, <1>4
  <2>2. u[1] = "/"  BY <2>1 DEF Rooted
  <2>3. ASSUME NEW j \in 1..m
        PROVE  LET k == K(j)
                   a == Cut(u, k)  b == Cut(u, k + 1)  A == Cut(t, k)  B == Cut(t, k + 1)
                   p == Place(t, u, j)
               IN
               /\ k \in 1..N /\ a <= j /\ j < b
               /\ p \in Int /\ A <= p /\ p <= B - 1
               /\ j = a => p = A
               /\ j = b - 1 => p = B - 1
               /\ t[p] \in Params => u[j] # "/"
               /\ t[p] \notin Params => u[j] = t[p] /\ (j # a => IsLiteral(Segments(t)[k]))
    BY <2>2, PlaceIs
  <2>4. ASSUME NEW k \in 1..N
        PROVE  /\ Cut(u, k) \in 1..m /\ Cut(u, k + 1) \in 1..(m + 1)
               /\ Cut(t, k) \in 1..n /\ Cut(t, k + 1) \in 1..(n + 1)
               /\ Cut(t, k) < Cut(t, k + 1) /\ Cut(u, k) < Cut(u, k + 1)
    BY SegmentsLike
  <2>5. \A j \in 1..m : own[j] = Place(t, u, j)  BY <1>1
  <2>6. own[0] = 0  BY <1>1
  <2>7. ASSUME NEW j \in 1..m PROVE Place(t, u, j) \in 1..n
    <3> DEFINE k == K(j)  A == Cut(t, k)  B == Cut(t, k + 1)  p == Place(t, u, j)
    <3>1. k \in 1..N /\ p \in Int /\ A <= p /\ p <= B - 1  BY <2>3
    <3>2. A \in 1..n /\ B \in 1..(n + 1)  BY <2>4, <3>1
    <3> HIDE DEF A, B, p
    <3>3. p \in 1..n  BY <1>1, <3>1, <3>2
    <3> QED BY <3>3 DEF p
  <2>8. own \in [0..m -> 0..n]
    <3> HIDE DEF m, n
    <3>1. ASSUME NEW j \in 0..m PROVE (IF j = 0 THEN 0 ELSE Place(t, u, j)) \in 0..n
      <4>1. CASE j = 0
        BY <1>1, <4>1
      <4>2. CASE j # 0
        <5>1. j \in 1..m  BY <1>1, <4>2
        <5> QED BY <1>1, <2>7, <4>2, <5>1
      <4> QED BY <4>1, <4>2
    <3> QED BY <3>1
  <2>9. own[m] = n
    <3> DEFINE k == K(m)
    <3>1. k = N  BY <1>1, <1>2, UptoEnds
    <3>2. Cut(u, N + 1) = m + 1 /\ Cut(t, N + 1) = n + 1  BY <1>2, CutLast
    <3>3. m = Cut(u, k + 1) - 1 => Place(t, u, m) = Cut(t, k + 1) - 1  BY <2>1, <2>3
    <3>4. Place(t, u, m) = n  BY <1>1, <3>1, <3>2, <3>3
    <3> QED BY <2>1, <2>5, <3>4
  <2> HIDE DEF own
  <2>10. ASSUME NEW j \in 1..m
         PROVE  /\ own[j] >= 1
                /\ own[j] = own[j - 1] + 1 \/ own[j] = own[j - 1]
                /\ t[own[j]] \in Params => u[j] # "/"
                /\ t[own[j]] \notin Params => own[j] = own[j - 1] + 1 /\ u[j] = t[own[j]]
    <3> DEFINE k == K(j)  a == Cut(u, k)  b == Cut(u, k + 1)
               A == Cut(t, k)  B == Cut(t, k + 1)  p == Place(t, u, j)
    <3>1. /\ k \in 1..N /\ a <= j /\ j < b
          /\ p \in Int /\ A <= p /\ p <= B - 1
          /\ j = a => p = A
          /\ t[p] \in Params => u[j] # "/"
          /\ t[p] \notin Params => u[j] = t[p] /\ (j # a => IsLiteral(Segments(t)[k]))
      BY <2>3
    <3>2. own[j] = p  BY <2>5
    <3>3. /\ a \in 1..m /\ b \in 1..(m + 1) /\ A \in 1..n /\ B \in 1..(n + 1) /\ A < B
      BY <2>4, <3>1
    <3>4. p \in 1..n  BY <2>7
    <3>5. j \in Int /\ a \in Int /\ A \in Int  BY <1>1, <3>3
    <3>6. j = a => own[j - 1] = A - 1
      <4> SUFFICES ASSUME j = a PROVE own[j - 1] = A - 1
        OBVIOUS
      <4>1. j \in Slashes(u)
        <5>1. k \in 1..Cardinality(Slashes(u))  BY <1>2, <3>1
        <5> QED BY <5>1, CutIs
      <4>2. Upto(Slashes(u), j) = Upto(Slashes(u), j - 1) + 1
        BY <1>1, <4>1, UptoStep
      <4>3. CASE j = 1
        <5>1. Upto(Slashes(u), 0) = 0  BY <1>1, UptoEnds
        <5>2. k = 1  BY <4>2, <4>3, <5>1
        <5>3. A = 1
          <6>1. t # <<>> /\ n >= 1  BY <1>1, <3>3
          <6>2. t[1] = "/" /\ 1 \in 1..n  BY <1>1, <6>1 DEF Rooted
          <6>3. 1 \in Slashes(t)  BY <1>1, <6>2
          <6>4. Upto(Slashes(t), 1) = Upto(Slashes(t), 1 - 1) + 1
            <7>1. \A i \in Slashes(t) : i \in 1..n  BY SlashesOf
            <7> QED BY <1>1, <6>2, <6>3, <7>1, UptoStep
          <6>5. Upto(Slashes(t), 0) = 0
            <7>1. \A i \in Slashes(t) : i \in 1..n  BY SlashesOf
            <7> QED BY <1>1, <7>1, UptoEnds
          <6>6. Upto(Slashes(t), 1) = 1  BY <6>4, <6>5
          <6> QED BY <5>2, <6>3, <6>6, CutOf
        <5> QED BY <2>6, <4>3, <5>3
      <4>4. CASE j # 1
        <5>1. j - 1 \in 1..m  BY <1>1, <4>4
        <5> DEFINE i == j - 1  h == K(i)
        <5>2. h \in 1..N /\ (i = Cut(u, h + 1) - 1 => Place(t, u, i) = Cut(t, h + 1) - 1)
          BY <2>3, <5>1
        <5>3. h + 1 = k  BY <4>2
        <5>4. i = Cut(u, h + 1) - 1  BY <5>3
        <5>5. Place(t, u, i) = A - 1  BY <5>2, <5>3, <5>4
        <5> QED BY <2>5, <5>1, <5>5
      <4> QED BY <4>3, <4>4
    <3>7. j # a => /\ own[j - 1] \in Int
                   /\ own[j] = own[j - 1] + 1 \/ own[j] = own[j - 1]
                   /\ IsLiteral(Segments(t)[k]) => own[j] = own[j - 1] + 1
      <4> SUFFICES ASSUME j # a
                   PROVE /\ own[j - 1] \in Int
                         /\ own[j] = own[j - 1] + 1 \/ own[j] = own[j - 1]
                         /\ IsLiteral(Segments(t)[k]) => own[j] = own[j - 1] + 1
        OBVIOUS
      <4>1. j - 1 \in 1..m /\ a <= j - 1 /\ j - 1 < b  BY <1>1, <3>1, <3>3
      <4>2. Upto(Slashes(u), j - 1) = k
        <5>1. k \in 1..Cardinality(Slashes(u))  BY <1>2, <3>1
        <5> QED BY <4>1, <5>1, CutBetween
      <4>3. p = IF IsLiteral(Segments(t)[k]) THEN A + (j - a) ELSE A + 1  BY DEF Place
      <4>4. Place(t, u, j - 1) = IF j - 1 = a THEN A
              ELSE IF IsLiteral(Segments(t)[k]) THEN A + ((j - 1) - a) ELSE A + 1
        BY <4>2, Zenon DEF Place
      <4>5. own[j - 1] = Place(t, u, j - 1)  BY <2>5, <4>1
      <4> HIDE DEF k, a, b, A, B, p
      <4>6. CASE IsLiteral(Segments(t)[k])
        BY <3>2, <3>5, <4>3, <4>4, <4>5, <4>6
      <4>7. CASE ~IsLiteral(Segments(t)[k])
        BY <3>2, <3>5, <4>3, <4>4, <4>5, <4>7
      <4> QED BY <4>6, <4>7
    <3> HIDE DEF k, a, b, A, B, p
    <3>8. t[A] = "/" /\ "/" \notin Params
      <4>1. A \in Slashes(t)  BY <3>1, CutIs DEF A
      <4> QED BY <4>1, SlashesOf, RulesAssumption
    <3>9. CASE j = a
      <4>1. p = A /\ own[j - 1] = A - 1  BY <3>1, <3>6, <3>9
      <4>2. own[j] = own[j - 1] + 1  BY <3>2, <3>5, <4>1
      <4> QED BY <3>1, <3>2, <3>4, <4>2
    <3>10. CASE j # a
      BY <3>1, <3>2, <3>4, <3>7, <3>10
    <3> QED BY <3>9, <3>10
  <2>11. Owns(t, u, own)  BY <2>6, <2>8, <2>9, <2>10, Zenon DEF Owns
  <2> QED BY <2>11, OwnsFits
<1> QED BY <1>3, <1>4

-----------------------------------------------------------------------------
(* What APISIX compares.                                                   *)

\* What fits a path still does without case.
LEMMA FitsLike ==
  ASSUME NEW t \in Seq(Symbols), NEW u \in Seq(Symbols), Fits(t, u)
  PROVE  Like(t, u)
<1> DEFINE Low(s) == [i \in DOMAIN s |-> Lower[s[i]]]
<1>1. ASSUME NEW s \in Seq(Symbols)
      PROVE  /\ Low(s) \in Seq(Symbols) /\ Len(Low(s)) = Len(s)
             /\ \A i \in 1..Len(s) : Low(s)[i] = Lower[s[i]] /\ s[i] \in Symbols
  <2>1. DOMAIN s = 1..Len(s) /\ Len(s) \in Nat  BY LenProperties
  <2>2. \A i \in 1..Len(s) : s[i] \in Symbols  BY ElementOfSeq
  <2>3. \A i \in 1..Len(s) : Lower[s[i]] \in Symbols  BY <2>2, RulesAssumption
  <2> QED BY <2>1, <2>2, <2>3
<1>2. PICK own : Owns(t, u, own)  BY FitsOwns
<1>3. /\ own \in [0..Len(u) -> 0..Len(t)]
      /\ own[0] = 0 /\ own[Len(u)] = Len(t)
      /\ \A j \in 1..Len(u) :
           /\ own[j] >= 1
           /\ own[j] = own[j - 1] + 1 \/ own[j] = own[j - 1]
           /\ t[own[j]] \in Params => u[j] # "/"
           /\ t[own[j]] \notin Params => own[j] = own[j - 1] + 1 /\ u[j] = t[own[j]]
  BY <1>2, Zenon DEF Owns
<1> DEFINE T == Low(t)  U == Low(u)
<1>4. /\ T \in Seq(Symbols) /\ U \in Seq(Symbols) /\ Len(T) = Len(t) /\ Len(U) = Len(u)
      /\ \A i \in 1..Len(t) : T[i] = Lower[t[i]] /\ t[i] \in Symbols
      /\ \A i \in 1..Len(u) : U[i] = Lower[u[i]] /\ u[i] \in Symbols
  BY <1>1
<1>5. Len(t) \in Nat /\ Len(u) \in Nat  BY LenProperties
<1> HIDE DEF T, U
<1>6. ASSUME NEW j \in 1..Len(u)
      PROVE  /\ T[own[j]] \in Params => U[j] # "/"
             /\ T[own[j]] \notin Params => own[j] = own[j - 1] + 1 /\ U[j] = T[own[j]]
  <2>1. own[j] \in 1..Len(t)
    <3>1. j \in 0..Len(u)  BY <1>5
    <3>2. own[j] \in 0..Len(t) /\ own[j] >= 1  BY <1>3, <3>1
    <3> QED BY <1>5, <3>2
  <2>2. /\ T[own[j]] = Lower[t[own[j]]] /\ U[j] = Lower[u[j]]
        /\ t[own[j]] \in Symbols /\ u[j] \in Symbols
    BY <1>4, <2>1
  <2>3. /\ T[own[j]] \in Params <=> t[own[j]] \in Params
        /\ U[j] = "/" <=> u[j] = "/"
    BY <2>2, RulesAssumption
  <2> QED BY <1>3, <2>2, <2>3
<1>7. Owns(T, U, own)  BY <1>3, <1>4, <1>6, Zenon DEF Owns
<1>8. Fits(T, U)  BY <1>4, <1>7, OwnsFits
<1> QED BY <1>8, Zenon DEF Like, T, U

\* The start of a path.
LEMMA StartOf ==
  ASSUME NEW S, NEW t \in Seq(S), NEW q \in 0..Len(t)
  PROVE  /\ SubSeq(t, 1, q) \in Seq(S) /\ Len(SubSeq(t, 1, q)) = q
         /\ \A i \in 1..q : SubSeq(t, 1, q)[i] = t[i]
<1>1. Len(t) \in Nat /\ q \in Int /\ 1 \in Int  BY LenProperties
<1>2. \A i \in 1..q : t[i] \in S
  <2>1. \A i \in 1..q : i \in 1..Len(t)  BY <1>1
  <2> QED BY <2>1, ElementOfSeq
<1> DEFINE s == SubSeq(t, 1, q)
<1>3. /\ s \in Seq(S) /\ Len(s) = IF 1 <= q THEN q - 1 + 1 ELSE 0
      /\ \A i \in 1..(q - 1 + 1) : s[i] = t[1 + i - 1]
  BY <1>1, <1>2, SubSeqProperties
<1> HIDE DEF s
<1>4. Len(s) = q  BY <1>1, <1>3
<1>5. ASSUME NEW i \in 1..q PROVE s[i] = t[i]
  <2>1. i \in 1..(q - 1 + 1) /\ 1 + i - 1 = i  BY <1>1
  <2> QED BY <1>3, <2>1
<1> QED BY <1>3, <1>4, <1>5 DEF s

\* A bounded set of naturals has a greatest one.
LEMMA MaxIs ==
  ASSUME NEW n \in Nat, NEW D, \A i \in D : i \in 0..n, D # {}
  PROVE  Max(D) \in D /\ \A i \in D : i <= Max(D)
<1> DEFINE E == {n - i : i \in D}
<1>1. E \subseteq Nat /\ E # {}  OBVIOUS
<1>2. PICK e \in E : \A d \in E : e <= d  BY <1>1, LeastNatural, Zenon
<1>3. PICK x \in D : e = n - x  BY <1>2
<1>4. ASSUME NEW y \in D PROVE x >= y
  <2>1. e <= n - y  BY <1>2
  <2>2. x \in 0..n /\ y \in 0..n  OBVIOUS
  <2> QED BY <1>3, <2>1, <2>2
<1>5. Max(D) \in D /\ \A i \in D : Max(D) >= i  BY <1>4, Zenon DEF Max
<1> QED BY <1>5

\* What is left without the slashes at the end.
LEMMA StripIs ==
  ASSUME NEW S, NEW t \in Seq(S)
  PROVE  \E q \in 0..Len(t) :
           /\ Strip(t) = SubSeq(t, 1, q)
           /\ q = 0 \/ t[q] # "/"
           /\ \A i \in 1..Len(t) : i > q => t[i] = "/"
<1> DEFINE n == Len(t)  D == {i \in DOMAIN t : t[i] # "/"} \cup {0}  q == Max(D)
<1>1. n \in Nat /\ DOMAIN t = 1..n  BY LenProperties
<1>2. (\A i \in D : i \in 0..n) /\ D # {} /\ (\A i \in D : i = 0 \/ t[i] # "/")
      /\ \A i \in 1..n : t[i] # "/" => i \in D
  BY <1>1
<1>3. Strip(t) = SubSeq(t, 1, q)  BY DEF Strip
<1> HIDE DEF D, n
<1>4. q \in D /\ \A i \in D : i <= q  BY <1>1, <1>2, MaxIs
<1> HIDE DEF q
<1>5. q \in 0..n /\ (q = 0 \/ t[q] # "/")  BY <1>2, <1>4
<1>6. \A i \in 1..n : i > q => t[i] = "/"
  <2> SUFFICES ASSUME NEW i \in 1..n, i > q, t[i] # "/" PROVE FALSE
    OBVIOUS
  <2>1. i <= q  BY <1>2, <1>4
  <2>2. i \in Int /\ q \in Int  BY <1>1, <1>5
  <2> QED BY <2>1, <2>2
<1> QED BY <1>3, <1>5, <1>6 DEF n

\* A parameter that is a whole segment follows a slash.
LEMMA ParamFollowsSlash ==
  ASSUME NEW t \in Seq(Symbols), Rooted(t), Whole(t),
         NEW p \in 1..Len(t), t[p] \in Params
  PROVE  p > 1 /\ t[p - 1] = "/"
<1> DEFINE N == Cardinality(Slashes(t))  k == Upto(Slashes(t), p)
           a == Cut(t, k)  b == Cut(t, k + 1)
<1>1. Len(t) \in Nat /\ N \in Nat /\ (\A i \in Slashes(t) : i \in 1..Len(t))
  BY SlashesOf
<1>2. t # <<>>  BY <1>1
<1>3. t[1] = "/" /\ "/" \notin Params  BY <1>2, RulesAssumption DEF Rooted
<1>4. k \in 1..N
  <2>1. 1 \in Slashes(t) /\ 1 \in Int /\ p \in Int /\ Len(t) \in Int /\ 1 <= p /\ p <= Len(t)
    BY <1>1, <1>3, SlashesOf
  <2>2. Upto(Slashes(t), 1) \in 1..N  BY <2>1, CutOf
  <2>3. Upto(Slashes(t), 1) <= k /\ k <= Upto(Slashes(t), Len(t))  BY <1>1, <2>1, UptoGrows
  <2>4. Upto(Slashes(t), Len(t)) = N /\ k \in Nat  BY <1>1, UptoEnds, UptoFinite
  <2> QED BY <1>1, <2>2, <2>3, <2>4
<1>5. a <= p /\ p < b  BY <1>4, CutBetween
<1>6. Matching(t, t)  BY MatchingSelf
<1>7. /\ a \in 1..Len(t) /\ b \in 1..(Len(t) + 1) /\ a < b /\ t[a] = "/"
      /\ IsLiteral(Segments(t)[k]) => \A i \in 1..(b - (a + 1)) : t[a + i] \notin Params
      /\ ~IsLiteral(Segments(t)[k]) => b = a + 2
  BY <1>4, <1>6, SegmentsLike
<1> HIDE DEF k, a, b
<1>8. p # a  BY <1>3, <1>7
<1>9. a \in Int /\ b \in Int /\ p \in Int  BY <1>1, <1>7
<1>10. ~IsLiteral(Segments(t)[k])
  <2> SUFFICES ASSUME IsLiteral(Segments(t)[k]) PROVE FALSE
    OBVIOUS
  <2>1. p - a \in 1..(b - (a + 1)) /\ a + (p - a) = p  BY <1>5, <1>8, <1>9
  <2> QED BY <1>7, <2>1
<1>11. p - 1 = a  BY <1>5, <1>7, <1>8, <1>9, <1>10
<1> QED BY <1>1, <1>7, <1>11

\* Up to the first parameter a path that fits has the symbols of the expression.
LEMMA FitsStart ==
  ASSUME NEW t \in Seq(Symbols), NEW u \in Seq(Symbols), Fits(t, u),
         NEW p \in 1..Len(t), \A i \in 1..(p - 1) : t[i] \notin Params
  PROVE  p <= Len(u) /\ \A i \in 1..(p - 1) : u[i] = t[i]
<1> DEFINE m == Len(u)  n == Len(t)
<1>1. m \in Nat /\ n \in Nat /\ p \in 1..n  BY LenProperties
<1>2. PICK own : Owns(t, u, own)  BY FitsOwns
<1>3. /\ own \in [0..m -> 0..n] /\ own[0] = 0 /\ own[m] = n
      /\ \A j \in 1..m :
           /\ own[j] >= 1
           /\ own[j] = own[j - 1] + 1 \/ own[j] = own[j - 1]
           /\ t[own[j]] \notin Params => own[j] = own[j - 1] + 1 /\ u[j] = t[own[j]]
  BY <1>2, Zenon DEF Owns
<1>4. p <= m
  <2>1. 0 \in 0..m /\ m \in 0..m /\ 0 <= m  BY <1>1
  <2>2. own[m] - own[0] <= m - 0  BY <1>2, <2>1, OwnGrows
  <2> QED BY <1>1, <1>3, <2>2
<1> DEFINE S == {j \in 0..(p - 1) : own[j] = j}
<1> HIDE DEF m, n
<1>5. 0 \in S  BY <1>1, <1>3
<1>6. ASSUME NEW k \in 0..((p - 1) - 1), k \in S PROVE k + 1 \in S
  <2> DEFINE j == k + 1
  <2>1. j \in 1..m /\ j \in 0..m /\ j - 1 = k /\ j \in 0..(p - 1) /\ j \in 1..(p - 1)
        /\ k \in 0..m /\ k \in Int
    BY <1>1, <1>4
  <2>2. own[k] = k  BY <1>6
  <2>3. own[j] = k + 1 \/ own[j] = k  BY <1>3, <2>1, <2>2
  <2>4. own[j] # k
    <3> SUFFICES ASSUME own[j] = k PROVE FALSE
      OBVIOUS
    <3>1. k >= 1  BY <1>3, <2>1
    <3>2. k \in 1..(p - 1)  BY <1>1, <2>1, <3>1
    <3>3. own[j] = own[j - 1] + 1  BY <1>3, <2>1, <3>2
    <3> QED BY <2>1, <2>2, <3>3
  <2> QED BY <2>1, <2>3, <2>4
<1>7. \A j \in 0..(p - 1) : own[j] = j
  <2> HIDE DEF S
  <2>1. p - 1 \in Nat  BY <1>1
  <2>2. 0..(p - 1) \subseteq S  BY <1>5, <1>6, <2>1, InductiveUpto
  <2> QED BY <2>2 DEF S
<1>8. ASSUME NEW i \in 1..(p - 1) PROVE u[i] = t[i]
  <2>1. i \in 1..m /\ i \in 0..(p - 1)  BY <1>1, <1>4
  <2>2. own[i] = i  BY <1>7, <2>1
  <2> QED BY <1>3, <2>1, <2>2
<1> QED BY <1>4, <1>8 DEF m

\* The uris of a route let through what its expression fits.
LEMMA FitsPrefix ==
  ASSUME NEW t \in Seq(Symbols), NEW u \in Seq(Symbols), Rooted(t), Whole(t),
         ~IsLiteral(t), Fits(t, u)
  PROVE  IsPrefix(Append(Prefix(t), "/"), u)
<1> DEFINE n == Len(t)  D == {i \in DOMAIN t : t[i] \in Params}  p == Min(D)
<1>1. n \in Nat /\ DOMAIN t = 1..n /\ Len(u) \in Nat  BY LenProperties
<1>2. D # {} /\ D \subseteq Nat
  BY <1>1 DEF IsLiteral, ParamsOf, ToSet
<1>3. \E x \in D : \A i \in D : x <= i  BY <1>2, LeastNatural, Zenon
<1>4. p \in D /\ \A i \in D : p <= i  BY <1>3, Zenon DEF Min
<1>5. p \in 1..n /\ t[p] \in Params  BY <1>1, <1>4
<1>6. ASSUME NEW i \in 1..(p - 1) PROVE t[i] \notin Params
  <2>1. i \in 1..n /\ ~(p <= i)  BY <1>1, <1>5
  <2> QED BY <1>1, <1>4, <2>1
<1> DEFINE s == SubSeq(t, 1, p - 1)
<1>7. Prefix(t) = Strip(s)  BY DEF Prefix
<1> HIDE DEF D, p, n
<1>8. p > 1 /\ t[p - 1] = "/"  BY <1>5, ParamFollowsSlash DEF n
<1>9. p <= Len(u) /\ \A i \in 1..(p - 1) : u[i] = t[i]  BY <1>5, <1>6, FitsStart DEF n
<1>10. /\ s \in Seq(Symbols) /\ Len(s) = p - 1 /\ \A i \in 1..(p - 1) : s[i] = t[i]
  <2>1. p - 1 \in 0..Len(t)  BY <1>1, <1>5 DEF n
  <2> QED BY <2>1, StartOf
<1> HIDE DEF s
<1>11. PICK q \in 0..(p - 1) : /\ Strip(s) = SubSeq(s, 1, q)
                               /\ q = 0 \/ s[q] # "/"
                               /\ \A i \in 1..(p - 1) : i > q => s[i] = "/"
  BY <1>10, StripIs
<1>12. p - 1 \in 1..(p - 1) /\ p \in Int  BY <1>1, <1>5, <1>8
<1>13. q + 1 \in 1..(p - 1)
  <2>1. q # p - 1  BY <1>8, <1>10, <1>11, <1>12
  <2> QED BY <1>11, <1>12, <2>1
<1> DEFINE x == Strip(s)  y == Append(x, "/")
<1>14. x \in Seq(Symbols) /\ Len(x) = q /\ \A i \in 1..q : x[i] = s[i]
  <2>1. q \in 0..Len(s)  BY <1>10, <1>11
  <2> QED BY <1>10, <1>11, <2>1, StartOf
<1> HIDE DEF x
<1>15. "/" \in Symbols  BY RulesAssumption
<1>16. /\ y \in Seq(Symbols) /\ Len(y) = q + 1
       /\ (\A i \in 1..q : y[i] = x[i]) /\ y[q + 1] = "/"
  BY <1>14, <1>15, AppendProperties
<1> HIDE DEF y
<1>17. q + 1 \in 0..Len(u) /\ q + 1 \in 0..Len(y)  BY <1>1, <1>9, <1>12, <1>13, <1>16
<1>18. ASSUME NEW i \in 1..(q + 1) PROVE y[i] = u[i]
  <2>1. i \in 1..(p - 1)  BY <1>12, <1>13
  <2>2. u[i] = s[i]  BY <1>9, <1>10, <2>1
  <2>3. CASE i = q + 1
    <3>1. s[i] = "/"  BY <1>11, <1>12, <2>1, <2>3
    <3> QED BY <1>16, <2>2, <2>3, <3>1
  <2>4. CASE i # q + 1
    <3>1. i \in 1..q  BY <1>11, <1>12, <2>4
    <3> QED BY <1>14, <1>16, <2>2, <3>1
  <2> QED BY <2>3, <2>4
<1> DEFINE v == SubSeq(u, 1, q + 1)  w == SubSeq(y, 1, q + 1)
<1>19. v \in Seq(Symbols) /\ Len(v) = q + 1 /\ \A i \in 1..(q + 1) : v[i] = u[i]
  BY <1>17, StartOf
<1>20. w \in Seq(Symbols) /\ Len(w) = q + 1 /\ \A i \in 1..(q + 1) : w[i] = y[i]
  BY <1>16, <1>17, StartOf
<1> HIDE DEF v, w
<1>21. w = v  BY <1>18, <1>19, <1>20, SeqEqual
<1>22. Len(y) <= Len(u)  BY <1>1, <1>16, <1>17
<1>23. IsPrefix(y, u)  BY <1>16, <1>21, <1>22, Zenon DEF IsPrefix, v, w
<1> QED BY <1>7, <1>23 DEF y, x

-----------------------------------------------------------------------------
(* Paths without parameters, and the paths of routes.                      *)

\* A path without parameters.
LEMMA LiteralIs ==
  ASSUME NEW t \in Seq(Symbols)
  PROVE  IsLiteral(t) <=> \A i \in 1..Len(t) : t[i] \notin Params
<1>1. DOMAIN t = 1..Len(t)  BY LenProperties
<1> QED BY <1>1 DEF IsLiteral, ParamsOf, ToSet

\* None of its segments has a parameter either.
LEMMA LiteralWhole ==
  ASSUME NEW t \in Seq(Symbols), IsLiteral(t)
  PROVE  Whole(t)
<1> SUFFICES ASSUME NEW s \in ToSet(Segments(t)) PROVE IsLiteral(s)
  BY Zenon DEF Whole
<1>1. PICK k \in 1..Cardinality(Slashes(t)) : s = Segments(t)[k]
  BY SegmentsLen DEF ToSet
<1> DEFINE a == Cut(t, k)  b == Cut(t, k + 1)
<1>2. /\ a \in 1..Len(t) /\ b \in 1..(Len(t) + 1) /\ a < b /\ Len(t) \in Nat
  BY CutBetween, SlashesOf
<1>3. IsLiteral(Segments(t)[k]) <=> \A i \in 1..(b - (a + 1)) : t[a + i] \notin Params
  BY SegmentLiteral
<1> HIDE DEF a, b
<1>4. \A i \in 1..Len(t) : t[i] \notin Params  BY LiteralIs
<1>5. ASSUME NEW i \in 1..(b - (a + 1)) PROVE t[a + i] \notin Params
  <2>1. a + i \in 1..Len(t)  BY <1>2
  <2> QED BY <1>4, <2>1
<1> QED BY <1>1, <1>3, <1>5

\* The expression of a path without parameters fits this path only.
LEMMA LiteralFits ==
  ASSUME NEW t \in Seq(Symbols), NEW u \in Seq(Symbols), IsLiteral(t), Fits(t, u)
  PROVE  t = u
<1> DEFINE m == Len(u)  n == Len(t)
<1>1. m \in Nat /\ n \in Nat  BY LenProperties
<1>2. PICK own : Owns(t, u, own)  BY FitsOwns
<1>3. /\ own \in [0..m -> 0..n] /\ own[0] = 0 /\ own[m] = n
      /\ \A j \in 1..m :
           /\ own[j] >= 1
           /\ t[own[j]] \notin Params => own[j] = own[j - 1] + 1 /\ u[j] = t[own[j]]
  BY <1>2, Zenon DEF Owns
<1>4. \A i \in 1..n : t[i] \notin Params  BY LiteralIs
<1> HIDE DEF m, n
<1>5. ASSUME NEW j \in 1..m PROVE own[j] = own[j - 1] + 1 /\ u[j] = t[own[j]]
  <2>1. own[j] \in 1..n  BY <1>1, <1>3
  <2> QED BY <1>3, <1>4, <2>1
<1> DEFINE S == {j \in 0..m : own[j] = j}
<1>6. 0 \in S  BY <1>1, <1>3
<1>7. ASSUME NEW k \in 0..(m - 1), k \in S PROVE k + 1 \in S
  <2>1. k + 1 \in 1..m /\ k + 1 \in 0..m /\ (k + 1) - 1 = k  BY <1>1
  <2>2. own[k] = k  BY <1>7
  <2>3. own[k + 1] = k + 1  BY <1>5, <2>1, <2>2
  <2> QED BY <2>1, <2>3
<1>8. \A j \in 0..m : own[j] = j
  <2> HIDE DEF S
  <2>1. 0..m \subseteq S  BY <1>1, <1>6, <1>7, InductiveUpto
  <2> QED BY <2>1 DEF S
<1>9. n = m
  <2>1. m \in 0..m  BY <1>1
  <2> QED BY <1>3, <1>8, <2>1
<1>10. ASSUME NEW j \in 1..n PROVE t[j] = u[j]
  <2>1. j \in 1..m /\ j \in 0..m  BY <1>1, <1>9
  <2> QED BY <1>5, <1>8, <2>1
<1> QED BY <1>9, <1>10, SeqEqual DEF m, n

\* And only this one has its segments.
LEMMA LiteralMatching ==
  ASSUME NEW t \in Seq(Symbols), NEW u \in Seq(Symbols), Rooted(t), Rooted(u), IsLiteral(t)
  PROVE  Matching(t, u) <=> t = u
<1>1. ASSUME Matching(t, u) PROVE t = u
  <2>1. Whole(t)  BY LiteralWhole
  <2>2. Fits(t, u)  BY <1>1, <2>1, MatchingFits
  <2> QED BY <2>2, LiteralFits
<1> QED BY <1>1, MatchingSelf

\* The path of a route is one.
LEMMA StripRooted ==
  ASSUME NEW t \in Seq(Symbols), t # <<>>, t[1] = "/"
  PROVE  Strip(t) \in Seq(Symbols) /\ Rooted(Strip(t))
<1>1. PICK q \in 0..Len(t) : Strip(t) = SubSeq(t, 1, q)
  BY StripIs
<1> DEFINE s == SubSeq(t, 1, q)
<1>2. s \in Seq(Symbols) /\ Len(s) = q /\ \A i \in 1..q : s[i] = t[i]
  BY StartOf
<1> HIDE DEF s
<1>3. CASE q = 0
  <2>1. s = <<>>  BY <1>2, <1>3, EmptySeq
  <2> QED BY <1>1, <1>2, <2>1 DEF s, Rooted
<1>4. CASE q # 0
  <2>1. 1 \in 1..q  BY <1>4, LenProperties
  <2>2. s[1] = "/"  BY <1>2, <2>1
  <2> QED BY <1>1, <1>2, <2>2 DEF s, Rooted
<1> QED BY <1>3, <1>4

\* The path of a route begins with a slash, if it is not empty.
LEMMA PathTyped ==
  ASSUME NEW b \in Bases, NEW E \in Endpoints, NEW e \in E
  PROVE  FinalPath(Text[b], Text[e.pattern]) \in Seq(Symbols)
         /\ Rooted(FinalPath(Text[b], Text[e.pattern]))
<1> DEFINE p == Text[e.pattern]  s == Strip(Text[b])
<1>1. e \in Endpoint  BY RouteAssumption
<1>2. e.pattern \in DOMAIN Text /\ b \in DOMAIN Text
  <2>1. e.pattern \in Patterns  BY <1>1 DEF Endpoint
  <2> QED BY <2>1, CatalogAssumption
<1>3. p \in Seq(Symbols) /\ Text[b] \in Seq(Symbols)  BY <1>2, RulesAssumption
<1>4. s \in Seq(Symbols) /\ Rooted(s)  BY <1>3, CatalogAssumption, StripRooted
<1>5. WellFormed(p)
  <2>1. PICK c \in Bases : Accepted(c, E)  BY CatalogAssumption
  <2> QED BY <2>1 DEF Accepted, Valid
<1>6. p # <<>> /\ p[1] = "/"  BY <1>5 DEF WellFormed
<1> HIDE DEF p, s
<1>7. CASE p = <<"/">>
  BY <1>4, <1>7 DEF FinalPath, p, s
<1>8. CASE p # <<"/">>
  <2>1. FinalPath(Text[b], p) = s \o p  BY <1>8 DEF FinalPath, s
  <2>2. s \o p \in Seq(Symbols) /\ Len(s \o p) = Len(s) + Len(p)
        /\ \A i \in 1..(Len(s) + Len(p)) :
             (s \o p)[i] = IF i <= Len(s) THEN s[i] ELSE p[i - Len(s)]
    BY <1>3, <1>4, ConcatProperties DEF p
  <2>3. Len(s) \in Nat /\ Len(p) \in Nat /\ Len(p) # 0
    BY <1>3, <1>4, <1>6, LenProperties, EmptySeq DEF p
  <2>4. (s \o p)[1] = "/"
    <3>1. 1 \in 1..(Len(s) + Len(p))  BY <2>3
    <3>2. CASE Len(s) = 0
      <4>1. (s \o p)[1] = p[1 - Len(s)]  BY <2>2, <3>1, <3>2
      <4> QED BY <1>6, <3>2, <4>1
    <3>3. CASE Len(s) # 0
      <4>1. s # <<>>  BY <3>3
      <4>2. (s \o p)[1] = s[1]  BY <2>2, <2>3, <3>1, <3>3
      <4> QED BY <1>4, <4>1, <4>2 DEF Rooted
    <3> QED BY <3>2, <3>3
  <2> QED BY <2>1, <2>2, <2>4 DEF Rooted, p
<1> QED BY <1>7, <1>8

-----------------------------------------------------------------------------
(* The endpoints that are held.                                            *)

\* The endpoints that are held, or are to be, were brought by requests.
FromRequests ==
  /\ endpoints \subseteq UNION Endpoints
  /\ \A o \in Ops : op[o].pc \in {"replace", "merge"} => op[o].eps \in Endpoints

\* To replace the endpoints is to hold on to them or take those of the request.
LEMMA ReplaceGives ==
  ASSUME TypeInv, NEW o \in Ops, Replace(o)
  PROVE  endpoints' \subseteq endpoints \cup op[o].eps \/ endpoints' = endpoints
  BY DEF Replace

\* Whoever acts; and new endpoints are those of one request, unless two are merged.
LEMMA ActsFromRequests ==
  ASSUME TypeInv, FromRequests, NEW o \in Ops, Acts(o)
  PROVE  /\ FromRequests'
         /\ endpoints' # endpoints =>
              At(o, "merge") \/ endpoints' \in Endpoints \/ endpoints' = {}
  <1> DEFINE Calls(p) == p.pc \in {"replace", "merge"} => p.eps \in Endpoints
  <1>0. \A p \in Ops : Calls(op[p])
    BY DEF FromRequests
  <1>1. ASSUME Only(o), op'[o].pc \notin {"replace", "merge"} \/ op'[o].eps \in Endpoints
        PROVE  \A p \in Ops : Calls(op'[p])
    BY <1>0, <1>1 DEF Only
  <1>2. ASSUME endpoints' = endpoints, \A p \in Ops : Calls(op'[p])
        PROVE  FromRequests'
    BY <1>2 DEF FromRequests
  <1>3. Idle.pc \notin {"replace", "merge"}
    BY DEF Idle
  <1> HIDE DEF Calls
  <1>4. CASE CreateApi(o)
    <2>1. \A p \in Ops : Calls(op'[p])
      BY <1>1, <1>4, CreateIs DEF Starts
    <2>2. endpoints' \in Endpoints
      BY <1>4, RouteAssumption DEF CreateApi
    <2>3. endpoints' \subseteq UNION Endpoints
      BY <2>2
    <2> QED
      BY <2>1, <2>2, <2>3 DEF FromRequests, Calls
  <1>5. CASE PatchApi(o)
    <2>1. \A p \in Ops : Calls(op'[p])
      BY <1>1, <1>5, PatchIs DEF Starts
    <2> QED
      BY <1>2, <1>5, <2>1 DEF PatchApi
  <1>6. CASE DeleteApi(o)
    <2>1. \A p \in Ops : Calls(op'[p])
      BY <1>1, <1>6, DeleteIs DEF Starts
    <2> QED
      BY <1>2, <1>6, <2>1 DEF DeleteApi
  <1>7. CASE Resync(o)
    <2>1. \A p \in Ops : Calls(op'[p])
      BY <1>1, <1>7, ResyncIs DEF Starts
    <2> QED
      BY <1>2, <1>7, <2>1 DEF Resync
  <1>8. CASE Replace(o)
    <2>1. \A p \in Ops : Calls(op'[p])
      <3>1. ASSUME NEW p \in Ops, p # o PROVE Calls(op'[p])
        <4>1. op'[p] = op[p] \/ (op[p].pc = "replace" /\ op'[p].eps = op[p].eps)
          BY <1>8, <3>1, ReplaceIs
        <4> QED
          BY <1>0, <4>1 DEF Calls
      <3>2. Calls(op'[o])
        BY <1>8, ReplaceIs DEF Calls
      <3> QED
        BY <3>1, <3>2
    <2>2. op[o].eps \in Endpoints
      BY <1>8 DEF Replace, At, FromRequests
    <2>3. endpoints' \subseteq UNION Endpoints
      BY <1>8, <2>2, ReplaceGives DEF FromRequests
    <2>4. op[o].pc = "merge" \/ endpoints' \in {op[o].eps, endpoints}
      BY <1>8, ReplaceIs DEF Replace, At
    <2> QED
      BY <2>1, <2>2, <2>3, <2>4 DEF FromRequests, Calls, At
  <1>9. CASE Fetch(o)
    <2>1. \A p \in Ops : Calls(op'[p])
      BY <1>1, <1>9, FetchIs
    <2> QED
      BY <1>2, <1>9, <2>1 DEF Fetch
  <1>10. CASE Put(o)
    <2>1. \A p \in Ops : Calls(op'[p])
      BY <1>1, <1>10, PutIs DEF Goes
    <2> QED
      BY <1>2, <1>10, <2>1 DEF Put
  <1>11. CASE ListAll(o)
    <2>1. \A p \in Ops : Calls(op'[p])
      BY <1>1, <1>3, <1>11, ListAllIs DEF Goes, Pruned
    <2> QED
      BY <1>2, <1>11, <2>1 DEF ListAll
  <1>12. CASE ListOwn(o)
    <2>1. \A p \in Ops : Calls(op'[p])
      BY <1>1, <1>3, <1>12, ListOwnIs DEF Goes, Unrouted
    <2> QED
      BY <1>2, <1>12, <2>1 DEF ListOwn
  <1>13. CASE DeleteRoute(o)
    <2>1. \A p \in Ops : Calls(op'[p])
      BY <1>1, <1>3, <1>13, DeleteRouteIs DEF Goes, Pruned, Unrouted
    <2> QED
      BY <1>2, <1>13, <2>1 DEF DeleteRoute
  <1>14. CASE SmokePasses(o)
    <2>1. \A p \in Ops : Calls(op'[p])
      BY <1>1, <1>14, SmokePassesIs DEF Goes
    <2> QED
      BY <1>2, <1>14, <2>1 DEF SmokePasses
  <1>15. CASE SmokeFails(o)
    <2>1. \A p \in Ops : Calls(op'[p])
      BY <1>1, <1>3, <1>15, SmokeFailsIs DEF Goes, Failed, Retried, Drafted
    <2> QED
      BY <1>2, <1>15, <2>1 DEF SmokeFails
  <1>16. CASE Update(o) \/ RemoveRow(o) \/ Abort(o)
    <2>1. op[o].pc # "idle" /\ Become(o, Idle)
      BY <1>16 DEF Update, RemoveRow, Abort, At
    <2>2. \A p \in Ops : Calls(op'[p])
      BY <1>1, <1>3, <2>1, EndIs
    <2>3. endpoints' = endpoints \/ endpoints' = {}
      BY <1>16 DEF Update, RemoveRow, Abort
    <2> QED
      BY <1>2, <2>2, <2>3 DEF FromRequests, Calls
  <1>17. CASE CallFails(o)
    <2>1. \A p \in Ops : Calls(op'[p])
      BY <1>1, <1>3, <1>17, CallFailsIs DEF Goes, Failed, Retried, Drafted
    <2> QED
      BY <1>2, <1>17, <2>1 DEF CallFails
  <1>18. CASE ListFails(o)
    <2>1. \A p \in Ops : Calls(op'[p])
      BY <1>1, <1>3, <1>18, ListFailsIs DEF Goes, Pruned, Unrouted, Failed, Retried, Drafted
    <2> QED
      BY <1>2, <1>18, <2>1 DEF ListFails
  <1> QED
    BY <1>4, <1>5, <1>6, <1>7, <1>8, <1>9, <1>10, <1>11, <1>12, <1>13, <1>14, <1>15, <1>16,
       <1>17, <1>18 DEF Acts, Start, Step

\* And so they remain.
LEMMA AlwaysFromRequests == HSpec => [](RouteInv /\ FromRequests)
  <1>1. HInit => FromRequests
    BY DEF HInit, Init, FromRequests, Idle
  <1>2. RouteInv /\ FromRequests /\ [HNext]_hvars => FromRequests'
    <2> SUFFICES ASSUME RouteInv, FromRequests, [HNext]_hvars
                 PROVE  FromRequests'
      OBVIOUS
    <2>1. ASSUME NEW o \in Ops, Acts(o)
          PROVE  FromRequests'
      BY <2>1, ActsFromRequests DEF RouteInv
    <2>2. CASE RoutesLost \/ UNCHANGED hvars
      BY <2>2 DEF RoutesLost, hvars, vars, FromRequests
    <2>3. HNext => RoutesLost \/ \E o \in Ops : Acts(o)
      BY DEF HNext, Next, Acts
    <2> QED
      BY <2>1, <2>2, <2>3
  <1> QED
    BY <1>1, <1>2, AlwaysRouteInv, PTL DEF HSpec

-----------------------------------------------------------------------------
(* What is served.                                                         *)

\* An endpoint declares the paths that have the segments of its own.
LEMMA DeclaresIs ==
  ASSUME NEW r, NEW m, NEW u
  PROVE  Declares(r, m, u) <=> Lower[Method[r.pattern]] = m /\ Matching(PathOf(r), u)
  BY Zenon DEF Declares, Matching

\* What the routes of a set serve, of which every path is one.
LEMMA ChosenIs ==
  ASSUME NEW W, NEW m, NEW u \in Seq(Symbols), u # <<>>, u[1] = "/",
         \A r \in W : PathOf(r) \in Seq(Symbols) /\ Rooted(PathOf(r))
  PROVE  LET declared == {r \in W : Declares(r, m, u)}
             literal  == {r \in declared : IsLiteral(PathOf(r))}
             chosen   == Chosen(W, m, u)
         IN  /\ \A r \in chosen : Demands(r, u) => r \in declared
             /\ (\A r \in W : Whole(PathOf(r)) /\ (Like(PathOf(r), u) => Demands(r, u))) =>
                  IF literal # {} THEN chosen = literal
                  ELSE chosen \subseteq declared /\ (declared # {} => chosen # {})
<1> DEFINE declared == {r \in W : Declares(r, m, u)}
           literal  == {r \in declared : IsLiteral(PathOf(r))}
           C == {r \in W : Lower[Method[r.pattern]] = m /\ Candidate(r, u)}
           chosen == Chosen(W, m, u)
<1>1. chosen = {r \in C : \A s \in C : Priority(s) <= Priority(r)}
  BY DEF Chosen
<1> HIDE DEF chosen
<1>2. Rooted(u)  BY DEF Rooted
<1>3. ASSUME NEW r \in chosen, Demands(r, u) PROVE r \in declared
  <2>1. r \in C  BY <1>1
  <2>2. r \in W /\ Lower[Method[r.pattern]] = m  BY <2>1
  <2>3. Matching(PathOf(r), u)  BY <1>3, <2>2, FitsMatching DEF Demands
  <2> QED BY <2>2, <2>3, DeclaresIs
<1>4. ASSUME \A r \in W : Whole(PathOf(r)) /\ (Like(PathOf(r), u) => Demands(r, u))
      PROVE  IF literal # {} THEN chosen = literal
             ELSE chosen \subseteq declared /\ (declared # {} => chosen # {})
  <2>1. ASSUME NEW r \in W, IsLiteral(PathOf(r))
        PROVE  (r \in C <=> r \in literal) /\ Priority(r) = 200
    <3>1. Matching(PathOf(r), u) <=> PathOf(r) = u  BY <1>2, <2>1, LiteralMatching
    <3>2. Candidate(r, u) <=> PathOf(r) = u  BY <2>1 DEF Candidate
    <3> QED BY <2>1, <3>1, <3>2, DeclaresIs DEF Priority
  <2>2. ASSUME NEW r \in W, ~IsLiteral(PathOf(r))
        PROVE  (r \in C <=> r \in declared) /\ Priority(r) = 100
    <3>1. Candidate(r, u) <=>
            /\ u = Prefix(PathOf(r)) \/ IsPrefix(Append(Prefix(PathOf(r)), "/"), u)
            /\ Like(PathOf(r), u)
      BY <2>2 DEF Candidate
    <3>2. ASSUME Candidate(r, u) PROVE Matching(PathOf(r), u)
      BY <1>4, <3>1, <3>2, FitsMatching DEF Demands
    <3>3. ASSUME Matching(PathOf(r), u) PROVE Candidate(r, u)
      <4>1. Whole(PathOf(r))  BY <1>4
      <4>2. Fits(PathOf(r), u)  BY <1>2, <3>3, <4>1, MatchingFits
      <4>3. Like(PathOf(r), u)  BY <4>2, FitsLike
      <4>4. IsPrefix(Append(Prefix(PathOf(r)), "/"), u)  BY <2>2, <4>1, <4>2, FitsPrefix
      <4> QED BY <3>1, <4>3, <4>4
    <3>4. Candidate(r, u) <=> Matching(PathOf(r), u)  BY <3>2, <3>3
    <3> QED BY <2>2, <3>4, DeclaresIs DEF Priority
  <2> DEFINE L(r) == IsLiteral(PathOf(r))
  <2>3. /\ literal \subseteq declared /\ declared \subseteq W /\ C \subseteq W
        /\ \A r \in declared : L(r) => r \in literal
        /\ \A r \in literal : L(r)
    OBVIOUS
  <2>4. \A r \in W : IF L(r) THEN (r \in C <=> r \in literal) /\ Priority(r) = 200
                     ELSE (r \in C <=> r \in declared) /\ Priority(r) = 100
    BY <2>1, <2>2
  <2> HIDE DEF declared, literal, C, L
  <2>5. ASSUME literal # {} PROVE chosen = literal
    <3>1. PICK l \in literal : TRUE  BY <2>5
    <3>2. l \in C /\ Priority(l) = 200  BY <2>3, <2>4, <3>1
    <3>3. chosen \subseteq literal
      <4> SUFFICES ASSUME NEW r \in chosen PROVE r \in literal
        OBVIOUS
      <4>1. r \in C /\ 200 <= Priority(r)  BY <1>1, <3>2
      <4>2. L(r)  BY <2>3, <2>4, <4>1
      <4> QED BY <2>3, <2>4, <4>1, <4>2
    <3>4. literal \subseteq chosen
      <4> SUFFICES ASSUME NEW r \in literal PROVE r \in chosen
        OBVIOUS
      <4>1. r \in C /\ Priority(r) = 200  BY <2>3, <2>4
      <4>2. \A s \in C : Priority(s) <= 200  BY <2>3, <2>4
      <4> QED BY <1>1, <4>1, <4>2
    <3> QED BY <3>3, <3>4
  <2>6. ASSUME literal = {} PROVE chosen \subseteq declared /\ (declared # {} => chosen # {})
    <3>1. \A r \in C : r \in declared /\ Priority(r) = 100  BY <2>3, <2>4, <2>6
    <3>2. chosen \subseteq declared  BY <1>1, <3>1
    <3>3. \A r \in declared : r \in C  BY <2>3, <2>4, <2>6
    <3>4. \A r \in declared : r \in chosen  BY <1>1, <3>1, <3>3
    <3> QED BY <3>2, <3>4
  <2> QED BY <2>5, <2>6, Zenon
<1> QED BY <1>3, <1>4, Zenon DEF declared, literal, chosen

\* The routes that the catalog wants have paths.
LEMMA WantedPaths ==
  ASSUME RouteInv, FromRequests, NEW r \in Wanted
  PROVE  PathOf(r) \in Seq(Symbols) /\ Rooted(PathOf(r))
<1>1. Published /\ r \in RoutesOf(catalog.base, endpoints)  BY DEF Wanted
<1>2. PICK e \in endpoints :
        r = [base |-> catalog.base, pattern |-> e.pattern, content |-> e.content]
  BY <1>1 DEF RoutesOf
<1>3. catalog.base \in Bases  BY <1>1 DEF Published, RouteInv, TypeInv, HTypeOK, TypeOK, Row
<1>4. PICK E \in Endpoints : e \in E  BY DEF FromRequests
<1>5. /\ FinalPath(Text[catalog.base], Text[e.pattern]) \in Seq(Symbols)
      /\ Rooted(FinalPath(Text[catalog.base], Text[e.pattern]))
  BY <1>3, <1>4, PathTyped
<1>6. PathOf(r) = FinalPath(Text[catalog.base], Text[e.pattern])  BY <1>2 DEF PathOf
<1> QED BY <1>5, <1>6

\* At rest, unless something befell a request, APISIX and pat-auth together let a
\* call in only for an endpoint that the catalog publishes and that declares it;
\* and of those that declare a call they serve a literal one first and else some
\* one, whatever the paths, if no pattern fits the call up to case only or has a
\* parameter that is a part of a segment.
THEOREM RoutesServeAsDeclared == HSpec => []ServedAsDeclared
<1>1. RouteInv /\ FromRequests /\ RoutesAgree => ServedAsDeclared
  <2> SUFFICES ASSUME RouteInv, FromRequests, RoutesAgree, Quiet, blame = {}, NEW q \in Requests
               PROVE  LET m == q[1]  u == q[2]
                          declared == {r \in Wanted : Declares(r, m, u)}
                          literal  == {r \in declared : IsLiteral(PathOf(r))}
                          chosen   == Chosen(routes, m, u)
                      IN  /\ \A r \in chosen : Demands(r, u) => r \in declared
                          /\ (\A r \in Wanted : /\ Whole(PathOf(r))
                                                /\ Like(PathOf(r), u) => Demands(r, u)) =>
                               IF literal # {} THEN chosen = literal
                               ELSE chosen \subseteq declared /\ (declared # {} => chosen # {})
    BY Zenon DEF ServedAsDeclared
  <2>1. routes = Wanted  BY DEF RoutesAgree
  <2>2. q[2] \in Seq(Symbols) /\ q[2] # <<>> /\ q[2][1] = "/"  BY RequestsAssumption
  <2>3. \A r \in Wanted : PathOf(r) \in Seq(Symbols) /\ Rooted(PathOf(r))  BY WantedPaths
  <2> DEFINE m == q[1]  u == q[2]
  <2> HIDE DEF u, m
  <2>4. u \in Seq(Symbols) /\ u # <<>> /\ u[1] = "/"  BY <2>2 DEF u
  <2>5. LET declared == {r \in Wanted : Declares(r, m, u)}
            literal  == {r \in declared : IsLiteral(PathOf(r))}
            chosen   == Chosen(Wanted, m, u)
        IN  /\ \A r \in chosen : Demands(r, u) => r \in declared
            /\ (\A r \in Wanted : Whole(PathOf(r)) /\ (Like(PathOf(r), u) => Demands(r, u))) =>
                 IF literal # {} THEN chosen = literal
                 ELSE chosen \subseteq declared /\ (declared # {} => chosen # {})
    BY <2>3, <2>4, ChosenIs
  <2> QED BY <2>1, <2>5, Zenon DEF u, m
<1> QED BY <1>1, AlwaysFromRequests, RoutesFollowCatalog, PTL

-----------------------------------------------------------------------------
(* Twins.                                                                  *)

\* Where what is left ends.
LEMMA StripEnd ==
  ASSUME NEW S, NEW t \in Seq(S), NEW q \in 0..Len(t), q = 0 \/ t[q] # "/",
         \A i \in 1..Len(t) : i > q => t[i] = "/"
  PROVE  Strip(t) = SubSeq(t, 1, q)
<1>1. PICK r \in 0..Len(t) : /\ Strip(t) = SubSeq(t, 1, r)
                             /\ r = 0 \/ t[r] # "/"
                             /\ \A i \in 1..Len(t) : i > r => t[i] = "/"
  BY StripIs
<1>2. Len(t) \in Nat  BY LenProperties
<1>3. ~(r > q)
  <2> SUFFICES ASSUME r > q PROVE FALSE
    OBVIOUS
  <2>1. r \in 1..Len(t)  BY <1>2
  <2> QED BY <1>1, <1>2, <2>1
<1>4. ~(q > r)
  <2> SUFFICES ASSUME q > r PROVE FALSE
    OBVIOUS
  <2>1. q \in 1..Len(t)  BY <1>2
  <2> QED BY <1>1, <1>2, <2>1
<1>5. q = r  BY <1>2, <1>3, <1>4
<1> QED BY <1>1, <1>5

\* A pattern that is filled.
LEMMA FilledIs ==
  ASSUME NEW t \in Seq(Symbols), NEW s \in Symbols
  PROVE  /\ Filled(t, s) \in Seq(Symbols) /\ Len(Filled(t, s)) = Len(t)
         /\ \A i \in 1..Len(t) : Filled(t, s)[i] = IF t[i] \in Params THEN s ELSE t[i]
<1>1. DOMAIN t = 1..Len(t) /\ Len(t) \in Nat  BY LenProperties
<1>2. \A i \in 1..Len(t) : t[i] \in Symbols  BY ElementOfSeq
<1> DEFINE f == [i \in 1..Len(t) |-> IF t[i] \in Params THEN s ELSE t[i]]
<1>3. Filled(t, s) = f  BY <1>1 DEF Filled
<1>4. \A i \in 1..Len(t) : (IF t[i] \in Params THEN s ELSE t[i]) \in Symbols  BY <1>2
<1>5. f \in Seq(Symbols) /\ Len(f) = Len(t)
      /\ \A i \in 1..Len(t) : f[i] = IF t[i] \in Params THEN s ELSE t[i]
  BY <1>1, <1>4
<1> QED BY <1>3, <1>5

\* A pattern fits what it is filled to.
LEMMA FitsFilled ==
  ASSUME NEW t \in Seq(Symbols), NEW s \in Symbols \ (Params \cup {"/"})
  PROVE  Fits(t, Filled(t, s))
<1> DEFINE n == Len(t)  u == Filled(t, s)  own == [j \in 0..n |-> j]
<1>1. u \in Seq(Symbols) /\ Len(u) = n
      /\ \A i \in 1..n : u[i] = IF t[i] \in Params THEN s ELSE t[i]
  BY FilledIs
<1>2. n \in Nat  BY LenProperties
<1> HIDE DEF n, u
<1>3. own \in [0..n -> 0..n] /\ own[0] = 0 /\ own[n] = n  BY <1>2
<1>4. ASSUME NEW j \in 1..n
      PROVE  /\ own[j] >= 1
             /\ own[j] = own[j - 1] + 1 \/ own[j] = own[j - 1]
             /\ t[own[j]] \in Params => u[j] # "/"
             /\ t[own[j]] \notin Params => own[j] = own[j - 1] + 1 /\ u[j] = t[own[j]]
  <2>1. own[j] = j /\ own[j - 1] = j - 1  BY <1>2
  <2>2. own[j] >= 1 /\ own[j] = own[j - 1] + 1  BY <1>2, <2>1
  <2>3. t[j] \in Params => u[j] # "/"  BY <1>1
  <2>4. t[j] \notin Params => u[j] = t[j]  BY <1>1
  <2> QED BY <2>1, <2>2, <2>3, <2>4
<1> HIDE DEF own
<1>5. Owns(t, u, own)  BY <1>1, <1>3, <1>4, Zenon DEF Owns, n
<1>6. Fits(t, u)  BY <1>1, <1>5, OwnsFits
<1> QED BY <1>6 DEF u

\* A pattern that fits a path of its length has a symbol for each of it.
LEMMA FitsEach ==
  ASSUME NEW t \in Seq(Symbols), NEW u \in Seq(Symbols), Fits(t, u), Len(t) = Len(u)
  PROVE  \A j \in 1..Len(u) : t[j] \notin Params => u[j] = t[j]
<1> DEFINE n == Len(u)
<1>1. n \in Nat  BY LenProperties
<1>2. PICK own : Owns(t, u, own)  BY FitsOwns
<1>3. /\ own \in [0..n -> 0..n] /\ own[0] = 0 /\ own[n] = n
      /\ \A j \in 1..n : t[own[j]] \notin Params => u[j] = t[own[j]]
  BY <1>2, Zenon DEF Owns
<1>4. ASSUME NEW j \in 1..n PROVE own[j] = j
  <2>1. j \in 0..n /\ 0 \in 0..n /\ n \in 0..n /\ 0 <= j /\ j <= n  BY <1>1
  <2>2. own[j] - own[0] <= j - 0  BY <1>2, <2>1, OwnGrows
  <2>3. own[n] - own[j] <= n - j  BY <1>2, <2>1, OwnGrows
  <2> QED BY <1>1, <1>3, <2>1, <2>2, <2>3
<1> QED BY <1>3, <1>4

\* An expression is no longer than the paths it fits.
LEMMA FitsShorter ==
  ASSUME NEW t \in Seq(Symbols), NEW u \in Seq(Symbols), Fits(t, u)
  PROVE  Len(t) <= Len(u)
<1>1. PICK own : Owns(t, u, own)  BY FitsOwns
<1>2. own[0] = 0 /\ own[Len(u)] = Len(t) /\ Len(u) \in Nat /\ Len(t) \in Nat
  BY <1>1, LenProperties DEF Owns
<1>3. 0 \in 0..Len(u) /\ Len(u) \in 0..Len(u) /\ 0 <= Len(u)  BY <1>2
<1>4. own[Len(u)] - own[0] <= Len(u) - 0  BY <1>1, <1>3, OwnGrows
<1> QED BY <1>2, <1>4

\* Patterns that fit what both are filled to are the same but for names.
LEMMA FitsAlike ==
  ASSUME NEW t \in Seq(Symbols), NEW v \in Seq(Symbols),
         NEW a \in Symbols, NEW c \in Symbols, a # c,
         \A s \in {a, c} : Fits(v, Filled(t, s)) /\ Fits(t, Filled(v, s))
  PROVE  Len(t) = Len(v) /\ \A j \in 1..Len(t) : Erased(t[j]) = Erased(v[j])
<1>1. Len(t) \in Nat /\ Len(v) \in Nat  BY LenProperties
<1>2. ASSUME NEW x \in Seq(Symbols), NEW s \in {a, c}
      PROVE  Filled(x, s) \in Seq(Symbols) /\ Len(Filled(x, s)) = Len(x)
             /\ \A i \in 1..Len(x) : Filled(x, s)[i] = IF x[i] \in Params THEN s ELSE x[i]
  BY FilledIs
<1>3. Len(t) = Len(v)
  <2>1. Len(v) <= Len(Filled(t, a))  BY <1>2, FitsShorter
  <2>2. Len(t) <= Len(Filled(v, a))  BY <1>2, FitsShorter
  <2>3. Len(Filled(t, a)) = Len(t) /\ Len(Filled(v, a)) = Len(v)  BY <1>2
  <2> QED BY <1>1, <2>1, <2>2, <2>3
<1>4. ASSUME NEW s \in {a, c}, NEW j \in 1..Len(t)
      PROVE  /\ v[j] \notin Params => v[j] = IF t[j] \in Params THEN s ELSE t[j]
             /\ t[j] \notin Params => t[j] = IF v[j] \in Params THEN s ELSE v[j]
  <2>1. v[j] \notin Params => Filled(t, s)[j] = v[j]
    <3>1. Filled(t, s) \in Seq(Symbols) /\ Len(Filled(t, s)) = Len(t)  BY <1>2
    <3> QED BY <1>3, <3>1, FitsEach
  <2>2. t[j] \notin Params => Filled(v, s)[j] = t[j]
    <3>1. Filled(v, s) \in Seq(Symbols) /\ Len(Filled(v, s)) = Len(v)  BY <1>2
    <3> QED BY <1>3, <3>1, FitsEach
  <2>3. Filled(t, s)[j] = IF t[j] \in Params THEN s ELSE t[j]  BY <1>2
  <2>4. Filled(v, s)[j] = IF v[j] \in Params THEN s ELSE v[j]  BY <1>2, <1>3
  <2> QED BY <2>1, <2>2, <2>3, <2>4
<1>5. ASSUME NEW j \in 1..Len(t) PROVE Erased(t[j]) = Erased(v[j])
  <2>1. /\ v[j] \notin Params => v[j] = IF t[j] \in Params THEN a ELSE t[j]
        /\ t[j] \notin Params => t[j] = IF v[j] \in Params THEN a ELSE v[j]
    BY <1>4
  <2>2. /\ v[j] \notin Params => v[j] = IF t[j] \in Params THEN c ELSE t[j]
        /\ t[j] \notin Params => t[j] = IF v[j] \in Params THEN c ELSE v[j]
    BY <1>4
  <2>3. t[j] \in Params <=> v[j] \in Params  BY <2>1, <2>2
  <2>4. t[j] \notin Params => t[j] = v[j]  BY <2>1, <2>3
  <2> QED BY <2>3, <2>4 DEF Erased
<1> QED BY <1>3, <1>5

\* Slashes are stripped once.
LEMMA StripTwice ==
  ASSUME NEW S, NEW t \in Seq(S)
  PROVE  Strip(t) \in Seq(S) /\ Strip(Strip(t)) = Strip(t)
<1>1. PICK q \in 0..Len(t) : Strip(t) = SubSeq(t, 1, q) /\ (q = 0 \/ t[q] # "/")
  BY StripIs
<1> DEFINE s == SubSeq(t, 1, q)
<1>2. s \in Seq(S) /\ Len(s) = q /\ \A i \in 1..q : s[i] = t[i]  BY StartOf
<1>3. Len(t) \in Nat /\ q \in Nat  BY LenProperties
<1> HIDE DEF s
<1>4. q = 0 \/ s[q] # "/"
  <2>1. q # 0 => q \in 1..q  BY <1>3
  <2> QED BY <1>1, <1>2, <2>1
<1>5. q \in 0..Len(s) /\ \A i \in 1..Len(s) : i > q => s[i] = "/"  BY <1>2, <1>3
<1>6. Strip(s) = SubSeq(s, 1, q)  BY <1>2, <1>4, <1>5, StripEnd
<1>7. SubSeq(s, 1, q) = s
  <2>1. /\ SubSeq(s, 1, q) \in Seq(S) /\ Len(SubSeq(s, 1, q)) = q
        /\ \A i \in 1..q : SubSeq(s, 1, q)[i] = s[i]
    BY <1>2, <1>5, StartOf
  <2> QED BY <1>2, <2>1, SeqEqual
<1> QED BY <1>1, <1>2, <1>6, <1>7 DEF s

\* A pattern without the names of its parameters.
LEMMA ErasedSeq ==
  ASSUME NEW x \in Seq(Symbols)
  PROVE  LET y == [i \in DOMAIN x |-> Erased(x[i])] IN
         /\ y \in Seq(Symbols \cup {"{param}"}) /\ Len(y) = Len(x)
         /\ \A i \in 1..Len(x) : y[i] = Erased(x[i])
<1> DEFINE S == Symbols \cup {"{param}"}
           f == [i \in 1..Len(x) |-> IF x[i] \in Params THEN "{param}" ELSE x[i]]
<1>1. DOMAIN x = 1..Len(x) /\ Len(x) \in Nat  BY LenProperties
<1>2. \A i \in 1..Len(x) : x[i] \in Symbols  BY ElementOfSeq
<1>3. \A i \in 1..Len(x) : (IF x[i] \in Params THEN "{param}" ELSE x[i]) \in S  BY <1>2
<1> HIDE DEF S
<1>4. f \in [1..Len(x) -> S]
      /\ \A i \in 1..Len(x) : f[i] = IF x[i] \in Params THEN "{param}" ELSE x[i]
  BY <1>1, <1>3
<1> HIDE DEF f
<1>5. f \in Seq(S) /\ Len(f) = Len(x)
  <2>1. f \in Seq(S)  BY <1>1, <1>4, SeqDef
  <2>2. DOMAIN f = 1..Len(x)  BY <1>4
  <2> QED BY <1>1, <2>1, <2>2, LenProperties
<1>6. [i \in DOMAIN x |-> Erased(x[i])] = f  BY <1>1 DEF Erased, f
<1> QED BY <1>4, <1>5, <1>6 DEF Erased, S

\* The symbols of a pattern that make a difference.
LEMMA NormalizedIs ==
  ASSUME NEW p \in Seq(Symbols), WellFormed(p), p # <<"/">>
  PROVE  LET n == [i \in DOMAIN p |-> Erased(p[i])] IN
         \E q \in 1..Len(p) :
           /\ p[q] # "/" /\ \A i \in 1..Len(p) : i > q => p[i] = "/"
           /\ Normalized(p) = SubSeq(n, 1, q)
<1> DEFINE n == [i \in DOMAIN p |-> Erased(p[i])]  S == Symbols \cup {"{param}"}
<1>1. Len(p) \in Nat /\ DOMAIN p = 1..Len(p)  BY LenProperties
<1>2. p # <<>> /\ p[1] = "/" /\ \A i \in 1..(Len(p) - 1) : ~(p[i] = "/" /\ p[i + 1] = "/")
  BY DEF WellFormed
<1>3. Len(p) > 1
  <2>1. Len(p) # 0  BY <1>2, EmptySeq
  <2>2. Len(p) # 1
    <3> SUFFICES ASSUME Len(p) = 1 PROVE FALSE
      OBVIOUS
    <3>1. p = <<"/">>  BY <1>2
    <3> QED BY <3>1
  <2> QED BY <1>1, <2>1, <2>2
<1>4. PICK q \in 0..Len(p) : /\ q = 0 \/ p[q] # "/"
                             /\ \A i \in 1..Len(p) : i > q => p[i] = "/"
  BY StripIs
<1>5. q # 0
  <2> SUFFICES ASSUME q = 0 PROVE FALSE
    OBVIOUS
  <2>1. 1 \in 1..(Len(p) - 1) /\ 1 + 1 \in 1..Len(p) /\ 1 + 1 > q  BY <1>1, <1>3
  <2>2. p[1 + 1] = "/"  BY <1>4, <2>1
  <2> QED BY <1>2, <2>1, <2>2
<1>6. n \in Seq(S) /\ Len(n) = Len(p) /\ \A i \in 1..Len(p) : n[i] = Erased(p[i])
  BY ErasedSeq
<1>7. ASSUME NEW i \in 1..Len(p) PROVE n[i] = "/" <=> p[i] = "/"
  <2>1. n[i] = Erased(p[i])  BY <1>6
  <2>2. "{param}" # "/"  OBVIOUS
  <2>3. "/" \notin Params  BY RulesAssumption
  <2> QED BY <2>1, <2>2, <2>3, Zenon DEF Erased
<1>8. Normalized(p) = Strip(n)  BY <1>3, Zenon DEF Normalized
<1> HIDE DEF n, S
<1>9. q \in 1..Len(p)  BY <1>1, <1>4, <1>5
<1>10. q \in 0..Len(n) /\ (q = 0 \/ n[q] # "/") /\ \A i \in 1..Len(n) : i > q => n[i] = "/"
  BY <1>4, <1>6, <1>7, <1>9
<1>11. Strip(n) = SubSeq(n, 1, q)  BY <1>6, <1>10, StripEnd
<1> QED BY <1>4, <1>5, <1>8, <1>9, <1>11 DEF n

\* And the path of its route.
LEMMA PathStrip ==
  ASSUME NEW B \in Seq(Symbols), NEW p \in Seq(Symbols), p # <<"/">>,
         NEW q \in 1..Len(p), p[q] # "/", \A i \in 1..Len(p) : i > q => p[i] = "/"
  PROVE  LET s == Strip(B)  t == Strip(FinalPath(B, p)) IN
         t \in Seq(Symbols) /\ Len(t) = Len(s) + q /\ \A i \in 1..q : t[Len(s) + i] = p[i]
<1> DEFINE s == Strip(B)  f == s \o p  k == Len(s) + q
<1>1. FinalPath(B, p) = f  BY DEF FinalPath
<1>2. s \in Seq(Symbols)  BY StripTwice
<1> HIDE DEF s
<1>3. /\ f \in Seq(Symbols) /\ Len(f) = Len(s) + Len(p)
      /\ \A i \in 1..(Len(s) + Len(p)) : f[i] = IF i <= Len(s) THEN s[i] ELSE p[i - Len(s)]
  BY <1>2, ConcatProperties
<1>4. Len(s) \in Nat /\ Len(p) \in Nat  BY <1>2, LenProperties
<1> HIDE DEF f
<1>5. ASSUME NEW i \in 1..Len(p) PROVE f[Len(s) + i] = p[i]
  <2>1. Len(s) + i \in 1..(Len(s) + Len(p)) /\ ~(Len(s) + i <= Len(s)) /\ (Len(s) + i) - Len(s) = i
    BY <1>4
  <2> QED BY <1>3, <2>1
<1>6. k \in 0..Len(f) /\ f[k] # "/"  BY <1>3, <1>4, <1>5
<1>7. ASSUME NEW i \in 1..Len(f), i > k PROVE f[i] = "/"
  <2>1. i - Len(s) \in 1..Len(p) /\ i - Len(s) > q /\ Len(s) + (i - Len(s)) = i
    BY <1>3, <1>4, <1>7
  <2> QED BY <1>5, <2>1
<1>8. Strip(f) = SubSeq(f, 1, k)  BY <1>3, <1>6, <1>7, StripEnd
<1>9. /\ SubSeq(f, 1, k) \in Seq(Symbols) /\ Len(SubSeq(f, 1, k)) = k
      /\ \A i \in 1..k : SubSeq(f, 1, k)[i] = f[i]
  BY <1>3, <1>6, StartOf
<1>10. ASSUME NEW i \in 1..q PROVE SubSeq(f, 1, k)[Len(s) + i] = p[i]
  <2>1. Len(s) + i \in 1..k /\ i \in 1..Len(p)  BY <1>4
  <2> QED BY <1>5, <1>9, <2>1
<1> QED BY <1>1, <1>8, <1>9, <1>10 DEF s

\* So patterns whose paths are alike are the same but for names.
LEMMA AlikeNormalized ==
  ASSUME NEW B \in Seq(Symbols), NEW p \in Seq(Symbols), NEW v \in Seq(Symbols),
         WellFormed(p), WellFormed(v),
         Len(Strip(FinalPath(B, p))) = Len(Strip(FinalPath(B, v))),
         \A j \in 1..Len(Strip(FinalPath(B, p))) :
           Erased(Strip(FinalPath(B, p))[j]) = Erased(Strip(FinalPath(B, v))[j])
  PROVE  Normalized(p) = Normalized(v)
<1> DEFINE s == Strip(B)  t == Strip(FinalPath(B, p))  w == Strip(FinalPath(B, v))
<1>1. s \in Seq(Symbols) /\ Strip(s) = s  BY StripTwice
<1>2. Len(s) \in Nat /\ Len(p) \in Nat /\ Len(v) \in Nat  BY <1>1, LenProperties
<1>3. ASSUME NEW x, x = <<"/">> PROVE Strip(FinalPath(B, x)) = s
  BY <1>1, <1>3 DEF FinalPath
<1>4. CASE p = <<"/">> /\ v = <<"/">>
  BY <1>4
<1>5. CASE p = <<"/">> /\ v # <<"/">>
  <2>1. PICK q \in 1..Len(v) : v[q] # "/" /\ \A i \in 1..Len(v) : i > q => v[i] = "/"
    BY <1>5, NormalizedIs
  <2>2. Len(w) = Len(s) + q  BY <1>5, <2>1, PathStrip
  <2>3. Len(t) = Len(s)  BY <1>3, <1>5
  <2> HIDE DEF s, t, w
  <2>4. Len(t) # Len(w)  BY <1>2, <2>2, <2>3
  <2> QED BY <2>4 DEF t, w
<1>6. CASE p # <<"/">> /\ v = <<"/">>
  <2>1. PICK q \in 1..Len(p) : p[q] # "/" /\ \A i \in 1..Len(p) : i > q => p[i] = "/"
    BY <1>6, NormalizedIs
  <2>2. Len(t) = Len(s) + q  BY <1>6, <2>1, PathStrip
  <2>3. Len(w) = Len(s)  BY <1>3, <1>6
  <2> HIDE DEF s, t, w
  <2>4. Len(t) # Len(w)  BY <1>2, <2>2, <2>3
  <2> QED BY <2>4 DEF t, w
<1>7. CASE p # <<"/">> /\ v # <<"/">>
  <2> DEFINE n == [i \in DOMAIN p |-> Erased(p[i])]  m == [i \in DOMAIN v |-> Erased(v[i])]
             S == Symbols \cup {"{param}"}
  <2>1. PICK q \in 1..Len(p) : /\ p[q] # "/" /\ \A i \in 1..Len(p) : i > q => p[i] = "/"
                               /\ Normalized(p) = SubSeq(n, 1, q)
    BY <1>7, NormalizedIs
  <2>2. PICK r \in 1..Len(v) : /\ v[r] # "/" /\ \A i \in 1..Len(v) : i > r => v[i] = "/"
                               /\ Normalized(v) = SubSeq(m, 1, r)
    BY <1>7, NormalizedIs
  <2>3. Len(t) = Len(s) + q /\ \A i \in 1..q : t[Len(s) + i] = p[i]
    BY <1>7, <2>1, PathStrip
  <2>4. Len(w) = Len(s) + r /\ \A i \in 1..r : w[Len(s) + i] = v[i]
    BY <1>7, <2>2, PathStrip
  <2>5. n \in Seq(S) /\ Len(n) = Len(p) /\ \A i \in 1..Len(p) : n[i] = Erased(p[i])
    BY ErasedSeq
  <2>6. m \in Seq(S) /\ Len(m) = Len(v) /\ \A i \in 1..Len(v) : m[i] = Erased(v[i])
    BY ErasedSeq
  <2>7. Len(t) = Len(w) /\ \A j \in 1..Len(t) : Erased(t[j]) = Erased(w[j])
    OBVIOUS
  <2> HIDE DEF s, t, w, n, m, S
  <2>8. q = r  BY <1>2, <2>3, <2>4, <2>7
  <2>9. /\ SubSeq(n, 1, q) \in Seq(S) /\ Len(SubSeq(n, 1, q)) = q
         /\ \A i \in 1..q : SubSeq(n, 1, q)[i] = n[i]
    <3>1. q \in 0..Len(n)  BY <1>2, <2>5
    <3> QED BY <2>5, <3>1, StartOf
  <2>10. /\ SubSeq(m, 1, q) \in Seq(S) /\ Len(SubSeq(m, 1, q)) = q
         /\ \A i \in 1..q : SubSeq(m, 1, q)[i] = m[i]
    <3>1. q \in 0..Len(m)  BY <1>2, <2>6, <2>8
    <3> QED BY <2>6, <3>1, StartOf
  <2>11. ASSUME NEW i \in 1..q PROVE n[i] = m[i]
    <3>1. Len(s) + i \in 1..Len(t) /\ i \in 1..Len(p) /\ i \in 1..Len(v)
      BY <1>2, <2>3, <2>8
    <3>2. Erased(t[Len(s) + i]) = Erased(w[Len(s) + i])  BY <2>7, <3>1
    <3> QED BY <2>3, <2>4, <2>5, <2>6, <2>8, <3>1, <3>2
  <2>12. SubSeq(n, 1, q) = SubSeq(m, 1, q)  BY <2>9, <2>10, <2>11, SeqEqual
  <2> QED BY <2>1, <2>2, <2>8, <2>12
<1> QED BY <1>4, <1>5, <1>6, <1>7

\* What one request brings is no twins.
LEMMA NoTwins ==
  ASSUME NEW E \in Endpoints
  PROVE  ~Twins(CHOOSE b \in Bases : TRUE, E)
<1> DEFINE B == CHOOSE b \in Bases : TRUE
<1>1. PICK o \in Bases : Accepted(o, E)  BY CatalogAssumption
<1>2. B \in Bases  BY <1>1
<1> HIDE DEF B
<1>3. Text[B] \in Seq(Symbols)  BY <1>2, CatalogAssumption, RulesAssumption
<1> DEFINE t(r) == Strip(PathOf(r))
<1>4. PICK a \in Symbols \ (Params \cup {"/"}), c \in Symbols \ (Params \cup {"/"}) :
        /\ a # c
        /\ \A r \in RoutesOf(B, E) :
             t(r) # <<>> => \A s \in {a, c} : \E q \in Requests : q[2] = Filled(t(r), s)
  BY SampleAssumption DEF B
<1> SUFFICES ASSUME NEW d \in RoutesOf(B, E), NEW e \in RoutesOf(B, E), d # e,
                    Lower[Method[d.pattern]] = Lower[Method[e.pattern]],
                    {q \in Requests : Fits(t(d), q[2])} = {q \in Requests : Fits(t(e), q[2])}
             PROVE  FALSE
  BY Zenon DEF Twins, B
<1>5. ASSUME NEW r \in RoutesOf(B, E)
      PROVE  \E x \in E :
               /\ r = [base |-> B, pattern |-> x.pattern, content |-> x.content]
               /\ Text[x.pattern] \in Seq(Symbols) /\ WellFormed(Text[x.pattern])
               /\ PathOf(r) = FinalPath(Text[B], Text[x.pattern])
               /\ t(r) \in Seq(Symbols)
  <2>1. PICK x \in E : r = [base |-> B, pattern |-> x.pattern, content |-> x.content]
    BY DEF RoutesOf
  <2>2. x.pattern \in Patterns  BY RouteAssumption DEF Endpoint
  <2>3. Text[x.pattern] \in Seq(Symbols)  BY <2>2, CatalogAssumption, RulesAssumption
  <2>4. WellFormed(Text[x.pattern])  BY <1>1 DEF Accepted, Valid
  <2>5. PathOf(r) = FinalPath(Text[B], Text[x.pattern])  BY <2>1 DEF PathOf
  <2>6. PathOf(r) \in Seq(Symbols)  BY <1>2, <2>5, PathTyped
  <2>7. t(r) \in Seq(Symbols)  BY <2>6, StripTwice
  <2> QED BY <2>1, <2>3, <2>4, <2>5, <2>7
<1>6. PICK x \in E : /\ d = [base |-> B, pattern |-> x.pattern, content |-> x.content]
                     /\ Text[x.pattern] \in Seq(Symbols) /\ WellFormed(Text[x.pattern])
                     /\ PathOf(d) = FinalPath(Text[B], Text[x.pattern])
                     /\ t(d) \in Seq(Symbols)
  BY <1>5
<1>7. PICK y \in E : /\ e = [base |-> B, pattern |-> y.pattern, content |-> y.content]
                     /\ Text[y.pattern] \in Seq(Symbols) /\ WellFormed(Text[y.pattern])
                     /\ PathOf(e) = FinalPath(Text[B], Text[y.pattern])
                     /\ t(e) \in Seq(Symbols)
  BY <1>5
<1> HIDE DEF t
\* Each fits what the other is filled to.
<1>8. ASSUME NEW r \in {d, e}, NEW w \in {d, e}, NEW s \in {a, c}
      PROVE  Fits(t(w), Filled(t(r), s))
  <2>1. Fits(t(r), Filled(t(r), s))  BY <1>4, <1>6, <1>7, FitsFilled
  <2>2. \A q \in Requests : Fits(t(r), q[2]) => Fits(t(w), q[2])
    OBVIOUS
  <2>3. CASE t(r) # <<>>
    <3>1. PICK q \in Requests : q[2] = Filled(t(r), s)  BY <1>4, <2>3 DEF t
    <3> QED BY <2>1, <2>2, <3>1
  <2>4. CASE t(r) = <<>>
    <3>1. t(w) = <<>>
      <4> SUFFICES ASSUME t(w) # <<>> PROVE FALSE
        OBVIOUS
      <4>1. PICK q \in Requests : q[2] = Filled(t(w), a)  BY <1>4 DEF t
      <4>2. Fits(t(w), q[2])  BY <1>4, <1>6, <1>7, <4>1, FitsFilled
      <4>3. Fits(<<>>, q[2])  BY <2>4, <4>2
      <4>4. <<>> \in Seq(Symbols) /\ q[2] \in Seq(Symbols) /\ q[2] # <<>>
        BY RequestsAssumption
      <4>5. IsLiteral(<<>>)  BY DEF IsLiteral, ParamsOf, ToSet
      <4> QED BY <4>3, <4>4, <4>5, LiteralFits
    <3> QED BY <2>1, <2>4, <3>1
  <2> QED BY <2>3, <2>4
<1>9. Len(t(d)) = Len(t(e)) /\ \A j \in 1..Len(t(d)) : Erased(t(d)[j]) = Erased(t(e)[j])
  <2>1. \A s \in {a, c} : Fits(t(e), Filled(t(d), s)) /\ Fits(t(d), Filled(t(e), s))  BY <1>8
  <2>2. a \in Symbols /\ c \in Symbols /\ a # c  BY <1>4
  <2> DEFINE f == t(d)  g == t(e)
  <2>3. f \in Seq(Symbols) /\ g \in Seq(Symbols)  BY <1>6, <1>7
  <2>4. \A s \in {a, c} : Fits(g, Filled(f, s)) /\ Fits(f, Filled(g, s))  BY <2>1
  <2> HIDE DEF f, g
  <2>5. Len(f) = Len(g) /\ \A j \in 1..Len(f) : Erased(f[j]) = Erased(g[j])
    BY <2>2, <2>3, <2>4, FitsAlike
  <2> QED BY <2>5 DEF f, g
<1>10. Normalized(Text[x.pattern]) = Normalized(Text[y.pattern])
  <2> DEFINE A == Text[B]  p == Text[x.pattern]  v == Text[y.pattern]
             f == Strip(FinalPath(A, p))  g == Strip(FinalPath(A, v))
  <2>1. t(d) = f /\ t(e) = g  BY <1>6, <1>7, Zenon DEF t
  <2>2. Len(f) = Len(g) /\ \A j \in 1..Len(f) : Erased(f[j]) = Erased(g[j])
    BY <1>9, <2>1, Zenon
  <2>3. p \in Seq(Symbols) /\ v \in Seq(Symbols) /\ A \in Seq(Symbols)
        /\ WellFormed(p) /\ WellFormed(v)
    BY <1>3, <1>6, <1>7
  <2> HIDE DEF A, p, v
  <2> QED BY <2>2, <2>3, AlikeNormalized, Zenon DEF p, v
<1>11. Key(x) = Key(y)  BY <1>6, <1>7, <1>10 DEF Key
<1>12. x = y  BY <1>1, <1>11 DEF Accepted, NoDuplicates
<1> QED BY <1>6, <1>7, <1>12

\* Endpoints of one method that fit the same paths become those of an API only as
\* two requests that replace them at once are merged: the check that each request
\* makes of its own leaves none, for patterns of any length.
THEOREM TwinsNeedAMerge == HSpec => TwinsOnlyMerged
<1> DEFINE Merged == endpoints' # endpoints /\ Twins(CHOOSE b \in Bases : TRUE, endpoints')
                       => \E o \in Ops : At(o, "merge")
<1>1. RouteInv /\ FromRequests /\ [HNext]_hvars => [Merged]_hvars
  <2>1. ASSUME RouteInv, FromRequests, NEW o \in Ops, Acts(o)
        PROVE  Merged
    <3>1. endpoints' # endpoints =>
            At(o, "merge") \/ endpoints' \in Endpoints \/ endpoints' = {}
      BY <2>1, ActsFromRequests DEF RouteInv
    <3>2. ~Twins(CHOOSE b \in Bases : TRUE, {})  BY DEF Twins, RoutesOf
    <3> QED BY <3>1, <3>2, NoTwins, Zenon
  <2>2. ASSUME RoutesLost PROVE Merged
    BY <2>2 DEF RoutesLost
  <2>3. HNext => RoutesLost \/ \E o \in Ops : Acts(o)
    BY DEF HNext, Next, Acts
  <2> QED
    BY <2>1, <2>2, <2>3
<1>2. HSpec => [][Merged]_hvars
  BY <1>1, AlwaysFromRequests, PTL DEF HSpec
<1> QED
  BY <1>2 DEF TwinsOnlyMerged
=============================================================================
