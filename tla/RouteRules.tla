----------------------------- MODULE RouteRules -----------------------------
(***************************************************************************)
(* RouteHistory and EndpointRules together: the endpoints that the catalog *)
(* holds, and the requests that the routes in APISIX serve.                *)
(***************************************************************************)
EXTENDS RouteHistory, EndpointRules

CONSTANT Requests \* pairs of a method and a path

\* What _assert_valid_public_base and the checks of endpoints let in.
ASSUME CatalogAssumption ==
  /\ Bases \cup Patterns \subseteq DOMAIN Text
  /\ \A b \in Bases : Text[b] # <<>> /\ Text[b][1] = "/"
  /\ \A E \in Endpoints : \E b \in Bases : Accepted(b, E)

ASSUME RequestsAssumption ==
  \A q \in Requests : q[2] \in Seq(Symbols) \ {<<>>} /\ q[2][1] = "/"

Slashes(t) == {i \in DOMAIN t : t[i] = "/"}

\* Where the segment k begins, or the path ends.
Cut(t, k) == Min({i \in DOMAIN t : Upto(Slashes(t), i) >= k} \cup {Len(t) + 1})

\* What a pattern declares, by segments, of which a parameter stands for any.
Segments(t) ==
  [k \in 1..Cardinality(Slashes(t)) |-> SubSeq(t, Cut(t, k) + 1, Cut(t, k + 1) - 1)]

Whole(t) == \A s \in ToSet(Segments(t)) : IsLiteral(s) \/ Len(s) = 1

Declares(r, m, u) ==
  LET T == Segments(PathOf(r))
      U == Segments(u)
  IN  /\ Lower[Method[r.pattern]] = m
      /\ Len(T) = Len(U)
      /\ \A k \in DOMAIN T : IF IsLiteral(T[k]) THEN T[k] = U[k] ELSE U[k] # <<>>

\* At rest, and if nothing befell a request, a call is let in only for an endpoint
\* that the catalog publishes and that declares it; and a call that one declares
\* is served by the literal one, or any other, unless it fits one up to case only
\* or a parameter is a part of a segment (the priorities and vars of a route).
ServedAsDeclared ==
  Quiet /\ blame = {} =>
    \A q \in Requests :
      LET m == q[1]  u == q[2]
          declared == {r \in Wanted : Declares(r, m, u)}
          literal  == {r \in declared : IsLiteral(PathOf(r))}
          chosen   == Chosen(routes, m, u)
      IN  /\ \A r \in chosen : Demands(r, u) => r \in declared
          /\ (\A r \in Wanted : Whole(PathOf(r)) /\ (Like(PathOf(r), u) => Demands(r, u))) =>
               IF literal # {} THEN chosen = literal
               ELSE chosen \subseteq declared /\ (declared # {} => chosen # {})

\* Two endpoints of a method that fit the same paths, or would but for a slash at
\* the end.
Twins(base, eps) ==
  \E d, e \in RoutesOf(base, eps) :
    LET Fitting(r) == {q \in Requests : Fits(Strip(PathOf(r)), q[2])}
    IN  /\ d # e /\ Lower[Method[d.pattern]] = Lower[Method[e.pattern]]
        /\ Fitting(d) = Fitting(e)

\* A path of the pattern t, with the letter s for its parameters.
Filled(t, s) == [i \in DOMAIN t |-> IF t[i] \in Params THEN s ELSE t[i]]

\* There are requests enough to tell patterns apart.
ASSUME SampleAssumption ==
  \E a, c \in Symbols \ (Params \cup {"/"}) :
    /\ a # c
    /\ \A E \in Endpoints : \A r \in RoutesOf(CHOOSE b \in Bases : TRUE, E) :
         LET t == Strip(PathOf(r))
         IN  t # <<>> => \A s \in {a, c} : \E q \in Requests : q[2] = Filled(t, s)

\* An API gets endpoints that are twins only from two requests that replace them
\* at once: UNIQUE compares patterns letter by letter, and the check of each looks
\* at its own (_assert_no_duplicate_endpoints).
TwinsOnlyMerged ==
  [][ endpoints' # endpoints /\ Twins(CHOOSE b \in Bases : TRUE, endpoints')
        => \E o \in Ops : At(o, "merge") ]_hvars
=============================================================================
