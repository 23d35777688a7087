---------------------------- MODULE EndpointRules ----------------------------
(***************************************************************************)
(* What the catalog accepts as the endpoints of an API, and what APISIX and*)
(* pat-auth make of a request on their routes. A path is a sequence of     *)
(* letters and "/"; a pattern may hold parameters, each one symbol. Text   *)
(* gives the text of a base or a pattern, which are names here as they are *)
(* in RouteSync. Endpoints and routes have a pattern and a content.        *)
(***************************************************************************)
EXTENDS SequencesExt

CONSTANTS
  Params,   \* symbols of parameters; {x} and :x are the same
  Text,     \* Text[n]: the text of the base or the pattern n
  Method,   \* Method[p]: the method of the endpoints of pattern p
  Upstream, \* Upstream[c]: the parameters of the upstream URL of content c
  Lower     \* Lower[s]: the symbol s without its case, letter or method

Symbols == DOMAIN Lower

ASSUME RulesAssumption ==
  /\ Params \subseteq Symbols /\ "/" \in Symbols \ Params
  /\ Lower \in [Symbols -> Symbols]
  /\ \A s \in Symbols : /\ Lower[s] = "/" <=> s = "/"
                        /\ Lower[s] \in Params <=> s \in Params
  /\ \A n \in DOMAIN Text : Text[n] \in Seq(Symbols)

ParamsOf(t)  == ToSet(t) \cap Params
IsLiteral(t) == ParamsOf(t) = {}

\* rstrip("/")
Strip(t) == SubSeq(t, 1, Max({i \in DOMAIN t : t[i] # "/"} \cup {0}))

-----------------------------------------------------------------------------
(* What the catalog accepts.                                               *)

\* Mutant of Erased: the names of parameters make a difference.
ErasedNot(s) == s

\* Parameters count without their names.
Erased(s) == IF s \in Params THEN "{param}" ELSE s

Normalized(t) ==
  LET n == [i \in DOMAIN t |-> Erased(t[i])]
  IN  IF Len(t) > 1 THEN Strip(n) ELSE n

WellFormed(t) ==
  t # <<>> /\ t[1] = "/" /\ ~\E i \in 1..(Len(t) - 1) : t[i] = "/" /\ t[i + 1] = "/"

Valid(base, e) ==
  LET t == Text[e.pattern]
      b == Strip(Text[base])
  IN  /\ WellFormed(t) /\ "*" \notin ToSet(t)
      /\ b # <<>> => t # b /\ ~IsPrefix(Append(b, "/"), t)
      /\ Upstream[e.content] \subseteq ParamsOf(t)

Key(e) == <<Lower[Method[e.pattern]], Normalized(Text[e.pattern])>>

NoDuplicates(E) == \A d, e \in E : Key(d) = Key(e) => d = e

Accepted(base, E) == (\A e \in E : Valid(base, e)) /\ NoDuplicates(E)

-----------------------------------------------------------------------------
(* The routes.                                                             *)

FinalPath(base, t) == IF t = <<"/">> THEN Strip(base) ELSE Strip(base) \o t

PathOf(r) == FinalPath(Text[r.base], Text[r.pattern])

\* Of the places S in a path, how many lie up to j.
Upto(S, j) == Cardinality({i \in S : i <= j})

\* The expression made of a path, in which a parameter is ([^/]+). It fits a path
\* that has a part for each symbol: of one symbol, or for a parameter of some.
Fits(t, u) ==
  \E begins \in SUBSET DOMAIN u :
    /\ Cardinality(begins) = Len(t)
    /\ \A j \in DOMAIN u :
         LET i == Upto(begins, j) \* u[j] is of the part for t[i]
         IN  /\ i > 0
             /\ IF t[i] \in Params THEN u[j] # "/" ELSE u[j] = t[i] /\ j \in begins

\* The same as vars compares it (~*): without case.
Like(t, u) ==
  LET Low(s) == [i \in DOMAIN s |-> Lower[s[i]]] IN Fits(Low(t), Low(u))

\* The path up to the first parameter.
Prefix(t) == Strip(SubSeq(t, 1, Min({i \in DOMAIN t : t[i] \in Params}) - 1))

\* Mutant of Priority: all routes have the same.
PriorityFlat(r) == 100

Priority(r) == IF IsLiteral(PathOf(r)) THEN 200 ELSE 100

\* uri, or uris and vars.
Candidate(r, u) ==
  LET t == PathOf(r) IN
  IF IsLiteral(t) THEN t = u
  ELSE /\ u = Prefix(t) \/ IsPrefix(Append(Prefix(t), "/"), u)
       /\ Like(t, u)

\* APISIX may choose any candidate of the highest priority.
Chosen(R, m, u) ==
  LET C == {r \in R : Lower[Method[r.pattern]] = m /\ Candidate(r, u)}
  IN  {r \in C : \A s \in C : Priority(s) <= Priority(r)}

\* pat-auth asks for the scope of the route if its expression fits the path, and
\* else refuses.
Demands(r, u) == Fits(PathOf(r), u)
=============================================================================
