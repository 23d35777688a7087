------------------------------- MODULE MCRoutes -------------------------------
(* One API under two public paths, with a literal endpoint that comes and     *)
(* goes and a parameterised one that changes its content or its name.         *)
EXTENDS RouteClaims, TLC

CONSTANTS b1, b2, pa, px, py, pas, pg, pba, pw, c1, c2

MCText == b1 :> <<"/", "b">> @@ b2 :> <<"/", "c", "/">>
  @@ pa  :> <<"/", "a">>    @@ pas :> <<"/", "a", "/">>
  @@ px  :> <<"/", "{x}">>  @@ py  :> <<"/", "{y}">>  @@ pg :> <<"/", "{y}">>
  @@ pba :> <<"/", "b", "/", "a">>  @@ pw :> <<"/", "*">>
MCMethod   == [p \in Patterns |-> IF p = pg THEN "get" ELSE "GET"]
MCUpstream == c1 :> {} @@ c2 :> {"{x}"}
MCLower    == [s \in {"/", "a", "A", "b", "c", "*", "{x}", "{y}", "GET", "get"} |->
                 CASE s = "A" -> "a" [] s = "GET" -> "get" [] OTHER -> s]
MCLiteral  == {p \in Patterns : IsLiteral(MCText[p])}

End(p, c) == [pattern |-> p, content |-> c]
Two       == {End(pa, c1), End(px, c2)}
Changed   == {End(px, c1)}
Renamed   == {End(py, c1)}

\* What a request may bring, and what of it the catalog accepts.
Brought ==
  {Two, Changed, Renamed,
   {End(px, c2), End(py, c1)}, {End(px, c1), End(pg, c1)}, {End(pa, c1), End(pas, c1)},
   {End(pba, c1)}, {End(pw, c1)}, {End(py, c2)}}
MCEndpoints == {E \in Brought : \A b \in Bases : Accepted(b, E)}
MCCreated   == {b1} \X (MCEndpoints \ {Changed, Renamed})

Patch(s, b, E) == [status |-> s, base |-> b, endpoints |-> E]
MCPatches ==
  {Patch("DRAFT", None, Renamed),
   Patch("PUBLISHED", None, Changed), Patch(None, b2, None)}
MCSymmetry == Permutations(Ops)

Tails == UNION {[1..n -> {"/", "a", "A"}] : n \in 0..3}
MCRequests == {<<"get", b \o t>> : b \in {<<"/", "b">>, <<"/", "c">>}, t \in Tails}
=============================================================================
