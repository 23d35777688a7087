-------------------------------- MODULE MCJwt --------------------------------
(* Coroutines, keys and nodes are interchangeable.                            *)
EXTENDS JwtHistory, TLC

MCSymmetry == Permutations(Flights) \cup Permutations(Keys) \cup Permutations(Nodes)
=============================================================================
