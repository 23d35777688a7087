----------------------------- MODULE MCApproval -----------------------------
(* ApprovalHistory on a small instance.                                    *)
EXTENDS ApprovalHistory, TLC

CONSTANT alice

MCOwnerOf  == [a \in Apps |-> alice]
MCSymmetry == Permutations(Apps) \cup Permutations(Scopes) \cup Permutations(Tokens)
                \cup Permutations(Handlers)
=============================================================================
