----------------------------- MODULE MCGateway -----------------------------
(* Gateway on small instances. *)
EXTENDS Gateway, TLC

CONSTANTS r1, r2

TwoRequests == {r1, r2}
SymmetryTwo == Permutations(TwoRequests)
=============================================================================
