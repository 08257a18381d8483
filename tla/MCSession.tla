----------------------------- MODULE MCSession -----------------------------
(* Session on small instances. *)
EXTENDS Session, TLC

CONSTANTS s1, s2

OneRunner == {s1}
TwoRunners == {s1, s2}
SymmetryRunners == Permutations(TwoRunners)
=============================================================================
