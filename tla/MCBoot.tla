------------------------------- MODULE MCBoot -------------------------------
(* Boot on a small instance: room for a second entry of the git kernel.     *)
EXTENDS Boot, TLC

CONSTANTS s1, s2, o1, o2

OneSync == {s1}
TwoSyncs == {s1, s2}
OneOperator == {o1}
TwoOperators == {o1, o2}
StableAndGit == {"stable", "git"}
StableRecoveryGit == {"stable", "recovery", "git"}
Symmetric == Permutations(TwoOperators)
=============================================================================
