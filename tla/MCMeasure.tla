----------------------------- MODULE MCMeasure -----------------------------
(* The deployments are the reviewed one, the same with less memory, and an
   experimental-KV candidate.                                                 *)
EXTENDS Serving, TLC

Reviewed == [image |-> "single", settings |-> "reviewed", memory |-> 2,
             descriptor |-> "none"]

ThreeDeployments ==
    {Reviewed, [Reviewed EXCEPT !.memory = 1],
     [image |-> "candidate", settings |-> "kv", memory |-> 2, descriptor |-> "complete"]}

TwoPods == 1..2

Symmetric == Permutations(Owners)
=============================================================================
