---------------------------- MODULE MCPowerMeter ----------------------------
(* PowerMeter with two interchangeable samplers, one replaceable power supply,
   two boots and a wall clock that may be set to any of three instants.     *)
EXTENDS PowerMeter, TLC

SomeWalls == {1, 2, 4}
Symmetry == Permutations(Samplers)
=============================================================================
