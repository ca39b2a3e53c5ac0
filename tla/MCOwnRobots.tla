---------------------------- MODULE MCOwnRobots ----------------------------
(* OwnRobots for TLC: the robots are interchangeable. *)
EXTENDS OwnRobots, TLC

Symmetry == Permutations(Robots)
=============================================================================
