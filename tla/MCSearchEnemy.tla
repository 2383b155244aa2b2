---------------------------- MODULE MCSearchEnemy ----------------------------
(* Three candidates and the player itself.  Dots 0..4 leave room, above    *)
(* MinDot = 1 and with a tolerance of 1, for dots that are equal, about    *)
(* equal, clearly apart, and for a drift of two tolerances; one dot and    *)
(* one distance are out of bounds.                                         *)
EXTENDS SearchEnemy, TLC

CONSTANTS c1, c2, c3

MCDot == 0 .. 4
MCDistSq == 1 .. 3
OthersSymmetry == Permutations({c1, c2, c3})
=============================================================================
