--------------------------- MODULE MCPlayerCombat ---------------------------
(* PlayerCombat with one skill: the model only tells a skill from none.    *)
EXTENDS PlayerCombat
=============================================================================
