--------------------------- MODULE MCRemoteCombat ---------------------------
(* RemoteCombat with one skill: the model only tells a skill from none.    *)
EXTENDS RemoteCombat
=============================================================================
