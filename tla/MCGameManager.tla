--------------------------- MODULE MCGameManager ---------------------------
(* GameManager with integers of a few bits: int32 is -4..3 and uint64 is   *)
(* 0..15, so that id 5 does not fit in an int32 and id 9 becomes 1.  The   *)
(* actors SpawnActor makes are interchangeable.                            *)
EXTENDS GameManager, TLC

ActorSymmetry == Permutations(Actor)
=============================================================================
