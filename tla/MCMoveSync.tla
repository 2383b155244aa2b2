----------------------------- MODULE MCMoveSync -----------------------------
(* MoveSync on a short line: long enough to walk on past a report by more  *)
(* than one place.                                                         *)
EXTENDS MoveSync
=============================================================================
