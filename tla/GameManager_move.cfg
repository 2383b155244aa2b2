SPECIFICATION Spec
CONSTANTS
  Id = {1, 2}
  Actor = {a1, a2}
  Pawn = Pawn
  None = None
  IntHalf = 4
  Word = 16
INVARIANT OnlyOthersMoved
SYMMETRY ActorSymmetry
CHECK_DEADLOCK FALSE
