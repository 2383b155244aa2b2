SPECIFICATION Spec
CONSTANTS
  Id = {1, 5, 9}
  Actor = {a1, a2, a3}
  Pawn = Pawn
  None = None
  IntHalf = 4
  Word = 16
INVARIANTS TypeOK RegistryExact MyPlayerListed ListMatchesServer MoveFilterExact
PROPERTY TargetTakenAlive
SYMMETRY ActorSymmetry
CHECK_DEADLOCK FALSE
