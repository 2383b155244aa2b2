SPECIFICATION Spec
CONSTANTS
  Creature = {c1, c2, c3, me}
  MyPlayer = me
  None = None
  Dot <- MCDot
  DistSq <- MCDistSq
  MinDot = 1
  MaxDistSq = 2
  DotEpsilon = 1
  FloatMax = 99
  c1 = c1
  c2 = c2
  c3 = c3
INVARIANTS TypeOK FoundIfAny ClearlyAheadWins ClosestOfEqualsWins DriftBounded
SYMMETRY OthersSymmetry
