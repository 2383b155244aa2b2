SPECIFICATION Spec
CONSTANTS
  Skill = {kick}
  NoSkill = NoSkill
  MaxPackets = 1
  MaxUnderWay = 2
INVARIANT AttackStartsOnce
