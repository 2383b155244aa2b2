SPECIFICATION Spec
CONSTANTS
  Skill = {kick}
  NoSkill = NoSkill
  MaxPackets = 4
  MaxAsked = 2
  MaxSelecting = 1
INVARIANT ParryAtHitPoint
