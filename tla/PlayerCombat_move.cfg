SPECIFICATION Spec
CONSTANTS
  Skill = {kick}
  NoSkill = NoSkill
  MaxPackets = 2
  MaxAsked = 2
  MaxSelecting = 1
INVARIANT MovesOnlyWhenFree
