SPECIFICATION LiveSpec
CONSTANTS
  Skill = {kick}
  NoSkill = NoSkill
  MaxPackets = 1
  MaxUnderWay = 2
INVARIANTS TypeOK FreeActorIsClean
PROPERTY ViewerSettles
