SPECIFICATION LiveSpec
CONSTANTS
  Skill = {kick}
  NoSkill = NoSkill
  MaxPackets = 4
  MaxAsked = 2
  MaxSelecting = 1
INVARIANTS TypeOK AttackStartsOnce FreeIsClean TargetInView
PROPERTIES ActionSpec CombatEnds SkillReleased
