----------------------------- MODULE ActionState -----------------------------
(***************************************************************************)
(* What everybody may rely on about a player's action state and current    *)
(* skill, the two fields of its ObjectInfo a fight is about: which packets *)
(* write them and how, that only the end of the animations, or an input,   *)
(* takes a combat state away, and that the former clears the skill.        *)
(*                                                                         *)
(* PlayerCombat implements it for the local player.  RemoteCombat takes it *)
(* for the player whose actor it follows.                                  *)
(***************************************************************************)

CONSTANTS Skill, NoSkill    \* SkillId, SKILL_INFO_NONE

VARIABLES
  state,                    \* ObjectInfo: action_state
  skill                     \* ObjectInfo: skill_info

Free   == {"MOVE", "BATTLE"}                 \* APlayerBase::IsMoveState
Combat == {"ATTACK_TRY", "ATTACK_SUCCESS", "ATTACK_INTERRUPTED", "PARRY",
           "DAMAGED"}

actionVars == <<state, skill>>

(* The packets about a player, with what the handlers read of them.  The   *)
(* attacker of an S_DAMAGED or S_PARRY is told how its attack ended.       *)
Packets ==
  [type : {"S_SKILL"}, state : {"ATTACK_TRY"}, skill : Skill]
    \cup [type : {"S_DAMAGED"}, state : {"DAMAGED"}, skill : Skill \cup {NoSkill}]
    \cup [type : {"S_PARRY"}, state : {"PARRY"}, skill : Skill]
    \cup [type : {"S_SELECT_ENEMY"}, state : Free, skill : {NoSkill}]
    \cup [type : {"ATTACKER"}, state : {"ATTACK_SUCCESS", "ATTACK_INTERRUPTED"},
          skill : {NoSkill}]

ActionInit == state = "MOVE" /\ skill = NoSkill

(* A handler of UGameManager writes what the packet says; an attacker's    *)
(* skill is left alone.                                                    *)
Handle(p) ==
  /\ state' = p.state
  /\ skill' = IF p.type = "ATTACKER" THEN skill ELSE p.skill

(* CheckConvertStateToBattle: the montages are over. *)
Finish == /\ state \in Combat
          /\ state' = "BATTLE" /\ skill' = NoSkill

(* APlayerBase::Parry restores the skill of the parry. *)
RestoreParry == /\ state = "PARRY" /\ state' = state
                /\ skill' \in Skill \cup {NoSkill}

(* A faulty way to leave battle by standing still. *)
GetMoveActionStateFaultNone == IF state = "BATTLE" THEN "BATTLE" ELSE "NONE"

GetMoveActionState == IF state = "BATTLE" THEN "BATTLE" ELSE "MOVE"

(* _HandleMoveAction *)
MoveInput == state' = GetMoveActionState /\ UNCHANGED skill

(* HandleSearchEnemyAction, lock-on off *)
LockOffInput == state' = "MOVE" /\ UNCHANGED skill

ActionNext ==
  \/ \E p \in Packets : Handle(p)
  \/ Finish \/ RestoreParry \/ MoveInput \/ LockOffInput

ActionSpec == ActionInit /\ [][ActionNext]_actionVars
=============================================================================
