------------------------- MODULE PlayerCombatProofs -------------------------
(***************************************************************************)
(* Theorems about PlayerCombat, for any skills, packets and requests.      *)
(*                                                                         *)
(* What the animation does comes from AnimationLemmas; here are the inputs *)
(* and the packets, and the invariant over both.                           *)
(***************************************************************************)
EXTENDS PlayerCombat, AnimationLemmas, SequenceTheorems

(* The types of the variables this module adds, in two parts. *)
Flags ==
  /\ target \in BOOLEAN /\ outcome \in BOOLEAN
  /\ cut \in BOOLEAN /\ hitInParry \in BOOLEAN /\ early \in BOOLEAN

Data ==
  /\ camera \in {"Normal", "Battle", "Parry"}
  /\ asked \in Seq(Skill) /\ selecting \in 0..MaxSelecting
  /\ packets \in 0..MaxPackets /\ movedIn \in Free \cup Combat

(* A parry of the player's has its ObjectInfo kept by S_PARRY.             *)
ParryKept ==
  /\ state \in Free \cup Combat
  /\ parryInfo \in Skill \cup {NoSkill}
  /\ state = "PARRY" => parryInfo # NoSkill

CombatTypes == AnimTypeOK /\ Flags /\ Data /\ ParryKept

(* Nothing is left over out of combat: the skill, the view, the target.    *)
Clean == FreeIsClean /\ TargetInView

CombatInv == CombatTypes /\ MontageDue /\ Clean

(* A packet that asks for an attack montage counts it as due.              *)
Brings ==
  \/ due' = due + 1
  \/ due' = due /\ (state' = state \/ state' \notin {"ATTACK_TRY", "PARRY"})

USE DEF actionVars, flagVars, actorVars, animVars, viewVars, serverVars, histVars

(* Nobody fights in the initial state. *)
LEMMA CombatInit == Init => CombatInv
<1> SUFFICES ASSUME Init PROVE CombatInv
  OBVIOUS
<1> USE DEF Init, AnimInit, AnimStarts, ActionInit
<1>1. <<>> \in Seq(Skill) /\ 0 \in 0..MaxPackets /\ 0 \in 0..MaxSelecting
  BY EmptySeq, CombatAssumption
<1>2. AnimTypeOK
  <2>1. AnimFlags BY DEF AnimFlags
  <2>2. AnimData  BY DEF AnimData, ActionTypeOK, Idle, Free, Combat
  <2> QED BY <2>1, <2>2, AnimParts
<1>3. Flags      BY DEF Flags
<1>4. Data       BY <1>1 DEF Data, Free, Combat
<1>5. MontageDue BY DEF MontageDue, Entered
<1>6. Clean      BY DEF Clean, FreeIsClean, TargetInView
<1>7. ParryKept  BY DEF ParryKept, Free, Combat
<1> QED BY <1>2, <1>3, <1>4, <1>5, <1>6, <1>7 DEF CombatInv, CombatTypes

(* Every packet about the player is one that ActionState knows.            *)
LEMMA PacketActs ==
  ASSUME Data, Server PROVE UNCHANGED actionVars \/ \E p \in Packets : Handle(p)
<1>1. CASE HandleSkill
  <2> DEFINE p == [type |-> "S_SKILL", state |-> "ATTACK_TRY", skill |-> Head(asked)]
  <2>1. p \in Packets
    BY <1>1, HeadTailProperties DEF HandleSkill, Data, Packets
  <2>2. Handle(p) BY <1>1 DEF HandleSkill, Handle
  <2> QED BY <2>1, <2>2
<1>2. CASE SkillDenied \/ SelectDenied
  BY <1>2 DEF SkillDenied, SelectDenied
<1>3. ASSUME NEW s \in Skill \cup {NoSkill}, HandleDamaged(s)
      PROVE  \E p \in Packets : Handle(p)
  <2> DEFINE p == [type |-> "S_DAMAGED", state |-> "DAMAGED", skill |-> s]
  <2>1. p \in Packets BY DEF Packets
  <2>2. Handle(p) BY <1>3 DEF HandleDamaged, Handle
  <2> QED BY <2>1, <2>2
<1>4. ASSUME NEW r \in {"ATTACK_SUCCESS", "ATTACK_INTERRUPTED"}, HandleOutcome(r)
      PROVE  \E p \in Packets : Handle(p)
  <2> DEFINE p == [type |-> "ATTACKER", state |-> r, skill |-> NoSkill]
  <2>1. p \in Packets BY DEF Packets
  <2>2. Handle(p) BY <1>4 DEF HandleOutcome, Handle
  <2> QED BY <2>1, <2>2
<1>5. ASSUME NEW s \in Skill, HandleParry(s)
      PROVE  \E p \in Packets : Handle(p)
  <2> DEFINE p == [type |-> "S_PARRY", state |-> "PARRY", skill |-> s]
  <2>1. p \in Packets BY DEF Packets
  <2>2. Handle(p) BY <1>5 DEF HandleParry, Handle
  <2> QED BY <2>1, <2>2
<1>6. ASSUME NEW s \in Free, HandleSelectEnemy(s)
      PROVE  \E p \in Packets : Handle(p)
  <2> DEFINE p == [type |-> "S_SELECT_ENEMY", state |-> s, skill |-> NoSkill]
  <2>1. p \in Packets BY DEF Packets
  <2>2. Handle(p) BY <1>6 DEF HandleSelectEnemy, Handle
  <2> QED BY <2>1, <2>2
<1> QED BY <1>1, <1>2, <1>3, <1>4, <1>5, <1>6 DEF Server

(* So is every input.                                                      *)
LEMMA InputActs == ASSUME Input PROVE UNCHANGED actionVars \/ ActionNext
<1>1. CASE HandleMoveActionTriggered \/ HandleMoveActionCompleted
  BY <1>1 DEF HandleMoveActionTriggered, HandleMoveActionCompleted,
              HandleMoveAction, ActionNext
<1>2. CASE LockOff
  BY <1>2 DEF LockOff, ActionNext
<1>3. CASE AskLockOn \/ \E s \in Skill : UseSkill(s)
  BY <1>3 DEF AskLockOn, UseSkill
<1> QED BY <1>1, <1>2, <1>3 DEF Input

(* An animation step of the player is one of PlayerAnimation.              *)
LEMMA CombatAnimates == ASSUME Update \/ Montage PROVE Animate
BY DEF Update, Montage, Animate

(* Every step acts on state and skill as ActionState allows.               *)
LEMMA CombatActs ==
  ASSUME CombatTypes, [Next]_vars PROVE [ActionNext]_actionVars
<1>1. CASE Server
  BY <1>1, PacketActs DEF CombatTypes, ActionNext
<1>2. CASE Input
  BY <1>2, InputActs
<1>3. CASE Update \/ Montage
  BY <1>3, CombatAnimates, AnimationActs
     DEF CombatTypes, ParryKept, Blanks, ActionNext
<1>4. CASE UNCHANGED vars
  BY <1>4 DEF vars
<1> QED BY <1>1, <1>2, <1>3, <1>4 DEF Next

(* Inputs and packets leave the animation alone but for the parry's skill. *)
LEMMA ControlRest == ASSUME Input \/ Server PROVE UNCHANGED animVars
<1>1. CASE HandleMoveAction
  BY <1>1 DEF HandleMoveAction, MoveInput, GetMoveActionState
<1>2. CASE LockOff
  BY <1>2 DEF LockOff, LockOffInput
<1>3. CASE AskLockOn
  BY <1>3 DEF AskLockOn
<1>4. ASSUME NEW s \in Skill, UseSkill(s) PROVE UNCHANGED animVars
  BY <1>4 DEF UseSkill
<1>5. CASE HandleSkill
  BY <1>5 DEF HandleSkill, Packet
<1>6. CASE SkillDenied
  BY <1>6 DEF SkillDenied
<1>7. CASE SelectDenied
  BY <1>7 DEF SelectDenied
<1>8. ASSUME NEW s \in Skill \cup {NoSkill}, HandleDamaged(s) PROVE UNCHANGED animVars
  BY <1>8 DEF HandleDamaged, Packet
<1>9. ASSUME NEW r \in {"ATTACK_SUCCESS", "ATTACK_INTERRUPTED"}, HandleOutcome(r)
      PROVE UNCHANGED animVars
  BY <1>9 DEF HandleOutcome, Packet
<1>10. ASSUME NEW s \in Skill, HandleParry(s) PROVE UNCHANGED animVars
  BY <1>10 DEF HandleParry, Packet
<1>11. ASSUME NEW s \in Free, HandleSelectEnemy(s) PROVE UNCHANGED animVars
  BY <1>11 DEF HandleSelectEnemy, Packet
<1> QED
  BY <1>1, <1>2, <1>3, <1>4, <1>5, <1>6, <1>7, <1>8, <1>9, <1>10, <1>11
     DEF Next, Input, Server, HandleMoveActionTriggered,
        HandleMoveActionCompleted

(* ... which S_PARRY brings along with the state.                          *)
LEMMA ControlParry == ASSUME ParryKept, Input \/ Server PROVE ParryKept'
<1> USE CombatAssumption DEF ParryKept, Free, Combat
<1>1. CASE HandleMoveAction
  BY <1>1 DEF HandleMoveAction, MoveInput, GetMoveActionState
<1>2. CASE LockOff
  BY <1>2 DEF LockOff, LockOffInput
<1>3. CASE AskLockOn
  BY <1>3 DEF AskLockOn
<1>4. ASSUME NEW s \in Skill, UseSkill(s) PROVE ParryKept'
  BY <1>4 DEF UseSkill
<1>5. CASE HandleSkill
  BY <1>5 DEF HandleSkill, Packet
<1>6. CASE SkillDenied
  BY <1>6 DEF SkillDenied
<1>7. CASE SelectDenied
  BY <1>7 DEF SelectDenied
<1>8. ASSUME NEW s \in Skill \cup {NoSkill}, HandleDamaged(s) PROVE ParryKept'
  BY <1>8 DEF HandleDamaged, Packet
<1>9. ASSUME NEW r \in {"ATTACK_SUCCESS", "ATTACK_INTERRUPTED"}, HandleOutcome(r)
      PROVE ParryKept'
  BY <1>9 DEF HandleOutcome, Packet
<1>10. ASSUME NEW s \in Skill, HandleParry(s) PROVE ParryKept'
  BY <1>10 DEF HandleParry, Packet
<1>11. ASSUME NEW s \in Free, HandleSelectEnemy(s) PROVE ParryKept'
  BY <1>11 DEF HandleSelectEnemy, Packet
<1> QED
  BY <1>1, <1>2, <1>3, <1>4, <1>5, <1>6, <1>7, <1>8, <1>9, <1>10, <1>11
     DEF Next, Input, Server, HandleMoveActionTriggered,
        HandleMoveActionCompleted

(* Inputs and packets bring no attack state without its montage.           *)
LEMMA ControlDue == ASSUME Input \/ Server PROVE Brings
<1> USE DEF Brings, Free
<1>1. CASE HandleMoveAction
  BY <1>1 DEF HandleMoveAction, MoveInput, GetMoveActionState
<1>2. CASE LockOff
  BY <1>2 DEF LockOff, LockOffInput
<1>3. CASE AskLockOn
  BY <1>3 DEF AskLockOn
<1>4. ASSUME NEW s \in Skill, UseSkill(s) PROVE Brings
  BY <1>4 DEF UseSkill
<1>5. CASE HandleSkill
  BY <1>5 DEF HandleSkill, Packet
<1>6. CASE SkillDenied
  BY <1>6 DEF SkillDenied
<1>7. CASE SelectDenied
  BY <1>7 DEF SelectDenied
<1>8. ASSUME NEW s \in Skill \cup {NoSkill}, HandleDamaged(s) PROVE Brings
  BY <1>8 DEF HandleDamaged, Packet
<1>9. ASSUME NEW r \in {"ATTACK_SUCCESS", "ATTACK_INTERRUPTED"}, HandleOutcome(r)
      PROVE Brings
  BY <1>9 DEF HandleOutcome, Packet
<1>10. ASSUME NEW s \in Skill, HandleParry(s) PROVE Brings
  BY <1>10 DEF HandleParry, Packet
<1>11. ASSUME NEW s \in Free, HandleSelectEnemy(s) PROVE Brings
  BY <1>11 DEF HandleSelectEnemy, Packet
<1> QED
  BY <1>1, <1>2, <1>3, <1>4, <1>5, <1>6, <1>7, <1>8, <1>9, <1>10, <1>11
     DEF Next, Input, Server, HandleMoveActionTriggered,
        HandleMoveActionCompleted

(* Inputs and packets keep the animation's types and the count.            *)
LEMMA ControlStep ==
  ASSUME CombatTypes, MontageDue, Input \/ Server PROVE AnimTypeOK' /\ MontageDue'
<1> USE DEF CombatTypes
<1>1. [ActionNext]_actionVars
  BY CombatActs DEF Next
<1>2. ActionTypeOK'
  <2>1. ActionTypeOK BY AnimParts DEF AnimData
  <2>2. CASE ActionNext BY <2>1, <2>2, ActionTypes
  <2>3. CASE UNCHANGED actionVars BY <2>1, <2>3 DEF ActionTypeOK
  <2> QED BY <1>1, <2>2, <2>3
<1>3. Brings /\ due \in Int
  BY ControlDue, AnimParts DEF AnimData
<1>4. UNCHANGED animVars
  BY ControlRest
<1>5. AnimFlags'
  BY <1>4, AnimParts DEF AnimFlags
<1>6. AnimData'
  <2>1. due' \in Int BY <1>3 DEF Brings
  <2>2. parryInfo' \in Skill \cup {NoSkill} BY ControlParry DEF ParryKept
  <2> QED BY <1>2, <1>4, <2>1, <2>2, AnimParts DEF AnimData
<1>7. AnimTypeOK'
  BY <1>5, <1>6 DEF AnimTypeOK, AnimFlags, AnimData, ActionTypeOK
<1>8. MontageDue'
  BY <1>3, <1>4 DEF MontageDue, Brings, Entered
<1> QED BY <1>7, <1>8

(* Every step keeps the flags Boolean. *)
LEMMA FlagsStep == ASSUME CombatTypes, [Next]_vars PROVE Flags'
<1> USE DEF CombatTypes, Flags
<1>1. CASE HandleMoveAction
  BY <1>1 DEF HandleMoveAction, MoveInput, GetMoveActionState
<1>2. CASE LockOff
  BY <1>2 DEF LockOff, LockOffInput
<1>3. CASE AskLockOn
  BY <1>3 DEF AskLockOn
<1>4. ASSUME NEW s \in Skill, UseSkill(s) PROVE Flags'
  BY <1>4 DEF UseSkill
<1>5. CASE HandleSkill
  BY <1>5 DEF HandleSkill, Packet
<1>6. CASE SkillDenied
  BY <1>6 DEF SkillDenied
<1>7. CASE SelectDenied
  BY <1>7 DEF SelectDenied
<1>8. ASSUME NEW s \in Skill \cup {NoSkill}, HandleDamaged(s) PROVE Flags'
  BY <1>8 DEF HandleDamaged, Packet
<1>9. ASSUME NEW r \in {"ATTACK_SUCCESS", "ATTACK_INTERRUPTED"}, HandleOutcome(r)
      PROVE Flags'
  BY <1>9 DEF HandleOutcome, Packet
<1>10. ASSUME NEW s \in Skill, HandleParry(s) PROVE Flags'
  BY <1>10 DEF HandleParry, Packet
<1>11. ASSUME NEW s \in Free, HandleSelectEnemy(s) PROVE Flags'
  BY <1>11 DEF HandleSelectEnemy, Packet
<1>12. CASE Update
  BY <1>12 DEF Update, CameraFollows
<1>13. CASE Montage
  BY <1>13 DEF Montage
<1>14. CASE UNCHANGED vars
  BY <1>14 DEF vars
<1> QED
  BY <1>1, <1>2, <1>3, <1>4, <1>5, <1>6, <1>7, <1>8, <1>9, <1>10, <1>11,
     <1>12, <1>13, <1>14
     DEF Next, Input, Server, HandleMoveActionTriggered,
        HandleMoveActionCompleted

(* Every step keeps the other types. *)
LEMMA DataStep == ASSUME CombatTypes, [Next]_vars PROVE Data'
<1> USE CombatAssumption, AnimParts
    DEF CombatTypes, ParryKept, Data, AnimData, ActionTypeOK
<1>1. CASE HandleMoveAction
  BY <1>1 DEF HandleMoveAction, MoveInput, GetMoveActionState
<1>2. CASE LockOff
  BY <1>2 DEF LockOff, LockOffInput
<1>3. CASE AskLockOn
  BY <1>3 DEF AskLockOn
<1>4. ASSUME NEW s \in Skill, UseSkill(s) PROVE Data'
  BY <1>4 DEF UseSkill
<1>5. CASE HandleSkill
  BY <1>5 DEF HandleSkill, Packet
<1>6. CASE SkillDenied
  BY <1>6 DEF SkillDenied
<1>7. CASE SelectDenied
  BY <1>7 DEF SelectDenied
<1>8. ASSUME NEW s \in Skill \cup {NoSkill}, HandleDamaged(s) PROVE Data'
  BY <1>8 DEF HandleDamaged, Packet
<1>9. ASSUME NEW r \in {"ATTACK_SUCCESS", "ATTACK_INTERRUPTED"}, HandleOutcome(r)
      PROVE Data'
  BY <1>9 DEF HandleOutcome, Packet
<1>10. ASSUME NEW s \in Skill, HandleParry(s) PROVE Data'
  BY <1>10 DEF HandleParry, Packet
<1>11. ASSUME NEW s \in Free, HandleSelectEnemy(s) PROVE Data'
  BY <1>11 DEF HandleSelectEnemy, Packet
<1>12. CASE Update
  BY <1>12 DEF Update, CameraFollows
<1>13. CASE Montage
  BY <1>13 DEF Montage
<1>14. CASE UNCHANGED vars
  BY <1>14 DEF vars
<1> QED
  BY <1>1, <1>2, <1>3, <1>4, <1>5, <1>6, <1>7, <1>8, <1>9, <1>10, <1>11,
     <1>12, <1>13, <1>14
     DEF Next, Input, Server, HandleMoveActionTriggered,
        HandleMoveActionCompleted

(* Combat is left by clearing skill and view, or cut short.                *)
LEMMA CleanStep ==
  ASSUME CombatTypes, Clean, Input \/ Server \/ UNCHANGED vars
  PROVE  Clean'
<1> USE DEF CombatTypes, ParryKept, Clean, FreeIsClean, TargetInView, Free, Combat
<1>1. CASE HandleMoveAction
  BY <1>1 DEF HandleMoveAction, MoveInput, GetMoveActionState
<1>2. CASE LockOff
  BY <1>2 DEF LockOff, LockOffInput
<1>3. CASE AskLockOn
  BY <1>3 DEF AskLockOn
<1>4. ASSUME NEW s \in Skill, UseSkill(s) PROVE Clean'
  BY <1>4 DEF UseSkill
<1>5. CASE HandleSkill
  BY <1>5 DEF HandleSkill, Packet
<1>6. CASE SkillDenied
  BY <1>6 DEF SkillDenied
<1>7. CASE SelectDenied
  BY <1>7 DEF SelectDenied
<1>8. ASSUME NEW s \in Skill \cup {NoSkill}, HandleDamaged(s) PROVE Clean'
  BY <1>8 DEF HandleDamaged, Packet
<1>9. ASSUME NEW r \in {"ATTACK_SUCCESS", "ATTACK_INTERRUPTED"}, HandleOutcome(r)
      PROVE Clean'
  BY <1>9 DEF HandleOutcome, Packet
<1>10. ASSUME NEW s \in Skill, HandleParry(s) PROVE Clean'
  BY <1>10 DEF HandleParry, Packet
<1>11. ASSUME NEW s \in Free, HandleSelectEnemy(s) PROVE Clean'
  BY <1>11 DEF HandleSelectEnemy, Packet
<1>12. CASE UNCHANGED vars
  BY <1>12 DEF vars
<1> QED
  BY <1>1, <1>2, <1>3, <1>4, <1>5, <1>6, <1>7, <1>8, <1>9, <1>10, <1>11, <1>12
     DEF Next, Input, Server, HandleMoveActionTriggered,
        HandleMoveActionCompleted

(* The animation ends a fight by clearing the skill and turning the view.  *)
LEMMA CleanAnimation ==
  ASSUME CombatTypes, Clean, Update \/ Montage PROVE Clean'
<1> USE DEF Clean, FreeIsClean, TargetInView
<1>1. UNCHANGED actionVars \/ Finish \/ UpdateParryAtHit
  BY CombatAnimates, AnimationActs DEF CombatTypes
<1>2. CASE UpdateParryAtHit
  BY <1>2 DEF UpdateParryAtHit, CombatTypes, ParryKept, Free
<1>3. CASE Update /\ ~UpdateParryAtHit
  <2>1. CameraFollows /\ UNCHANGED <<target, cut>>
    BY <1>3 DEF Update
  <2>2. CASE UNCHANGED actionVars
    BY <2>1, <2>2 DEF CameraFollows
  <2>3. CASE Finish
    BY <2>1, <2>3 DEF CameraFollows, Finish, Combat
  <2> QED BY <1>1, <1>3, <2>2, <2>3
<1>4. CASE Montage
  BY <1>4 DEF Montage, SlowEffectEnd, MontageEnds
<1> QED BY <1>2, <1>3, <1>4

(* Every step keeps the invariant. *)
LEMMA CombatStep == CombatInv /\ [Next]_vars => CombatInv'
<1> SUFFICES ASSUME CombatInv, [Next]_vars PROVE CombatInv'
  OBVIOUS
<1> USE DEF CombatInv, CombatTypes
<1>1. Flags' /\ Data'
  BY FlagsStep, DataStep
<1>2. AnimTypeOK' /\ MontageDue'
  <2>1. CASE Input \/ Server
    BY <2>1, ControlStep
  <2>2. CASE Update \/ Montage
    BY <2>2, CombatAnimates, AnimationTypes, AnimationMontage
  <2>3. CASE UNCHANGED vars
    BY <2>3 DEF vars, AnimTypeOK, MontageDue, Entered
  <2> QED BY <2>1, <2>2, <2>3 DEF Next
<1>3. Clean'
  BY CleanStep, CleanAnimation DEF Next
<1>4. ParryKept'
  <2>1. CASE Input \/ Server
    BY <2>1, ControlParry
  <2>2. CASE Update \/ Montage
    <3>1. UNCHANGED parryInfo /\ (UNCHANGED actionVars \/ Finish \/ RestoreParry)
      BY <2>2, CombatAnimates, AnimationKeepsParry, AnimationActs DEF ParryKept, Blanks
    <3> QED BY <3>1 DEF ParryKept, Finish, RestoreParry, Free
  <2>3. CASE UNCHANGED vars
    BY <2>3 DEF vars, ParryKept
  <2> QED BY <2>1, <2>2, <2>3 DEF Next
<1> QED BY <1>1, <1>2, <1>3, <1>4

(* Every variable keeps its type. *)
THEOREM CombatTypeCorrect == Spec => []TypeOK
<1>1. CombatInv => TypeOK
  BY DEF CombatInv, CombatTypes, ParryKept, Flags, Data, TypeOK
<1> QED BY CombatInit, CombatStep, <1>1, PTL DEF Spec

(* However many packets, inputs and updates come in whatever order, no     *)
(* packet has its attack montage started twice.                            *)
THEOREM AttackAlwaysStartsOnce == Spec => []AttackStartsOnce
<1>1. CombatInv => AttackStartsOnce
  BY DEF CombatInv, MontageDue, AttackStartsOnce
<1> QED BY CombatInit, CombatStep, <1>1, PTL DEF Spec

(* Out of combat no skill and no parry view is left over, unless an input  *)
(* has cut a combat state short.                                           *)
THEOREM FreeAlwaysClean == Spec => []FreeIsClean
<1>1. CombatInv => FreeIsClean BY DEF CombatInv, Clean
<1> QED BY CombatInit, CombatStep, <1>1, PTL DEF Spec

(* Out of combat a target that is set is in view, however late lock-on was *)
(* granted, unless an input has cut a combat state short.                  *)
THEOREM TargetAlwaysInView == Spec => []TargetInView
<1>1. CombatInv => TargetInView BY DEF CombatInv, Clean
<1> QED BY CombatInit, CombatStep, <1>1, PTL DEF Spec

(* The local player's state and skill change only as ActionState says: by  *)
(* a packet, an input, the end of the animations or a parry's skill.       *)
THEOREM CombatImplementsActionState == Spec => ActionSpec
<1>1. Init => ActionInit
  BY DEF Init, AnimInit
<1>2. CombatInv /\ [Next]_vars => [ActionNext]_actionVars
  BY CombatActs DEF CombatInv
<1> QED BY CombatInit, CombatStep, <1>1, <1>2, PTL DEF Spec, ActionSpec

-----------------------------------------------------------------------------
(* How fights end *)

FightInv == CombatInv /\ MontageMoves

(* The server sends nothing about the player.                              *)
Silent == packets' = packets

(* A fight goes on by itself towards its end: each step that changes       *)
(* anything about it, without a packet, leaves less of it.                 *)
FightsRunDown ==
  [][Silent /\ state \in Combat => Advances \/ UNCHANGED actorVars]_vars

(* Every step keeps the invariant: only the animation touches montages.    *)
LEMMA FightStep == FightInv /\ [Next]_vars => FightInv'
<1> SUFFICES ASSUME FightInv, [Next]_vars PROVE FightInv'
  OBVIOUS
<1>1. CombatInv'
  BY CombatStep DEF FightInv
<1>2. MontageMoves'
  <2>1. CASE Input \/ Server
    BY <2>1, ControlRest DEF FightInv, MontageMoves
  <2>2. CASE Update \/ Montage
    BY <2>2, CombatAnimates, AnimationMoves DEF FightInv, CombatInv, CombatTypes
  <2>3. CASE UNCHANGED vars
    BY <2>3 DEF vars, FightInv, MontageMoves
  <2> QED BY <2>1, <2>2, <2>3 DEF Next
<1> QED BY <1>1, <1>2 DEF FightInv

LEMMA FightAlways == Spec => []FightInv
<1>1. Init => MontageMoves
  BY DEF Init, AnimInit, AnimStarts, MontageMoves
<1> QED BY CombatInit, <1>1, FightStep, PTL DEF Spec, FightInv

(* An input ends the fight or has nothing to do with it.                   *)
LEMMA InputEnds ==
  ASSUME Input PROVE state' \in Free \/ UNCHANGED actorVars
<1>1. CASE HandleMoveActionTriggered \/ HandleMoveActionCompleted
  BY <1>1 DEF HandleMoveActionTriggered, HandleMoveActionCompleted,
              HandleMoveAction, MoveInput, GetMoveActionState, Free
<1>2. CASE LockOff
  BY <1>2 DEF LockOff, LockOffInput, Free
<1>3. CASE AskLockOn \/ \E s \in Skill : UseSkill(s)
  BY <1>3 DEF AskLockOn, UseSkill
<1> QED BY <1>1, <1>2, <1>3 DEF Input

(* Whatever the server does without a packet does not reach the actor.     *)
LEMMA SilentServer ==
  ASSUME Data, Server, Silent PROVE UNCHANGED actorVars
<1>1. ~Packet
  BY CombatAssumption DEF Silent, Packet, Data
<1>2. SkillDenied \/ SelectDenied
  BY <1>1 DEF Server, HandleSkill, HandleDamaged, HandleOutcome, HandleParry,
              HandleSelectEnemy
<1> QED BY <1>2 DEF SkillDenied, SelectDenied

(* Without a packet, every step of a fight leads on or leaves the actor as *)
(* it is.                                                                  *)
LEMMA FightGoesOn ==
  ASSUME FightInv, state \in Combat, [Next]_vars, Silent
  PROVE  Advances \/ UNCHANGED actorVars
<1> USE DEF FightInv, CombatInv, CombatTypes
<1>1. CASE Input             BY <1>1, InputEnds DEF Advances, Free, Combat
<1>2. CASE Server            BY <1>2, SilentServer
<1>3. CASE Update \/ Montage BY <1>3, CombatAnimates, FightAnimates
<1>4. CASE UNCHANGED vars    BY <1>4 DEF vars
<1> QED BY <1>1, <1>2, <1>3, <1>4 DEF Next

(* However the fight stands, inputs, updates and montages can only bring   *)
(* it nearer to its end: NativeUpdateAnimation starts no montage again and *)
(* goes back to no flag, so after the last packet at most thirteen steps   *)
(* are left of it (FightBounded).                                          *)
THEOREM FightsAlwaysRunDown == Spec => FightsRunDown
<1>1. FightInv /\ [Next]_vars
        => [Silent /\ state \in Combat => Advances \/ UNCHANGED actorVars]_vars
  BY FightGoesOn
<1> QED BY FightAlways, <1>1, PTL DEF Spec, FightsRunDown

(* The guards under which an update of a fight, or the montage playing,    *)
(* has something to do.                                                    *)
UpdateDue == state \in Combat /\ (Entered \/ montage = "none")

MontagePlays == \/ montage = "attack" /\ hitAhead
                \/ montage # "none" /\ ~hitAhead

(* They are enough for a step of the engine to be possible: every action   *)
(* of PlayerAnimation determines the next state.                           *)
EngineCanStep ==
  /\ UpdateDue => ENABLED <<Update>>_vars
  /\ MontagePlays => ENABLED <<Montage>>_vars

(* The stages of a fight: a state the animation has not seen yet, a hit    *)
(* point ahead, and what FightLeft counts afterwards.                      *)
Stage == IF Entered THEN 7 ELSE FightLeft

At(n)    == state \in Combat /\ Stage = n
Below(n) == state \in Free \/ (state \in Combat /\ Stage < n)

(* The stages that end with an update, and those that end with a montage.  *)
UpdateStages  == {0, 2, 4, 7}
MontageStages == {1, 3, 5, 6}

LEMMA StageBounded == Stage \in 0..7
BY FightBounded DEF Stage

(* In each stage one of the two has something to do.                       *)
LEMMA StageGuards ==
  ASSUME FightInv
  PROVE  /\ \A n \in UpdateStages : At(n) => UpdateDue
         /\ \A n \in MontageStages : At(n) => MontagePlays /\ ~UpdateDue
<1>1. CASE Entered
  BY <1>1 DEF At, Stage, UpdateDue, UpdateStages, MontageStages
<1>2. CASE ~Entered /\ hitAhead
  <2>1. FightLeft = 6
    BY <1>2 DEF FightLeft, ToPlay
  <2>2. MontagePlays /\ montage # "none"
    BY <1>2 DEF MontagePlays, FightInv, MontageMoves
  <2> QED BY <1>2, <2>1, <2>2
          DEF At, Stage, UpdateDue, UpdateStages, MontageStages
<1>3. CASE ~Entered /\ ~hitAhead
  <2>1. FlagsSet \in 0..2
    BY FightBounded
  <2>2. CASE montage = "none"
    <3>1. FightLeft = 2 * FlagsSet
      BY <1>3, <2>1, <2>2 DEF FightLeft, ToPlay
    <3>2. FightLeft \in UpdateStages /\ FightLeft \notin MontageStages
      BY <2>1, <3>1 DEF UpdateStages, MontageStages
    <3> QED BY <1>3, <2>2, <3>2 DEF At, Stage, UpdateDue
  <2>3. CASE montage # "none"
    <3>1. FightLeft = 2 * FlagsSet + 1
      BY <1>3, <2>1, <2>3 DEF FightLeft, ToPlay
    <3>2. FightLeft \notin UpdateStages /\ FightLeft \in MontageStages
      BY <2>1, <3>1 DEF UpdateStages, MontageStages
    <3> QED BY <1>3, <2>3, <3>2 DEF At, Stage, UpdateDue, MontagePlays
  <2> QED BY <2>2, <2>3
<1> QED BY <1>1, <1>2, <1>3

(* The local player is in combat or free of it, whatever step is made.     *)
LEMMA NeverBlank ==
  ASSUME FightInv, [Next]_vars PROVE state' \in Free \cup Combat
BY FightStep DEF FightInv, CombatInv, CombatTypes, ParryKept

(* A fight that gets nearer to its end gets to no later stage.             *)
LEMMA StageFalls ==
  ASSUME NEW n \in 0..7, At(n), Advances, state' \in Free \cup Combat
  PROVE  At(n)' \/ Below(n)'
<1>1. /\ FightLeft \in 0..13 /\ (Entered <=> FightLeft >= 7)
      /\ FightLeft' \in 0..13 /\ (Entered' <=> FightLeft' >= 7)
  <2>1. (FightLeft \in 0..13 /\ (Entered <=> FightLeft >= 7))'
    BY FightBounded, PTL
  <2> QED BY <2>1, FightBounded
<1>2. CASE state' \notin Combat
  BY <1>2 DEF Below
<1>3. CASE state' = state /\ FightLeft' < FightLeft
  <2>1. Stage' <= Stage
    BY <1>1, <1>3 DEF Stage
  <2>2. Stage \in Int /\ Stage' \in Int
    BY <1>1 DEF Stage
  <2> QED BY <1>3, <2>1, <2>2 DEF At, Below
<1> QED BY <1>2, <1>3 DEF Advances

(* It leaves its stage if what is left of the fight is all of that stage.  *)
LEMMA StageEnds ==
  ASSUME NEW n \in 0..7, At(n), Advances, Entered => ~Entered',
         state' \in Free \cup Combat
  PROVE  Below(n)'
<1>1. /\ FightLeft \in 0..13 /\ (Entered <=> FightLeft >= 7)
      /\ FightLeft' \in 0..13 /\ (Entered' <=> FightLeft' >= 7)
  <2>1. (FightLeft \in 0..13 /\ (Entered <=> FightLeft >= 7))'
    BY FightBounded, PTL
  <2> QED BY <2>1, FightBounded
<1>2. CASE state' \notin Combat
  BY <1>2 DEF Below
<1>3. CASE state' = state /\ FightLeft' < FightLeft
  <2>1. Stage' < Stage
    BY <1>1, <1>3 DEF Stage
  <2> QED BY <1>3, <2>1 DEF At, Below
<1> QED BY <1>2, <1>3 DEF Advances

(* What a step makes of a fight in stage n when no packet comes, and what  *)
(* ends the stage.                                                         *)
LEMMA StageKept ==
  ASSUME NEW n \in 0..7, FightInv, [Next]_vars, [Silent]_vars, At(n)
  PROVE  At(n)' \/ Below(n)'
<1>1. Advances \/ UNCHANGED actorVars
  BY FightGoesOn DEF At, vars, Silent
<1>2. CASE UNCHANGED actorVars
  <2>1. Entered' <=> Entered
    BY <1>2 DEF Entered
  <2>2. FightLeft' = FightLeft
    BY <1>2 DEF FightLeft, ToPlay, FlagsSet, Entered
  <2> QED BY <1>2, <2>1, <2>2 DEF At, Stage
<1> QED BY <1>1, <1>2, NeverBlank, StageFalls

LEMMA UpdateStage ==
  ASSUME NEW n \in UpdateStages, FightInv, EngineCanStep, At(n)
  PROVE  ENABLED <<Update>>_vars /\ (<<Update>>_vars => Below(n)')
<1>1. UpdateDue /\ n \in 0..7
  BY StageGuards DEF UpdateStages
<1>2. ASSUME Update PROVE Below(n)'
  <2>1. Advances /\ (Entered => ~Entered')
    BY <1>1, <1>2, FirstUpdateAdvances, LaterUpdateAdvances
       DEF UpdateDue, Update, FightInv, CombatInv, CombatTypes
  <2> QED BY <1>1, <1>2, <2>1, NeverBlank, StageEnds DEF Next
<1> QED BY <1>1, <1>2 DEF EngineCanStep

LEMMA MontageStage ==
  ASSUME NEW n \in MontageStages, FightInv, EngineCanStep, At(n)
  PROVE  ENABLED <<Montage>>_vars /\ (<<Montage>>_vars => Below(n)')
<1>1. MontagePlays /\ ~UpdateDue /\ n \in 0..7
  BY StageGuards DEF MontageStages
<1>2. ASSUME Montage PROVE Below(n)'
  <2>1. UNCHANGED state /\ FightLeft' < FightLeft
    BY <1>2, MontageAdvances DEF Montage, FightInv, CombatInv, CombatTypes
  <2>2. ~Entered
    BY <1>1 DEF UpdateDue, At
  <2> QED BY <1>1, <1>2, <2>1, <2>2, NeverBlank, StageEnds DEF Advances, Next
<1> QED BY <1>1, <1>2 DEF EngineCanStep

(* A combat state always ends, provided that the server falls silent some  *)
(* time: whatever inputs come, and whatever the fight has gone through,    *)
(* the frames of the engine (NativeUpdateAnimation, the montages) take the *)
(* player back to MOVE or BATTLE.                                          *)
THEOREM CombatAlwaysEnds ==
  LiveSpec /\ []EngineCanStep /\ <>[][Silent]_vars => CombatEnds
<1>1. FightInv /\ [Next]_vars /\ [Silent]_vars =>
        /\ At(0) => At(0)' \/ Below(0)'
        /\ At(1) => At(1)' \/ Below(1)'
        /\ At(2) => At(2)' \/ Below(2)'
        /\ At(3) => At(3)' \/ Below(3)'
        /\ At(4) => At(4)' \/ Below(4)'
        /\ At(5) => At(5)' \/ Below(5)'
        /\ At(6) => At(6)' \/ Below(6)'
        /\ At(7) => At(7)' \/ Below(7)'
  BY StageKept
<1>2. FightInv /\ EngineCanStep =>
        /\ At(0) \/ At(2) \/ At(4) \/ At(7) => ENABLED <<Update>>_vars
        /\ At(1) \/ At(3) \/ At(5) \/ At(6) => ENABLED <<Montage>>_vars
  BY UpdateStage, MontageStage DEF UpdateStages, MontageStages
<1>3. FightInv /\ EngineCanStep /\ <<Update>>_vars =>
        /\ At(0) => Below(0)'
        /\ At(2) => Below(2)'
        /\ At(4) => Below(4)'
        /\ At(7) => Below(7)'
  BY UpdateStage DEF UpdateStages
<1>4. FightInv /\ EngineCanStep /\ <<Montage>>_vars =>
        /\ At(1) => Below(1)'
        /\ At(3) => Below(3)'
        /\ At(5) => Below(5)'
        /\ At(6) => Below(6)'
  BY MontageStage DEF MontageStages
<1>5. /\ Below(0) => state \in Free
      /\ Below(1) => state \in Free \/ At(0)
      /\ Below(2) => state \in Free \/ At(0) \/ At(1)
      /\ Below(3) => state \in Free \/ At(0) \/ At(1) \/ At(2)
      /\ Below(4) => state \in Free \/ At(0) \/ At(1) \/ At(2) \/ At(3)
      /\ Below(5) => state \in Free \/ At(0) \/ At(1) \/ At(2) \/ At(3) \/ At(4)
      /\ Below(6) => state \in Free \/ At(0) \/ At(1) \/ At(2) \/ At(3) \/ At(4) \/ At(5)
      /\ Below(7) => state \in Free \/ At(0) \/ At(1) \/ At(2) \/ At(3) \/ At(4) \/ At(5) \/ At(6)
  BY StageBounded DEF Below, At
<1>6. FightInv => state \in Free \/ state \in Combat
  BY DEF FightInv, CombatInv, CombatTypes, ParryKept
<1>7. state \in Combat => At(0) \/ At(1) \/ At(2) \/ At(3) \/ At(4) \/ At(5) \/ At(6) \/ At(7)
  BY StageBounded DEF At
<1> HIDE DEF At, Below
<1> QED
  BY <1>1, <1>2, <1>3, <1>4, <1>5, <1>6, <1>7, FightAlways, PTL
     DEF LiveSpec, Spec, CombatEnds

(* Whenever combat states end, every skill is given back too: it is cleared *)
(* where ConvertToBattle leaves the fight, or an input has cut it short.   *)
THEOREM SkillsReleased == Spec /\ CombatEnds => SkillReleased
<1>1. CombatInv /\ state \in Free => skill = NoSkill \/ cut
  BY DEF CombatInv, Clean, FreeIsClean
<1>2. CombatInv => state \in Free \/ state \in Combat
  BY DEF CombatInv, CombatTypes, ParryKept
<1> QED
  BY <1>1, <1>2, CombatInit, CombatStep, PTL DEF Spec, CombatEnds, SkillReleased

-----------------------------------------------------------------------------
(* When a parry strikes *)

(* No parry has struck early, and the hit point a parry has on record is   *)
(* its own.                                                                *)
ParryTimed == ParryAtHitPoint /\ (PlayParryTiming /\ state = "PARRY" => hitInParry)

(* A parry begins with no hit point on record. *)
FreshParry == state # "PARRY" /\ state' = "PARRY" => ~PlayParryTiming

(* An input or a packet that goes on with a parry forgets no hit point.    *)
LEMMA ControlTimed ==
  ASSUME FreshParry, ParryTimed, Input \/ Server
  PROVE  ParryTimed'
<1> USE DEF FreshParry, ParryTimed, ParryAtHitPoint
<1>1. PlayParryTiming' = PlayParryTiming
  BY ControlRest
<1>2. CASE HandleMoveAction
  BY <1>1, <1>2 DEF HandleMoveAction, MoveInput, GetMoveActionState
<1>3. CASE LockOff
  BY <1>1, <1>3 DEF LockOff, LockOffInput
<1>4. CASE AskLockOn
  BY <1>1, <1>4 DEF AskLockOn
<1>5. ASSUME NEW s \in Skill, UseSkill(s) PROVE ParryTimed'
  BY <1>1, <1>5 DEF UseSkill
<1>6. CASE HandleSkill
  BY <1>1, <1>6 DEF HandleSkill
<1>7. CASE SkillDenied \/ SelectDenied
  BY <1>1, <1>7 DEF SkillDenied, SelectDenied
<1>8. ASSUME NEW s \in Skill \cup {NoSkill}, HandleDamaged(s) PROVE ParryTimed'
  BY <1>1, <1>8 DEF HandleDamaged
<1>9. ASSUME NEW r \in {"ATTACK_SUCCESS", "ATTACK_INTERRUPTED"}, HandleOutcome(r)
      PROVE  ParryTimed'
  BY <1>1, <1>9 DEF HandleOutcome
<1>10. ASSUME NEW s \in Skill, HandleParry(s) PROVE ParryTimed'
  <2>1. hitInParry' = (hitInParry /\ state = "PARRY") /\ early' = early
    BY <1>10, Zenon DEF HandleParry
  <2> QED BY <1>1, <2>1, Zenon
<1>11. ASSUME NEW s \in Free, HandleSelectEnemy(s) PROVE ParryTimed'
  BY <1>1, <1>11 DEF HandleSelectEnemy, Free
<1> QED
  BY <1>2, <1>3, <1>4, <1>5, <1>6, <1>7, <1>8, <1>9, <1>10, <1>11
     DEF Input, Server, HandleMoveActionTriggered, HandleMoveActionCompleted

(* The animation puts a hit point on record where it passes it.            *)
LEMMA AnimationTimed ==
  ASSUME ParryTimed, Update \/ Montage
  PROVE  ParryTimed'
<1> USE DEF ParryTimed, ParryAtHitPoint
<1>1. CASE SlowEffectEnd /\ Montage
  BY <1>1 DEF SlowEffectEnd, Montage, MontageEnds
<1>2. CASE MontageEnds /\ Montage
  BY <1>2 DEF MontageEnds, Montage, SlowEffectEnd
<1>3. CASE UpdateParryAtHit /\ early' = (early \/ ~hitInParry)
  BY <1>3, Zenon DEF UpdateParryAtHit
<1>4. CASE UpdateOther /\ UNCHANGED <<early, hitInParry>>
  <2>1. UNCHANGED PlayParryTiming
    BY <1>4 DEF UpdateOther, UpdateFree, UpdateAttackTry, UpdateAttackSuccess,
                UpdateAttackInterrupted, UpdateDamaged, UpdateParryEntered,
                UpdateParryGoesOn
  <2>2. state' = "PARRY" => state = "PARRY"
    BY <1>4, UpdateActs DEF Finish
  <2> QED BY <1>4, <2>1, <2>2
<1> QED BY <1>1, <1>2, <1>3, <1>4 DEF Update, Montage

(* The parry animation starts early only where a hit point is left over:   *)
(* AnimNotify_SlowEffect_End has set PlayParryTiming in a parry that was   *)
(* cut short before it was used, and nothing resets it when the next one   *)
(* begins (PlayerCombat_parry shows such a behaviour).                     *)
THEOREM ParriesStrikeInTime == Spec /\ [][FreshParry]_vars => []ParryAtHitPoint
<1>1. Init => ParryTimed
  BY DEF Init, AnimInit, AnimStarts, ParryTimed, ParryAtHitPoint
<1>2. ParryTimed /\ [FreshParry]_vars /\ [Next]_vars => ParryTimed'
  <2> SUFFICES ASSUME ParryTimed, [FreshParry]_vars, [Next]_vars PROVE ParryTimed'
    OBVIOUS
  <2>1. CASE UNCHANGED vars
    BY <2>1 DEF vars, ParryTimed, ParryAtHitPoint
  <2> QED BY <2>1, ControlTimed, AnimationTimed DEF Next
<1>3. ParryTimed => ParryAtHitPoint
  BY DEF ParryTimed
<1> QED BY <1>1, <1>2, <1>3, PTL DEF Spec
=============================================================================
