---------------------------- MODULE PlayerCombat ----------------------------
(***************************************************************************)
(* The local player in a fight.  Its action state and current skill are    *)
(* written by four parties that run in turn on the game thread, in no      *)
(* fixed order between frames: the input handlers of                       *)
(* AClientPlayerController, the packet handlers of UGameManager, and, in   *)
(* PlayerAnimation, the animation instance's update and the notifies the   *)
(* montages fire.                                                          *)
(*                                                                         *)
(* The server is assumed to stamp the action state a packet stands for     *)
(* into the packet's ObjectInfo, and never ACTION_STATE_NONE, which the    *)
(* client sets on a notify that no animation of the repository carries.    *)
(*                                                                         *)
(* S_MOVE about the local player is left out: UGameManager::HandleMove     *)
(* filters it while MyPlayer is set.  Once any despawn has cleared         *)
(* MyPlayer (GameManager.cpp:113, the run registry_move) it gets through   *)
(* and copies an older ObjectInfo of the player's own onto it, and what is *)
(* said here holds until then.                                             *)
(***************************************************************************)
EXTENDS PlayerAnimation, Sequences

CONSTANTS
  MaxPackets,        \* bound on the packets the server sends
  MaxAsked,          \* bound on the C_SKILL not yet answered
  MaxSelecting       \* bound on the C_SELECT_ENEMY not yet answered

ASSUME CombatAssumption ==
  /\ NoSkill \notin Skill
  /\ MaxPackets \in Nat /\ MaxAsked \in Nat /\ MaxSelecting \in Nat

VARIABLES
  \* AClientPlayer, besides ActionState's and PlayerAnimation's
  target,            \* is Target set?
  camera,            \* CurCameraState
  \* the server
  asked,             \* C_SKILL packets it has not answered yet
  selecting,         \* C_SELECT_ENEMY packets it has not answered yet
  outcome,           \* an attack of ours has begun and is not decided yet
  packets,           \* packets it has sent
  \* histories
  cut,               \* an input has ended a combat state
  movedIn,           \* the state in which the last move input was obeyed
  hitInParry,        \* the hit point was passed since PARRY was entered
  early              \* the parry montage has started before a hit point

viewVars   == <<target, camera>>
serverVars == <<asked, selecting, outcome, packets>>
histVars   == <<cut, movedIn, hitInParry, early>>
vars == <<actorVars, viewVars, serverVars, histVars>>

Init ==
  /\ AnimInit
  /\ target = FALSE /\ camera = "Normal"
  /\ asked = <<>> /\ selecting = 0 /\ outcome = FALSE /\ packets = 0
  /\ cut = FALSE /\ movedIn = "MOVE"
  /\ hitInParry = FALSE /\ early = FALSE

-----------------------------------------------------------------------------
(* Inputs: AClientPlayerController *)

(* _HandleMoveAction: the move is made and the state set. *)
HandleMoveAction ==
  /\ MoveInput
  /\ movedIn' = state
  /\ cut' = (cut \/ state \in Combat)
  /\ UNCHANGED <<parryInfo, animVars, due, viewVars, serverVars, hitInParry, early>>

HandleMoveActionTriggered == state \in Free /\ HandleMoveAction

(* The key is released: no test of the state here. *)
HandleMoveActionCompleted == HandleMoveAction

(* HandleSkillAction -> UseSkill: a request to the server, nothing local.  *)
UseSkill(s) ==
  /\ state \in Free
  /\ skill = NoSkill
  /\ Len(asked) < MaxAsked
  /\ asked' = Append(asked, s)
  /\ UNCHANGED <<actorVars, viewVars, selecting, outcome, packets, histVars>>

(* HandleSearchEnemyAction with a target, or in battle: lock-on off.       *)
Locked == target \/ state = "BATTLE"

(* The target is not reset. *)
LockOffFaultTarget ==
  /\ Locked
  /\ camera' = "Normal" /\ UNCHANGED target
  /\ LockOffInput
  /\ cut' = (cut \/ state \in Combat)
  /\ UNCHANGED <<parryInfo, animVars, due, serverVars, movedIn, hitInParry, early>>

LockOff ==
  /\ Locked
  /\ target' = FALSE /\ camera' = "Normal"
  /\ LockOffInput
  /\ cut' = (cut \/ state \in Combat)
  /\ UNCHANGED <<parryInfo, animVars, due, serverVars, movedIn, hitInParry, early>>

(* ... and without: the search finds somebody (SearchEnemy) and asks for   *)
(* the lock-on, whatever has been asked before.                            *)
AskLockOn ==
  /\ ~Locked
  /\ selecting < MaxSelecting
  /\ selecting' = selecting + 1
  /\ UNCHANGED <<actorVars, viewVars, asked, outcome, packets, histVars>>

-----------------------------------------------------------------------------
(* Packets about the local player: UGameManager's handlers *)

Packet == packets < MaxPackets /\ packets' = packets + 1

(* S_SKILL answers the oldest request, if the server grants it. *)
HandleSkill ==
  /\ asked # <<>> /\ Packet
  /\ asked' = Tail(asked)
  /\ state' = "ATTACK_TRY" /\ skill' = Head(asked)
  /\ outcome' = TRUE
  /\ due' = due + 1
  /\ UNCHANGED <<parryInfo, animVars, viewVars, selecting, histVars>>

SkillDenied ==
  /\ asked # <<>>
  /\ asked' = Tail(asked)
  /\ UNCHANGED <<actorVars, viewVars, selecting, outcome, packets, histVars>>

(* S_DAMAGED: we are hit; the packet's ObjectInfo carries a skill or none. *)
HandleDamaged(s) ==
  /\ Packet
  /\ state' = "DAMAGED" /\ skill' = s
  /\ target' \in {target, TRUE}
  /\ UNCHANGED <<parryInfo, animVars, due, camera, asked, selecting, outcome,
                 histVars>>

(* S_DAMAGED or S_PARRY of another creature, with us as the attacker. *)
HandleOutcome(result) ==
  /\ outcome /\ Packet
  /\ state' = result /\ outcome' = FALSE
  /\ UNCHANGED <<skill, parryInfo, animVars, due, viewVars, asked, selecting,
                 histVars>>

(* S_PARRY: we parry with skill s. *)
HandleParry(s) ==
  /\ Packet
  /\ state' = "PARRY" /\ skill' = s /\ parryInfo' = s
  /\ due' = due + 1
  /\ hitInParry' = (hitInParry /\ state = "PARRY")
  /\ UNCHANGED <<animVars, viewVars, asked, selecting, outcome, cut, movedIn, early>>

(* S_SELECT_ENEMY: a request for a target is granted, however late. *)
HandleSelectEnemy(s) ==
  /\ selecting > 0 /\ Packet
  /\ selecting' = selecting - 1
  /\ state' = s /\ skill' = NoSkill
  /\ target' = TRUE /\ camera' = "Battle"
  /\ UNCHANGED <<parryInfo, animVars, due, asked, outcome, histVars>>

SelectDenied ==
  /\ selecting > 0
  /\ selecting' = selecting - 1
  /\ UNCHANGED <<actorVars, viewVars, asked, outcome, packets, histVars>>

-----------------------------------------------------------------------------
(* The animation, and what it does to the local player's camera. *)

(* CheckConvertStateToBattle turns the camera to battle. *)
CameraFollows == camera' = IF state' = state THEN camera ELSE "Battle"

Update ==
  /\ \/ UpdateOther /\ CameraFollows /\ UNCHANGED early
     \/ /\ UpdateParryAtHit
        /\ camera' = "Parry"
        /\ early' = (early \/ ~hitInParry)
  /\ UNCHANGED <<target, serverVars, cut, movedIn, hitInParry>>

Montage ==
  /\ \/ SlowEffectEnd /\ hitInParry' = (hitInParry \/ state = "PARRY")
     \/ MontageEnds /\ UNCHANGED hitInParry
  /\ UNCHANGED <<viewVars, serverVars, cut, movedIn, early>>

-----------------------------------------------------------------------------
Input ==
  \/ HandleMoveActionTriggered \/ HandleMoveActionCompleted
  \/ LockOff \/ AskLockOn
  \/ \E s \in Skill : UseSkill(s)

Server ==
  \/ HandleSkill \/ SkillDenied \/ SelectDenied
  \/ \E s \in Skill \cup {NoSkill} : HandleDamaged(s)
  \/ \E r \in {"ATTACK_SUCCESS", "ATTACK_INTERRUPTED"} : HandleOutcome(r)
  \/ \E s \in Skill : HandleParry(s)
  \/ \E s \in Free : HandleSelectEnemy(s)

Next == Input \/ Server \/ Update \/ Montage

Spec == Init /\ [][Next]_vars

(* The engine updates the animation every frame and plays montages on. *)
LiveSpec == Spec /\ WF_vars(Update) /\ WF_vars(Montage)

-----------------------------------------------------------------------------
(* The local player is told of every parry of its own, so it never takes   *)
(* over a blank ObjectInfo.                                                *)
TypeOK ==
  /\ AnimTypeOK /\ state \in Free \cup Combat
  /\ target \in BOOLEAN /\ camera \in {"Normal", "Battle", "Parry"}
  /\ asked \in Seq(Skill) /\ selecting \in 0..MaxSelecting
  /\ outcome \in BOOLEAN /\ packets \in 0..MaxPackets
  /\ cut \in BOOLEAN /\ movedIn \in Free \cup Combat
  /\ hitInParry \in BOOLEAN /\ early \in BOOLEAN

(* Out of combat nothing of the fight is left over: no skill blocks the    *)
(* next UseSkill (ClientPlayer.cpp:288) and the camera has left the parry  *)
(* view.  Only an input that cuts a combat state short can break this.     *)
FreeIsClean == state \in Free /\ ~cut => skill = NoSkill /\ camera # "Parry"

(* Lock-on is one thing to the player and two fields to the code: out of   *)
(* combat a target that is set is also the one the camera shows, whether a *)
(* hit or a late S_SELECT_ENEMY has set it (GameManager.cpp:231,           *)
(* ClientPlayer.cpp:131), unless an input has cut a combat state short.    *)
TargetInView == state \in Free /\ ~cut => (target => camera = "Battle")

(* Every combat state ends: each one is left by the animation's update     *)
(* once the montages are over, however late they started.                  *)
CombatEnds == state \in Combat ~> state \in Free

(* A skill, once set, is released, unless an input has cut it short.       *)
SkillReleased == skill # NoSkill ~> skill = NoSkill \/ cut

(* "Moving is possible in the IDLE, RUN and BATTLE states only"            *)
(* (ClientPlayerController.cpp:109).                                       *)
MovesOnlyWhenFree == movedIn \in Free

(* "Then, at the point of impact, the parry animation is performed"        *)
(* (PlayerAnimInstance.cpp:101): not before the attack montage of this     *)
(* parry has reached it.                                                   *)
ParryAtHitPoint == ~early
=============================================================================
