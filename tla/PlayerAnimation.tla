--------------------------- MODULE PlayerAnimation ---------------------------
(***************************************************************************)
(* UPlayerAnimInstance of one player: NativeUpdateAnimation, the notify at *)
(* the hit point of an attack, and the engine's montage playback.  It is   *)
(* the same code for the local player (PlayerCombat) and for an actor that *)
(* follows another client (RemoteCombat).                                  *)
(*                                                                         *)
(* The state is "NONE", ACTION_STATE_NONE, where APlayerBase::Parry has    *)
(* copied an ObjectInfo no S_PARRY has filled in: the default one.         *)
(*                                                                         *)
(* Of a montage the model keeps which one plays and whether its hit point, *)
(* where AnimNotify_SlowEffect_End sits, is behind it; play rates are left *)
(* out.                                                                    *)
(***************************************************************************)
EXTENDS ActionState, Integers

VARIABLES
  parryInfo,         \* skill_info of ParryAttackInfo.object_info(): none
                     \* as long as no S_PARRY has come
  PrevState, CurPlayingAttackSkill,
  PlayParryTiming, PlayAttackInterruptedTiming,
  montage,           \* the montage playing
  hitAhead,          \* is the hit point of the attack montage still to come?
  due                \* history: attack montages packets have asked for, less
                     \* those started

flagVars == <<PlayParryTiming, PlayAttackInterruptedTiming>>
animVars == <<PrevState, CurPlayingAttackSkill, flagVars, montage, hitAhead>>
actorVars == <<actionVars, parryInfo, animVars, due>>

(* A new actor has not been animated yet. *)
AnimStarts ==
  /\ parryInfo = NoSkill
  /\ PrevState = "NONE" /\ CurPlayingAttackSkill = NoSkill
  /\ PlayParryTiming = FALSE /\ PlayAttackInterruptedTiming = FALSE
  /\ montage = "none" /\ hitAhead = FALSE

AnimInit == ActionInit /\ AnimStarts /\ due = 0

-----------------------------------------------------------------------------
(* UPlayerAnimInstance::NativeUpdateAnimation, one action per state.       *)
(* PrevState becomes the state read on entry, whatever happens to the      *)
(* state during the update.                                                *)

(* Faults: definitions named ...Fault<X> are plausible mistakes in the      *)
(* definition that follows them.  No specification uses them.              *)

Entered == PrevState # state

(* The skill is not cleared. *)
ConvertToBattleFaultSkill ==
  /\ state' = "BATTLE" /\ UNCHANGED skill
  /\ CurPlayingAttackSkill' = NoSkill

ConvertToBattle ==
  /\ state' = "BATTLE" /\ skill' = NoSkill
  /\ CurPlayingAttackSkill' = NoSkill

(* CheckConvertStateToBattle, with montage m playing by now. *)
CheckConvert(m) ==
  IF ~Entered /\ m = "none"
    THEN ConvertToBattle
    ELSE UNCHANGED <<state, skill, CurPlayingAttackSkill>>

(* The history counts no further than one montage too many. *)
PlayAttack ==
  IF skill = NoSkill
    THEN UNCHANGED <<montage, hitAhead, due>>
    ELSE /\ montage' = "attack" /\ hitAhead' = TRUE
         /\ due' = IF due >= 0 THEN due - 1 ELSE due

(* In these states there is nothing to animate. *)
Idle == Free \cup {"NONE"}

UpdateFree ==
  /\ state \in Idle /\ Entered
  /\ PrevState' = state
  /\ UNCHANGED <<actionVars, parryInfo, CurPlayingAttackSkill, flagVars, montage,
                 hitAhead, due>>

(* The montage is started by every update, not by the first alone. *)
UpdateAttackTryFaultAgain ==
  /\ state = "ATTACK_TRY"
  /\ PrevState' = state
  /\ \/ /\ PlayAttack
        /\ CurPlayingAttackSkill' = skill
        /\ UNCHANGED actionVars
     \/ /\ ~Entered
        /\ CheckConvert(montage)
        /\ UNCHANGED <<montage, hitAhead, due>>
  /\ UNCHANGED <<parryInfo, flagVars>>

UpdateAttackTry ==
  /\ state = "ATTACK_TRY"
  /\ PrevState' = state
  /\ \/ /\ Entered
        /\ PlayAttack
        /\ CurPlayingAttackSkill' = skill
        /\ UNCHANGED actionVars
     \/ /\ ~Entered
        /\ CheckConvert(montage)
        /\ UNCHANGED <<montage, hitAhead, due>>
  /\ UNCHANGED <<parryInfo, flagVars>>

(* A successful attack never goes back to battle. *)
UpdateAttackSuccessFaultStays ==
  /\ state = "ATTACK_SUCCESS"
  /\ PrevState' = state
  /\ UNCHANGED <<actionVars, CurPlayingAttackSkill, parryInfo, flagVars, montage,
                 hitAhead, due>>

UpdateAttackSuccess ==
  /\ state = "ATTACK_SUCCESS"
  /\ PrevState' = state
  /\ CheckConvert(montage)
  /\ UNCHANGED <<parryInfo, flagVars, montage, hitAhead, due>>

UpdateAttackInterrupted ==
  /\ state = "ATTACK_INTERRUPTED"
  /\ PrevState' = state
  /\ montage' = IF PlayAttackInterruptedTiming THEN "interrupted" ELSE montage
  /\ hitAhead' = (hitAhead /\ ~PlayAttackInterruptedTiming)
  /\ PlayAttackInterruptedTiming' = FALSE
  /\ CheckConvert(montage')
  /\ UNCHANGED <<parryInfo, PlayParryTiming, due>>

(* The montage depends on DamagedDir; the server may send none. *)
UpdateDamaged ==
  /\ state = "DAMAGED"
  /\ PrevState' = state
  /\ \/ Entered /\ montage' = "hitted" /\ hitAhead' = FALSE
     \/ UNCHANGED <<montage, hitAhead>>
  /\ CheckConvert(montage')
  /\ UNCHANGED <<parryInfo, flagVars, due>>

(* PlayParryAnimation, first update in PARRY: the attack montage starts,   *)
(* unless CurPlayingAttackSkill says one is playing already.               *)
UpdateParryEntered ==
  /\ state = "PARRY" /\ Entered
  /\ PrevState' = state
  /\ IF CurPlayingAttackSkill = NoSkill
       THEN PlayAttack ELSE UNCHANGED <<montage, hitAhead, due>>
  /\ UNCHANGED <<actionVars, parryInfo, CurPlayingAttackSkill, flagVars>>

(* Later ones: at the hit point the parry montage starts and Parry() takes *)
(* over the ObjectInfo kept from S_PARRY, or the default one if this       *)
(* client was never sent that packet.                                      *)
UpdateParryAtHit ==
  /\ state = "PARRY" /\ ~Entered /\ PlayParryTiming
  /\ PlayParryTiming' = FALSE
  /\ montage' = "parry" /\ hitAhead' = FALSE
  /\ state' = IF parryInfo = NoSkill THEN "NONE" ELSE state
  /\ skill' = parryInfo
  /\ UNCHANGED <<parryInfo, PrevState, CurPlayingAttackSkill,
                 PlayAttackInterruptedTiming, due>>

UpdateParryGoesOn ==
  /\ state = "PARRY" /\ ~Entered /\ ~PlayParryTiming
  /\ CheckConvert(montage)
  /\ UNCHANGED <<parryInfo, PrevState, flagVars, montage, hitAhead, due>>

(* The updates that do not call APlayerBase::Parry. *)
UpdateOther ==
  \/ UpdateFree \/ UpdateAttackTry \/ UpdateAttackSuccess
  \/ UpdateAttackInterrupted \/ UpdateDamaged \/ UpdateParryEntered
  \/ UpdateParryGoesOn

-----------------------------------------------------------------------------
(* The engine plays the montage: it passes the hit point, where            *)
(* UAnimNotify_SlowEffect_End looks at the state of that moment, and ends. *)
SlowEffectEnd ==
  /\ montage = "attack" /\ hitAhead
  /\ hitAhead' = FALSE
  /\ PlayParryTiming' = (PlayParryTiming \/ state = "PARRY")
  /\ PlayAttackInterruptedTiming' =
       (PlayAttackInterruptedTiming \/ state = "ATTACK_INTERRUPTED")
  /\ UNCHANGED <<actionVars, parryInfo, PrevState, CurPlayingAttackSkill, montage,
                 due>>

MontageEnds ==
  /\ montage # "none" /\ ~hitAhead
  /\ montage' = "none"
  /\ UNCHANGED <<actionVars, parryInfo, PrevState, CurPlayingAttackSkill, flagVars,
                 hitAhead, due>>

-----------------------------------------------------------------------------
AnimTypeOK ==
  /\ state \in Idle \cup Combat /\ skill \in Skill \cup {NoSkill}
  /\ parryInfo \in Skill \cup {NoSkill}
  /\ PrevState \in Idle \cup Combat
  /\ CurPlayingAttackSkill \in Skill \cup {NoSkill}
  /\ PlayParryTiming \in BOOLEAN /\ PlayAttackInterruptedTiming \in BOOLEAN
  /\ montage \in {"none", "attack", "hitted", "parry", "interrupted"}
  /\ hitAhead \in BOOLEAN /\ due \in Int

(* "Must be done once only" (PlayerAnimInstance.cpp:116, 208): whatever    *)
(* order packets, inputs and updates come in, an attack montage starts at  *)
(* most once for every S_SKILL and S_PARRY.                                *)
AttackStartsOnce == due >= 0
=============================================================================
