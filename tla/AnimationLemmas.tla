--------------------------- MODULE AnimationLemmas ---------------------------
(***************************************************************************)
(* Facts about one step of PlayerAnimation, for any skills: what it does   *)
(* to the action state, that it keeps the types, and that it starts an     *)
(* attack montage only where one is due.  The proofs about the local       *)
(* player and about the actors of others share them.  Last comes how a     *)
(* fight runs down.                                                        *)
(***************************************************************************)
EXTENDS PlayerAnimation, TLAPS

Animate == UpdateOther \/ UpdateParryAtHit \/ SlowEffectEnd \/ MontageEnds

(* A state that starts an attack montage on entry and has not been seen by *)
(* the animation yet was brought by a packet whose montage is still due.   *)
MontageDue ==
  /\ due >= 0
  /\ state \in {"ATTACK_TRY", "PARRY"} /\ Entered => due >= 1

ActionTypeOK == state \in Idle \cup Combat /\ skill \in Skill \cup {NoSkill}

(* The animation's types in two parts: the flags, and the rest. *)
AnimFlags ==
  /\ PlayParryTiming \in BOOLEAN /\ PlayAttackInterruptedTiming \in BOOLEAN
  /\ hitAhead \in BOOLEAN

AnimData ==
  /\ ActionTypeOK
  /\ parryInfo \in Skill \cup {NoSkill}
  /\ PrevState \in Idle \cup Combat
  /\ CurPlayingAttackSkill \in Skill \cup {NoSkill}
  /\ montage \in {"none", "attack", "hitted", "parry", "interrupted"}
  /\ due \in Int

(* The two parts are the whole. *)
LEMMA AnimParts == AnimTypeOK <=> AnimFlags /\ AnimData
BY DEF AnimTypeOK, AnimFlags, AnimData, ActionTypeOK

USE DEF actionVars, flagVars

(* A packet's handler, an input and the end of the animations keep the     *)
(* types of the action state.                                              *)
LEMMA ActionTypes == ASSUME ActionTypeOK, ActionNext PROVE ActionTypeOK'
<1>1. ASSUME NEW p \in Packets, Handle(p) PROVE ActionTypeOK'
  <2>1. p.state \in Free \cup Combat /\ p.skill \in Skill \cup {NoSkill}
    BY DEF Packets, Free, Combat
  <2> QED BY <1>1, <2>1 DEF Handle, ActionTypeOK, Idle
<1>2. CASE Finish \/ RestoreParry
  BY <1>2 DEF Finish, RestoreParry, ActionTypeOK, Idle, Free
<1>3. CASE MoveInput \/ LockOffInput
  BY <1>3 DEF MoveInput, LockOffInput, GetMoveActionState, ActionTypeOK, Idle, Free
<1> QED BY <1>1, <1>2, <1>3 DEF ActionNext

(* An update either leaves state and skill alone or ends the fight.        *)
LEMMA UpdateActs ==
  ASSUME UpdateOther PROVE UNCHANGED actionVars \/ Finish
<1> USE DEF CheckConvert, ConvertToBattle, Finish, Combat
<1>1. CASE UpdateFree               BY <1>1 DEF UpdateFree
<1>2. CASE UpdateAttackTry          BY <1>2 DEF UpdateAttackTry
<1>3. CASE UpdateAttackSuccess      BY <1>3 DEF UpdateAttackSuccess
<1>4. CASE UpdateAttackInterrupted  BY <1>4 DEF UpdateAttackInterrupted
<1>5. CASE UpdateDamaged            BY <1>5 DEF UpdateDamaged
<1>6. CASE UpdateParryEntered       BY <1>6 DEF UpdateParryEntered
<1>7. CASE UpdateParryGoesOn        BY <1>7 DEF UpdateParryGoesOn
<1> QED BY <1>1, <1>2, <1>3, <1>4, <1>5, <1>6, <1>7 DEF UpdateOther

(* A parry whose S_PARRY this client was never sent blanks the actor.       *)
Blanks == /\ state = "PARRY" /\ parryInfo = NoSkill
          /\ state' = "NONE" /\ skill' = NoSkill

(* So does every step of the animation, but for the ObjectInfo a parry     *)
(* restores.                                                               *)
LEMMA AnimationActs ==
  ASSUME AnimTypeOK, Animate
  PROVE  \/ UNCHANGED actionVars \/ Finish
         \/ (RestoreParry \/ Blanks) /\ UpdateParryAtHit
<1>1. CASE UpdateOther
  BY <1>1, UpdateActs
<1>2. CASE UpdateParryAtHit
  BY <1>2 DEF UpdateParryAtHit, RestoreParry, Blanks, AnimTypeOK
<1>3. CASE SlowEffectEnd \/ MontageEnds
  BY <1>3 DEF SlowEffectEnd, MontageEnds
<1> QED BY <1>1, <1>2, <1>3 DEF Animate

(* What S_PARRY has brought is the animation's only to read.               *)
LEMMA AnimationKeepsParry == ASSUME Animate PROVE UNCHANGED parryInfo
BY DEF Animate, UpdateOther, UpdateFree, UpdateAttackTry, UpdateAttackSuccess,
       UpdateAttackInterrupted, UpdateDamaged, UpdateParryEntered,
       UpdateParryGoesOn, UpdateParryAtHit, SlowEffectEnd, MontageEnds

(* Every step of the animation keeps the types.                            *)
LEMMA AnimationTypes == ASSUME AnimTypeOK, Animate PROVE AnimTypeOK'
<1> USE DEF CheckConvert, ConvertToBattle, PlayAttack
<1>1. AnimFlags'
  <2> USE AnimParts DEF AnimFlags
  <2>1. CASE UpdateFree               BY <2>1 DEF UpdateFree
  <2>2. CASE UpdateAttackTry          BY <2>2 DEF UpdateAttackTry
  <2>3. CASE UpdateAttackSuccess      BY <2>3 DEF UpdateAttackSuccess
  <2>4. CASE UpdateAttackInterrupted  BY <2>4 DEF UpdateAttackInterrupted
  <2>5. CASE UpdateDamaged            BY <2>5 DEF UpdateDamaged
  <2>6. CASE UpdateParryEntered       BY <2>6 DEF UpdateParryEntered
  <2>7. CASE UpdateParryGoesOn        BY <2>7 DEF UpdateParryGoesOn
  <2>8. CASE UpdateParryAtHit         BY <2>8 DEF UpdateParryAtHit
  <2>9. CASE SlowEffectEnd            BY <2>9 DEF SlowEffectEnd
  <2>10. CASE MontageEnds             BY <2>10 DEF MontageEnds
  <2> QED BY <2>1, <2>2, <2>3, <2>4, <2>5, <2>6, <2>7, <2>8, <2>9, <2>10
             DEF Animate, UpdateOther
<1>2. AnimData'
  <2> USE AnimParts DEF AnimData, ActionTypeOK, Idle, Free, Combat
  <2>1. CASE UpdateFree               BY <2>1 DEF UpdateFree
  <2>2. CASE UpdateAttackTry          BY <2>2 DEF UpdateAttackTry
  <2>3. CASE UpdateAttackSuccess      BY <2>3 DEF UpdateAttackSuccess
  <2>4. CASE UpdateAttackInterrupted  BY <2>4 DEF UpdateAttackInterrupted
  <2>5. CASE UpdateDamaged            BY <2>5 DEF UpdateDamaged
  <2>6. CASE UpdateParryEntered       BY <2>6 DEF UpdateParryEntered
  <2>7. CASE UpdateParryGoesOn        BY <2>7 DEF UpdateParryGoesOn
  <2>8. CASE UpdateParryAtHit         BY <2>8 DEF UpdateParryAtHit
  <2>9. CASE SlowEffectEnd            BY <2>9 DEF SlowEffectEnd
  <2>10. CASE MontageEnds             BY <2>10 DEF MontageEnds
  <2> QED BY <2>1, <2>2, <2>3, <2>4, <2>5, <2>6, <2>7, <2>8, <2>9, <2>10
             DEF Animate, UpdateOther
<1> QED BY <1>1, <1>2 DEF AnimTypeOK, AnimFlags, AnimData, ActionTypeOK

(* The animation starts an attack montage only where one is due.           *)
LEMMA AnimationMontage ==
  ASSUME AnimTypeOK, MontageDue, Animate PROVE MontageDue'
<1> USE DEF CheckConvert, ConvertToBattle, PlayAttack, MontageDue, Entered
<1>1. due \in Int
  BY DEF AnimTypeOK
<1>2. CASE UpdateFree \/ UpdateAttackSuccess
  BY <1>2 DEF UpdateFree, UpdateAttackSuccess, Idle, Free
<1>3. CASE UpdateAttackTry
  BY <1>1, <1>3 DEF UpdateAttackTry
<1>4. CASE UpdateAttackInterrupted \/ UpdateDamaged
  BY <1>4 DEF UpdateAttackInterrupted, UpdateDamaged
<1>5. CASE UpdateParryEntered
  BY <1>1, <1>5 DEF UpdateParryEntered
<1>6. CASE UpdateParryGoesOn \/ UpdateParryAtHit
  BY <1>6 DEF UpdateParryGoesOn, UpdateParryAtHit
<1>7. CASE SlowEffectEnd \/ MontageEnds
  BY <1>7 DEF SlowEffectEnd, MontageEnds
<1> QED BY <1>2, <1>3, <1>4, <1>5, <1>6, <1>7 DEF Animate, UpdateOther

-----------------------------------------------------------------------------
(* How a fight ends *)

(* A hit point still to come is one of the attack montage playing.         *)
MontageMoves == hitAhead => montage = "attack"

(* What is left to be played of the montages, and of those the flags set   *)
(* at a hit point still ask for; and a state not seen yet before it all.   *)
FlagsSet == (IF PlayParryTiming THEN 1 ELSE 0)
            + (IF PlayAttackInterruptedTiming THEN 1 ELSE 0)

ToPlay == IF hitAhead THEN 6
                      ELSE 2 * FlagsSet + (IF montage = "none" THEN 0 ELSE 1)

FightLeft == (IF Entered THEN 7 ELSE 0) + ToPlay

(* A step takes the actor out of combat, or brings that nearer.            *)
Advances == state' \notin Combat \/ (state' = state /\ FightLeft' < FightLeft)

(* There is never much left of a fight.                                    *)
LEMMA FightBounded ==
  /\ FlagsSet \in 0..2 /\ ToPlay \in 0..6 /\ FightLeft \in 0..13
  /\ Entered <=> FightLeft >= 7
<1>1. FlagsSet \in 0..2  BY DEF FlagsSet
<1>2. ToPlay \in 0..6    BY <1>1 DEF ToPlay
<1> QED BY <1>1, <1>2 DEF FightLeft

(* No step of the animation leaves a hit point ahead without its montage.  *)
LEMMA AnimationMoves ==
  ASSUME AnimTypeOK, MontageMoves, Animate PROVE MontageMoves'
<1> USE DEF PlayAttack, MontageMoves
<1>1. CASE UpdateFree               BY <1>1 DEF UpdateFree
<1>2. CASE UpdateAttackTry          BY <1>2 DEF UpdateAttackTry
<1>3. CASE UpdateAttackSuccess      BY <1>3 DEF UpdateAttackSuccess
<1>4. CASE UpdateAttackInterrupted
  BY <1>4 DEF UpdateAttackInterrupted
<1>5. CASE UpdateDamaged            BY <1>5 DEF UpdateDamaged
<1>6. CASE UpdateParryEntered       BY <1>6 DEF UpdateParryEntered
<1>7. CASE UpdateParryGoesOn        BY <1>7 DEF UpdateParryGoesOn
<1>8. CASE UpdateParryAtHit         BY <1>8 DEF UpdateParryAtHit
<1>9. CASE SlowEffectEnd            BY <1>9 DEF SlowEffectEnd
<1>10. CASE MontageEnds             BY <1>10 DEF MontageEnds
<1> QED BY <1>1, <1>2, <1>3, <1>4, <1>5, <1>6, <1>7, <1>8, <1>9, <1>10
           DEF Animate, UpdateOther

(* The first update in a combat state sees it, whatever it starts.         *)
LEMMA FirstUpdateAdvances ==
  ASSUME state \in Combat, Entered, UpdateOther \/ UpdateParryAtHit
  PROVE  Advances /\ ~Entered'
<1>1. PrevState' = state /\ state' = state
  <2> USE DEF CheckConvert, Combat, Free, Idle
  <2>1. CASE UpdateFree               BY <2>1 DEF UpdateFree
  <2>2. CASE UpdateAttackTry          BY <2>2 DEF UpdateAttackTry
  <2>3. CASE UpdateAttackSuccess      BY <2>3 DEF UpdateAttackSuccess
  <2>4. CASE UpdateAttackInterrupted  BY <2>4 DEF UpdateAttackInterrupted
  <2>5. CASE UpdateDamaged            BY <2>5 DEF UpdateDamaged
  <2>6. CASE UpdateParryEntered       BY <2>6 DEF UpdateParryEntered
  <2>7. CASE UpdateParryGoesOn        BY <2>7 DEF UpdateParryGoesOn
  <2>8. CASE UpdateParryAtHit         BY <2>8 DEF UpdateParryAtHit
  <2> QED BY <2>1, <2>2, <2>3, <2>4, <2>5, <2>6, <2>7, <2>8 DEF UpdateOther
<1>2. ~Entered'
  BY <1>1 DEF Entered
<1>3. /\ (FightLeft \in 0..13)'
      /\ (Entered <=> FightLeft >= 7)'
  BY FightBounded, PTL
<1>4. FightLeft' < 7
  BY <1>2, <1>3
<1>5. FightLeft \in 0..13 /\ FightLeft >= 7
  BY FightBounded
<1>6. Advances
  BY <1>1, <1>3, <1>4, <1>5 DEF Advances
<1> QED BY <1>2, <1>6

(* A flag taken down pays for the montage it starts.                       *)
LEMMA FlagPays ==
  ASSUME PlayParryTiming \in BOOLEAN, PlayAttackInterruptedTiming \in BOOLEAN,
         state' = state, PrevState' = state, ~Entered,
         ~hitAhead', montage' # "none",
         \/ /\ PlayParryTiming /\ ~PlayParryTiming'
            /\ UNCHANGED PlayAttackInterruptedTiming
         \/ /\ PlayAttackInterruptedTiming /\ ~PlayAttackInterruptedTiming'
            /\ UNCHANGED PlayParryTiming
  PROVE  Advances
<1>1. FlagsSet \in 0..2 /\ FlagsSet' = FlagsSet - 1
  BY DEF FlagsSet
<1>2. ToPlay' = 2 * FlagsSet' + 1
  BY DEF ToPlay
<1>3. ToPlay >= 2 * FlagsSet
  <2>1. CASE hitAhead   BY <1>1, <2>1 DEF ToPlay
  <2>2. CASE ~hitAhead  BY <1>1, <2>2 DEF ToPlay
  <2> QED BY <2>1, <2>2
<1>4. FightLeft = ToPlay
  BY FightBounded DEF FightLeft
<1>5. FightLeft' = ToPlay'
  <2>1. ~Entered' BY DEF Entered
  <2>2. FightLeft' = 0 + ToPlay' BY <2>1 DEF FightLeft
  <2> QED BY <1>1, <1>2, <2>2
<1>6. ToPlay \in Int BY FightBounded
<1> QED BY <1>1, <1>2, <1>3, <1>4, <1>5, <1>6 DEF Advances

(* A later update goes on with the fight, or ends it, unless it has to     *)
(* wait for a montage.                                                     *)
LEMMA LaterUpdateAdvances ==
  ASSUME AnimTypeOK, state \in Combat, ~Entered, UpdateOther \/ UpdateParryAtHit
  PROVE  \/ Advances
         \/ montage # "none" /\ UNCHANGED <<actionVars, animVars>>
<1> USE DEF CheckConvert, ConvertToBattle, Entered, animVars
<1>1. CASE UpdateFree
  BY <1>1 DEF UpdateFree
<1>2. CASE UpdateAttackTry
  BY <1>2 DEF UpdateAttackTry, Advances, Combat
<1>3. CASE UpdateAttackSuccess
  BY <1>3 DEF UpdateAttackSuccess, Advances, Combat
<1>4. CASE UpdateAttackInterrupted
  <2> USE DEF UpdateAttackInterrupted
  <2>1. CASE PlayAttackInterruptedTiming
    <3>1. /\ montage' = "interrupted" /\ ~hitAhead' /\ PrevState' = state
          /\ ~PlayAttackInterruptedTiming' /\ UNCHANGED PlayParryTiming
      BY <1>4, <2>1
    <3>2. UNCHANGED state
      BY <1>4, <3>1
    <3> QED BY <2>1, <3>1, <3>2, FlagPays DEF AnimTypeOK
  <2>2. CASE ~PlayAttackInterruptedTiming
    <3>1. UNCHANGED <<PrevState, montage>>
      BY <1>4, <2>2
    <3>2. UNCHANGED <<PlayParryTiming, PlayAttackInterruptedTiming, hitAhead>>
      BY <1>4, <2>2 DEF AnimTypeOK
    <3>3. \/ state' = "BATTLE"
          \/ montage # "none" /\ UNCHANGED <<state, skill, CurPlayingAttackSkill>>
      BY <1>4, <3>1
    <3> QED BY <3>1, <3>2, <3>3 DEF Advances, Combat
  <2> QED BY <2>1, <2>2
<1>5. CASE UpdateDamaged
  BY <1>5 DEF UpdateDamaged, Advances, Combat
<1>6. CASE UpdateParryEntered
  BY <1>6 DEF UpdateParryEntered
<1>7. CASE UpdateParryGoesOn
  BY <1>7 DEF UpdateParryGoesOn, Advances, Combat
<1>8. CASE UpdateParryAtHit
  <2> USE DEF UpdateParryAtHit, AnimTypeOK
  <2>1. CASE parryInfo = NoSkill  BY <1>8, <2>1 DEF Advances, Combat
  <2>2. CASE parryInfo # NoSkill  BY <1>8, <2>2, FlagPays
  <2> QED BY <2>1, <2>2
<1> QED BY <1>1, <1>2, <1>3, <1>4, <1>5, <1>6, <1>7, <1>8 DEF UpdateOther

(* Less of a part is less of the sum. *)
LEMMA SumLess ==
  /\ \A a, b \in Int : \A c, d : b < a /\ c = 7 + a /\ d = 7 + b => d < c
  /\ \A a, b \in Int : \A c, d : b < a /\ c = 0 + a /\ d = 0 + b => d < c
OBVIOUS

(* A montage that plays on brings the end of the fight nearer, too.        *)
LEMMA MontageAdvances ==
  ASSUME AnimTypeOK, SlowEffectEnd \/ MontageEnds
  PROVE  UNCHANGED <<state, PrevState>> /\ FightLeft' < FightLeft
<1>1. UNCHANGED <<state, PrevState>>
  BY DEF SlowEffectEnd, MontageEnds
<1>2. /\ FlagsSet \in Int /\ ToPlay \in Int
      /\ FlagsSet' \in 0..2 /\ ToPlay' \in Int
  <2>1. /\ (FlagsSet \in 0..2 /\ ToPlay \in 0..6)'
    BY FightBounded, PTL
  <2>2. FlagsSet' \in 0..2 /\ ToPlay' \in 0..6
    BY <2>1
  <2>3. FlagsSet \in 0..2 /\ ToPlay \in 0..6
    BY FightBounded
  <2> QED BY <2>2, <2>3
<1>3. ToPlay' < ToPlay
  <2>1. CASE SlowEffectEnd
    <3>1. ToPlay = 6
      BY <2>1 DEF SlowEffectEnd, ToPlay
    <3>2. ToPlay' = 2 * FlagsSet' + 1
      BY <2>1 DEF SlowEffectEnd, ToPlay
    <3>3. \A f \in 0..2 : 2 * f + 1 < 6
      OBVIOUS
    <3> QED BY <1>2, <3>1, <3>2, <3>3, Zenon
  <2>2. CASE MontageEnds
    <3>1. FlagsSet' = FlagsSet
      BY <2>2 DEF MontageEnds, FlagsSet
    <3>2. ToPlay = 2 * FlagsSet + 1
      BY <2>2 DEF MontageEnds, ToPlay
    <3>3. ToPlay' = 2 * FlagsSet' + 0
      BY <2>2 DEF MontageEnds, ToPlay
    <3> QED BY <1>2, <3>1, <3>2, <3>3
  <2> QED BY <2>1, <2>2
<1>4. Entered' <=> Entered
  BY <1>1 DEF Entered
<1>5. FightLeft' < FightLeft
  <2>1. CASE Entered
    <3>1. FightLeft = 7 + ToPlay    BY <2>1 DEF FightLeft
    <3>2. FightLeft' = 7 + ToPlay'  BY <1>4, <2>1 DEF FightLeft
    <3> QED BY <1>2, <1>3, <3>1, <3>2, SumLess, Zenon
  <2>2. CASE ~Entered
    <3>1. FightLeft = 0 + ToPlay    BY <2>2 DEF FightLeft
    <3>2. FightLeft' = 0 + ToPlay'  BY <1>4, <2>2 DEF FightLeft
    <3> QED BY <1>2, <1>3, <3>1, <3>2, SumLess, Zenon
  <2> QED BY <2>1, <2>2
<1> QED BY <1>1, <1>5

(* Every step of the animation in combat does.                             *)
LEMMA AnimationAdvances ==
  ASSUME AnimTypeOK, state \in Combat, Animate
  PROVE  \/ Advances
         \/ ~Entered /\ montage # "none" /\ UNCHANGED <<actionVars, animVars>>
<1>1. CASE UpdateOther \/ UpdateParryAtHit
  BY <1>1, FirstUpdateAdvances, LaterUpdateAdvances
<1>2. CASE SlowEffectEnd \/ MontageEnds
  BY <1>2, MontageAdvances DEF Advances
<1> QED BY <1>1, <1>2 DEF Animate

(* A step of the animation in a fight leads on, or leaves the actor as it  *)
(* is.                                                                     *)
LEMMA FightAnimates ==
  ASSUME AnimTypeOK, state \in Combat, Animate
  PROVE  Advances \/ UNCHANGED actorVars
<1>1. Advances \/ (~Entered /\ montage # "none" /\ UNCHANGED <<actionVars, animVars>>)
  BY AnimationAdvances
<1>2. CASE ~Entered /\ UNCHANGED <<actionVars, animVars>>
  <2> USE DEF Entered, Combat, Free, Idle, actionVars, flagVars, animVars, actorVars
  <2>1. CASE UpdateFree               BY <2>1 DEF UpdateFree
  <2>2. CASE UpdateAttackTry          BY <1>2, <2>2 DEF UpdateAttackTry
  <2>3. CASE UpdateAttackSuccess      BY <1>2, <2>3 DEF UpdateAttackSuccess
  <2>4. CASE UpdateAttackInterrupted  BY <1>2, <2>4 DEF UpdateAttackInterrupted
  <2>5. CASE UpdateDamaged            BY <1>2, <2>5 DEF UpdateDamaged
  <2>6. CASE UpdateParryEntered       BY <1>2, <2>6 DEF UpdateParryEntered
  <2>7. CASE UpdateParryGoesOn        BY <1>2, <2>7 DEF UpdateParryGoesOn
  <2>8. CASE UpdateParryAtHit         BY <1>2, <2>8 DEF UpdateParryAtHit
  <2>9. CASE SlowEffectEnd            BY <1>2, <2>9 DEF SlowEffectEnd
  <2>10. CASE MontageEnds             BY <1>2, <2>10 DEF MontageEnds
  <2> QED BY <2>1, <2>2, <2>3, <2>4, <2>5, <2>6, <2>7, <2>8, <2>9, <2>10
             DEF Animate, UpdateOther
<1> QED BY <1>1, <1>2
=============================================================================
