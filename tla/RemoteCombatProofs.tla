------------------------- MODULE RemoteCombatProofs -------------------------
(***************************************************************************)
(* Theorems about RemoteCombat, for any skills, packets and reports.       *)
(*                                                                         *)
(* That an actor out of combat is clean is no fact about the actor alone:  *)
(* the owner must be clean, and everything on the way to the viewer.       *)
(***************************************************************************)
EXTENDS RemoteCombat, AnimationLemmas, SequenceTheorems

Messages == Packets \cup Reports

(* What may be on the way: out of combat, no skill. *)
Tidy == {m \in Messages : m.state \in Free => m.skill = NoSkill}

OwnerTypes == /\ ownerState \in Free \cup Combat
              /\ ownerSkill \in Skill \cup {NoSkill}

WayTypes == toOwner \in Seq(Packets) /\ toViewer \in Seq(Messages)

ServerTypes == sent \in 0..MaxPackets /\ cut \in BOOLEAN

OwnerClean == ownerState \in Free /\ ~cut => ownerSkill = NoSkill

WayClean == ~cut => toViewer \in Seq(Tidy)

RemoteTypes == AnimTypeOK /\ OwnerTypes /\ WayTypes /\ ServerTypes

RemoteInv == RemoteTypes /\ OwnerClean /\ WayClean /\ FreeActorIsClean

USE DEF actionVars, flagVars, actorVars, animVars, ownerVars

(* Every packet's fields are ones a player's ObjectInfo can hold, and a    *)
(* packet that ends a fight clears the skill.                              *)
LEMMA MessageFields ==
  ASSUME NEW m \in Messages
  PROVE  m.state \in Free \cup Combat /\ m.skill \in Skill \cup {NoSkill}
BY DEF Messages, Packets, Reports, Free, Combat

LEMMA PacketsTidy == ASSUME NEW p \in Packets PROVE p \in Tidy
BY DEF Tidy, Messages, Packets, Free

(* Nothing is under way in the initial state, and whatever fight the actor *)
(* is shown in, it is shown no skill out of combat.                        *)
LEMMA RemoteInit == Init => RemoteInv
<1> SUFFICES ASSUME Init PROVE RemoteInv
  OBVIOUS
<1> USE DEF Init, AnimStarts
<1>1. <<>> \in Seq(Packets) /\ <<>> \in Seq(Messages) /\ <<>> \in Seq(Tidy)
  BY EmptySeq
<1>2. AnimTypeOK
  <2>1. AnimFlags BY DEF AnimFlags
  <2>2. ActionTypeOK BY DEF Infos, ActionTypeOK, Idle
  <2>3. due \in Int BY DEF Attacks
  <2>4. AnimData  BY <2>2, <2>3 DEF AnimData, Idle
  <2> QED BY <2>1, <2>4, AnimParts
<1>3. OwnerTypes /\ WayTypes
  BY <1>1 DEF OwnerTypes, WayTypes, Infos
<1>4. ServerTypes
  <2>1. 0 \in 0..MaxPackets BY RemoteAssumption
  <2> QED BY <2>1 DEF ServerTypes
<1>5. OwnerClean /\ WayClean /\ FreeActorIsClean
  BY <1>1 DEF OwnerClean, WayClean, FreeActorIsClean, Infos
<1> QED BY <1>2, <1>3, <1>4, <1>5 DEF RemoteInv, RemoteTypes

-----------------------------------------------------------------------------
(* The server's packets keep the invariant: they are tidy.                 *)
LEMMA SendStep ==
  ASSUME RemoteInv, NEW p \in Packets, ServerSends(p) PROVE RemoteInv'
<1> USE DEF RemoteInv, RemoteTypes, ServerSends
<1>1. ServerTypes'
  BY RemoteAssumption DEF ServerTypes
<1>2. WayTypes'
  BY AppendProperties DEF WayTypes, Messages
<1>3. WayClean'
  BY PacketsTidy, AppendProperties DEF WayClean
<1>4. AnimTypeOK' /\ OwnerTypes'
  BY DEF AnimTypeOK, OwnerTypes
<1>5. OwnerClean' /\ FreeActorIsClean'
  BY DEF OwnerClean, FreeActorIsClean
<1> QED BY <1>1, <1>2, <1>3, <1>4, <1>5

(* The owner's own steps keep it clean, or an input has cut a fight short. *)
LEMMA OwnerStep ==
  ASSUME RemoteInv, OwnerHandles \/ OwnerAnimates \/ OwnerInput PROVE RemoteInv'
<1> USE DEF RemoteInv, RemoteTypes
<1>1. UNCHANGED <<actorVars, toViewer, sent>>
  BY DEF OwnerHandles, OwnerAnimates, OwnerInput
<1>2. AnimTypeOK'
  BY <1>1 DEF AnimTypeOK
<1>3. cut' \in BOOLEAN /\ (cut => cut')
  BY DEF ServerTypes, OwnerHandles, OwnerAnimates, OwnerInput
<1>4. ServerTypes' /\ WayClean' /\ FreeActorIsClean'
  BY <1>1, <1>3 DEF ServerTypes, WayClean, FreeActorIsClean
<1>5. WayTypes'
  BY <1>1, HeadTailProperties DEF WayTypes, OwnerHandles, OwnerAnimates, OwnerInput
<1>6. OwnerTypes' /\ OwnerClean'
  <2>1. CASE OwnerHandles
    <3>1. Head(toOwner) \in Packets
      BY <2>1, HeadTailProperties DEF OwnerHandles, WayTypes
    <3>2. Head(toOwner) \in Tidy
      BY <3>1, PacketsTidy
    <3>3. OwnerTypes'
      BY <2>1, <3>1, MessageFields
         DEF OwnerHandles, Owner!Handle, OwnerTypes, Messages
    <3>4. ~(Head(toOwner).type = "ATTACKER" /\ Head(toOwner).state \in Free)
      BY <3>1 DEF Packets, Free
    <3>5. OwnerClean'
      BY <2>1, <3>2, <3>4 DEF OwnerHandles, Owner!Handle, OwnerClean, Tidy
    <3> QED BY <3>3, <3>5
  <2>2. CASE OwnerAnimates
    BY <2>2 DEF OwnerAnimates, Owner!Finish, Owner!RestoreParry, OwnerTypes,
                OwnerClean, Free
  <2>3. CASE OwnerInput
    BY <2>3 DEF OwnerInput, Owner!MoveInput, Owner!LockOffInput, OwnerTypes,
                Owner!GetMoveActionState, OwnerClean, Free, ServerTypes
  <2> QED BY <2>1, <2>2, <2>3
<1> QED BY <1>2, <1>4, <1>5, <1>6

(* A report is as clean as the owner is.                                   *)
LEMMA ReportStep == ASSUME RemoteInv, OwnerReports PROVE RemoteInv'
<1> DEFINE r == [type |-> "S_MOVE", state |-> ownerState, skill |-> ownerSkill]
<1> USE DEF RemoteInv, RemoteTypes
<1>1. toViewer' = Append(toViewer, r)
      /\ UNCHANGED <<actorVars, ownerVars, toOwner, sent>>
  BY DEF OwnerReports
<1>2. r \in Messages
  BY DEF Messages, Reports, OwnerTypes
<1>3. ~cut => r \in Tidy
  BY <1>2 DEF Tidy, OwnerClean
<1> HIDE DEF r
<1>4. WayTypes'
  BY <1>1, <1>2, AppendProperties DEF WayTypes
<1>5. WayClean'
  BY <1>1, <1>3, AppendProperties DEF WayClean
<1>6. AnimTypeOK' /\ OwnerTypes' /\ ServerTypes'
  BY <1>1 DEF AnimTypeOK, OwnerTypes, ServerTypes
<1>7. OwnerClean' /\ FreeActorIsClean'
  BY <1>1 DEF OwnerClean, FreeActorIsClean
<1> QED BY <1>4, <1>5, <1>6, <1>7

(* Whatever the viewer takes from the way, its actor is as clean as that.  *)
LEMMA ViewerStep == ASSUME RemoteInv, ViewerHandles PROVE RemoteInv'
<1> DEFINE m == Head(toViewer)
<1> USE DEF RemoteInv, RemoteTypes
<1>1. /\ toViewer # <<>> /\ toViewer' = Tail(toViewer)
      /\ UNCHANGED <<animVars, ownerVars, toOwner, sent>>
      /\ Handle(m)
  BY DEF ViewerHandles, HandleMove, HandleSkill, HandleParry, HandleOther, Dequeues
<1>2. parryInfo' \in {parryInfo, m.skill} /\ due' \in {due, due + 1}
  BY DEF ViewerHandles, HandleMove, HandleSkill, HandleParry, HandleOther
<1>3. m \in Messages
  BY <1>1, HeadTailProperties DEF WayTypes
<1>4. ~cut => m \in Tidy
  BY <1>1, HeadTailProperties DEF WayClean
<1>5. WayTypes' /\ WayClean'
  BY <1>1, HeadTailProperties DEF WayTypes, WayClean
<1>6. m.state \in Free \cup Combat /\ m.skill \in Skill \cup {NoSkill}
  BY <1>3, MessageFields
<1>7. ~(m.type = "ATTACKER" /\ m.state \in Free)
  BY <1>3 DEF Messages, Packets, Reports, Free
<1> HIDE DEF m
<1>8. OwnerTypes' /\ ServerTypes' /\ OwnerClean'
  BY <1>1 DEF OwnerTypes, ServerTypes, OwnerClean
<1>9. AnimTypeOK'
  <2>1. AnimFlags'
    BY <1>1, AnimParts DEF AnimFlags
  <2>2. due' \in Int
    BY <1>2, AnimParts DEF AnimData
  <2>3. AnimData'
    BY <1>1, <1>2, <1>6, <2>2, AnimParts DEF AnimData, ActionTypeOK, Idle, Handle
  <2> QED BY <2>1, <2>3 DEF AnimTypeOK, AnimFlags, AnimData, ActionTypeOK
<1>10. FreeActorIsClean'
  BY <1>1, <1>4, <1>7 DEF FreeActorIsClean, Handle, Tidy
<1> QED BY <1>5, <1>8, <1>9, <1>10

(* The actor's animation ends a fight by clearing the skill.               *)
LEMMA AnimationStep == ASSUME RemoteInv, Update \/ Montage PROVE RemoteInv'
<1> USE DEF RemoteInv, RemoteTypes
<1>1. Animate /\ UNCHANGED <<ownerVars, toOwner, toViewer, sent>>
  BY DEF Update, Montage, Animate
<1>2. AnimTypeOK'
  BY <1>1, AnimationTypes
<1>3. OwnerTypes' /\ WayTypes' /\ ServerTypes' /\ OwnerClean' /\ WayClean'
  BY <1>1 DEF OwnerTypes, WayTypes, ServerTypes, OwnerClean, WayClean
<1>4. FreeActorIsClean'
  <2>1. UNCHANGED actionVars \/ Finish \/ RestoreParry \/ Blanks
    BY <1>1, AnimationActs
  <2>2. CASE UNCHANGED actionVars \/ Finish
    BY <1>1, <2>2 DEF FreeActorIsClean, Finish
  <2>3. CASE RestoreParry \/ Blanks
    BY <2>3 DEF FreeActorIsClean, RestoreParry, Blanks, Free
  <2> QED BY <2>1, <2>2, <2>3
<1> QED BY <1>2, <1>3, <1>4

(* Every step keeps the invariant. *)
LEMMA RemoteStep == RemoteInv /\ [Next]_vars => RemoteInv'
<1> SUFFICES ASSUME RemoteInv, [Next]_vars PROVE RemoteInv'
  OBVIOUS
<1>1. CASE UNCHANGED vars
  <2> USE DEF RemoteInv, RemoteTypes, vars
  <2>1. AnimTypeOK'
    BY <1>1 DEF AnimTypeOK
  <2>2. OwnerTypes' /\ WayTypes' /\ ServerTypes'
    BY <1>1 DEF OwnerTypes, WayTypes, ServerTypes
  <2>3. OwnerClean' /\ WayClean' /\ FreeActorIsClean'
    BY <1>1 DEF OwnerClean, WayClean, FreeActorIsClean
  <2> QED BY <2>1, <2>2, <2>3
<1> QED BY <1>1, SendStep, OwnerStep, ReportStep, ViewerStep, AnimationStep
           DEF Next, OwnerActs

(* Actor, owner and everything under way keep their types. *)
THEOREM RemoteTypeCorrect == Spec => []TypeOK
<1>1. RemoteInv => TypeOK
  BY DEF RemoteInv, RemoteTypes, OwnerTypes, WayTypes, ServerTypes, Messages, TypeOK
<1> QED BY RemoteInit, RemoteStep, <1>1, PTL DEF Spec

(* An actor out of combat carries no skill, whoever wrote to it last,      *)
(* unless an input of its owner has cut a combat state short.              *)
THEOREM FreeActorAlwaysClean == Spec => []FreeActorIsClean
<1>1. RemoteInv => FreeActorIsClean BY DEF RemoteInv
<1> QED BY RemoteInit, RemoteStep, <1>1, PTL DEF Spec

-----------------------------------------------------------------------------
(* How the actor's fights run *)

(* The actor's animation goes on towards the end of its fight, whatever    *)
(* the owner's screen shows meanwhile: only what the viewer takes from the *)
(* way (UGameManager's handlers) can prolong it.                           *)
THEOREM ActorFightsRunDown ==
  Spec => [][~ViewerHandles /\ state \in Combat
               => Advances \/ UNCHANGED actorVars]_vars
<1>1. RemoteInv /\ [Next]_vars
        => [~ViewerHandles /\ state \in Combat
              => Advances \/ UNCHANGED actorVars]_vars
  <2> SUFFICES ASSUME RemoteInv, [Next]_vars, ~ViewerHandles, state \in Combat
               PROVE  Advances \/ UNCHANGED actorVars
    OBVIOUS
  <2>1. CASE Update \/ Montage
    <3>1. Animate BY <2>1 DEF Update, Montage, Animate
    <3> QED BY <3>1, FightAnimates DEF RemoteInv, RemoteTypes
  <2>2. CASE OwnerActs \/ \E p \in Packets : ServerSends(p)
    BY <2>2 DEF OwnerActs, OwnerHandles, OwnerAnimates, OwnerInput, OwnerReports,
                ServerSends
  <2>3. CASE UNCHANGED vars
    BY <2>3 DEF vars
  <2> QED BY <2>1, <2>2, <2>3 DEF Next
<1> QED BY RemoteInit, RemoteStep, <1>1, PTL DEF Spec

(* A report that does not put the actor into an attack or a parry.         *)
NoAttackReported ==
  HandleMove => state' = state \/ state' \notin {"ATTACK_TRY", "PARRY"}

(* What the viewer takes from the way counts every attack it brings, if no *)
(* report does.                                                            *)
LEMMA ViewerDue ==
  ASSUME RemoteInv, MontageDue, NoAttackReported, ViewerHandles
  PROVE  MontageDue'
<1> USE DEF RemoteInv, RemoteTypes, MontageDue, Entered
<1>1. UNCHANGED PrevState /\ due \in Int
  BY DEF ViewerHandles, HandleMove, HandleSkill, HandleParry, HandleOther, Dequeues,
         AnimTypeOK
<1>2. CASE HandleMove
  BY <1>1, <1>2 DEF HandleMove, NoAttackReported
<1>3. CASE HandleSkill \/ HandleParry
  BY <1>1, <1>3 DEF HandleSkill, HandleParry
<1>4. CASE HandleOther
  <2>1. Head(toViewer) \in Messages
    BY <1>4, HeadTailProperties DEF HandleOther, Dequeues, WayTypes
  <2>2. Head(toViewer).state \notin {"ATTACK_TRY", "PARRY"}
    BY <1>4, <2>1 DEF HandleOther, Dequeues, Messages, Packets, Reports, Free
  <2> QED BY <1>1, <1>4, <2>2 DEF HandleOther, Handle
<1> QED BY <1>2, <1>3, <1>4 DEF ViewerHandles

(* An actor's attack montage starts twice only where a report of its owner *)
(* (HandleMove, GameManager.cpp:144) has brought back an attack or a parry *)
(* the actor was through with: the packets themselves never do it          *)
(* (RemoteCombat_attack shows a behaviour where a report does).            *)
THEOREM ReportsRestartAttacks ==
  Spec /\ [][NoAttackReported]_vars => []AttackStartsOnce
<1>1. Init => MontageDue
  BY DEF Init, AnimStarts, Attacks, MontageDue, Entered
<1>2. RemoteInv /\ MontageDue /\ [NoAttackReported]_vars /\ [Next]_vars => MontageDue'
  <2> SUFFICES ASSUME RemoteInv, MontageDue, [NoAttackReported]_vars, [Next]_vars
               PROVE  MontageDue'
    OBVIOUS
  <2>1. CASE UNCHANGED <<state, PrevState, due>>
    BY <2>1 DEF MontageDue, Entered
  <2>2. CASE ViewerHandles /\ NoAttackReported
    BY <2>2, ViewerDue
  <2>3. CASE Update \/ Montage
    <3>1. Animate BY <2>3 DEF Update, Montage, Animate
    <3> QED BY <3>1, AnimationMontage DEF RemoteInv, RemoteTypes
  <2>4. CASE OwnerActs \/ \E p \in Packets : ServerSends(p)
    BY <2>1, <2>4 DEF OwnerActs, OwnerHandles, OwnerAnimates, OwnerInput, OwnerReports,
                ServerSends
  <2> QED BY <2>1, <2>2, <2>3, <2>4 DEF Next, vars
<1>3. MontageDue => AttackStartsOnce
  BY DEF MontageDue, AttackStartsOnce
<1> QED BY RemoteInit, RemoteStep, <1>1, <1>2, <1>3, PTL DEF Spec

-----------------------------------------------------------------------------
(* How the two screens come to agree *)

(* The report of an owner that rests. *)
Report(st, sk) == [type |-> "S_MOVE", state |-> st, skill |-> sk]

(* Behind the next n packets on the way there are only such reports.      *)
StaleAtMost(n, st, sk) ==
  \A i \in DOMAIN toViewer : i > n => toViewer[i] = Report(st, sk)

(* The viewer's actor is as its owner rests, and nothing else is under way. *)
Agree(st, sk) == state = st /\ skill = sk /\ StaleAtMost(0, st, sk)

(* While the owner rests nothing but its report is put on the way.         *)
LEMMA RestSends ==
  ASSUME NEW st \in Free, NEW sk \in Skill \cup {NoSkill},
         RemoteInv, [Next]_vars, OwnerRests(st, sk), OwnerRests(st, sk)'
  PROVE  \/ ViewerHandles
         \/ UNCHANGED actionVars /\ toViewer' = Append(toViewer, Report(st, sk))
         \/ UNCHANGED actionVars /\ UNCHANGED toViewer
         \/ (Update \/ Montage) /\ UNCHANGED toViewer
<1>1. CASE \E p \in Packets : ServerSends(p)
  <2> PICK p \in Packets : ServerSends(p) BY <1>1
  <2>1. Append(toOwner, p) # <<>>
    BY AppendProperties DEF RemoteInv, RemoteTypes, WayTypes
  <2> QED BY <2>1 DEF ServerSends, OwnerRests
<1>2. CASE OwnerReports
  BY <1>2 DEF OwnerReports, OwnerRests, Report
<1>3. CASE OwnerHandles \/ OwnerAnimates \/ OwnerInput
  BY <1>3 DEF OwnerHandles, OwnerAnimates, OwnerInput
<1>4. CASE Update \/ Montage
  BY <1>4 DEF Update, Montage
<1>5. CASE UNCHANGED vars
  BY <1>5 DEF vars
<1> QED BY <1>1, <1>2, <1>3, <1>4, <1>5 DEF Next, OwnerActs

(* Then what is stale on the way is never more, and less with every packet *)
(* the viewer takes.                                                       *)
LEMMA RestStale ==
  ASSUME NEW st \in Free, NEW sk \in Skill \cup {NoSkill}, NEW n \in Nat,
         RemoteInv, [Next]_vars, OwnerRests(st, sk), OwnerRests(st, sk)',
         StaleAtMost(n, st, sk)
  PROVE  /\ StaleAtMost(n, st, sk)'
         /\ ViewerHandles => StaleAtMost(n - 1, st, sk)'
<1> USE DEF StaleAtMost
<1>1. toViewer \in Seq(Messages)
  BY DEF RemoteInv, RemoteTypes, WayTypes
<1>2. CASE ViewerHandles
  <2>1. toViewer # <<>> /\ toViewer' = Tail(toViewer)
    BY <1>2 DEF ViewerHandles, HandleMove, HandleSkill, HandleParry, HandleOther,
                Dequeues
  <2>2. /\ Len(toViewer') = Len(toViewer) - 1
        /\ \A i \in 1..Len(toViewer') : toViewer'[i] = toViewer[i + 1]
    BY <1>1, <2>1, HeadTailProperties
  <2>3. /\ DOMAIN toViewer = 1..Len(toViewer) /\ Len(toViewer) \in Nat
        /\ DOMAIN toViewer' = 1..Len(toViewer')
    BY <1>1, <2>1, HeadTailProperties
  <2>4. ASSUME NEW i \in DOMAIN toViewer', i > n - 1
        PROVE  toViewer'[i] = Report(st, sk)
    BY <2>2, <2>3, <2>4
  <2> QED BY <2>3, <2>4
<1>3. CASE toViewer' = Append(toViewer, Report(st, sk)) /\ ~ViewerHandles
  BY <1>1, <1>3, AppendProperties
<1>4. CASE UNCHANGED toViewer /\ ~ViewerHandles
  BY <1>4
<1> QED BY <1>2, <1>3, <1>4, RestSends

(* Reports of the owner at rest put the actor to rest, and it stays so:    *)
(* NativeUpdateAnimation does nothing to a player who does not fight.      *)
LEMMA RestAgrees ==
  ASSUME NEW st \in Free, NEW sk \in Skill \cup {NoSkill},
         RemoteInv, [Next]_vars, OwnerRests(st, sk), OwnerRests(st, sk)',
         StaleAtMost(0, st, sk)
  PROVE  /\ StaleAtMost(0, st, sk)'
         /\ ViewerHandles => Agree(st, sk)'
         /\ Agree(st, sk) => Agree(st, sk)'
<1>1. StaleAtMost(0, st, sk)'
  BY RestStale
<1>2. CASE ViewerHandles
  <2>1. toViewer # <<>> /\ Handle(Head(toViewer))
    BY <1>2 DEF ViewerHandles, HandleMove, HandleSkill, HandleParry, HandleOther,
                Dequeues
  <2>2. Head(toViewer) = Report(st, sk)
    <3>1. /\ toViewer \in Seq(Messages) /\ Len(toViewer) > 0
          /\ Head(toViewer) = toViewer[1] /\ 1 \in DOMAIN toViewer
      BY <2>1, HeadTailProperties DEF RemoteInv, RemoteTypes, WayTypes
    <3> QED BY <3>1 DEF StaleAtMost
  <2> QED BY <1>1, <2>1, <2>2 DEF Agree, Handle, Report
<1>3. CASE Update \/ Montage
  <2>1. Animate
    BY <1>3 DEF Update, Montage, Animate
  <2>2. UNCHANGED actionVars \/ Finish \/ RestoreParry \/ Blanks
    BY <2>1, AnimationActs DEF RemoteInv, RemoteTypes
  <2>3. state = st => UNCHANGED actionVars
    BY <2>2 DEF Finish, RestoreParry, Blanks, Free, Combat
  <2>4. ~ViewerHandles \/ ViewerHandles
    OBVIOUS
  <2> QED BY <1>1, <1>2, <2>3, <2>4 DEF Agree
<1> QED BY <1>1, <1>2, <1>3, RestSends DEF Agree

(* Nothing is on the way to the viewer. *)
WayEmpty == toViewer = <<>>

(* The viewer can take what is on the way, and the owner can report when   *)
(* nothing is.                                                             *)
ViewerCanStep ==
  /\ ~WayEmpty => ENABLED <<ViewerHandles>>_vars
  /\ WayEmpty => ENABLED <<OwnerReports>>_vars

(* While the owner rests, no step puts anything stale on the way, and each *)
(* packet the viewer takes leaves less of it, however much there is.       *)
THEOREM StaleRunsDown ==
  ASSUME NEW st \in Free, NEW sk \in Skill \cup {NoSkill}, NEW n \in Nat
  PROVE  Spec => [][(OwnerRests(st, sk) /\ OwnerRests(st, sk)'
                     /\ StaleAtMost(n, st, sk))
                      => /\ StaleAtMost(n, st, sk)'
                         /\ ViewerHandles => StaleAtMost(n - 1, st, sk)']_vars
<1>1. RemoteInv /\ [Next]_vars
        => [(OwnerRests(st, sk) /\ OwnerRests(st, sk)' /\ StaleAtMost(n, st, sk))
              => /\ StaleAtMost(n, st, sk)'
                 /\ ViewerHandles => StaleAtMost(n - 1, st, sk)']_vars
  BY RestStale
<1> QED BY RemoteInit, RemoteStep, <1>1, PTL DEF Spec

(* The way goes empty only by the viewer's taking what is on it.           *)
LEMMA RestEmpties ==
  ASSUME NEW st \in Free, NEW sk \in Skill \cup {NoSkill},
         RemoteInv, [Next]_vars, OwnerRests(st, sk), OwnerRests(st, sk)',
         ~WayEmpty
  PROVE  ~WayEmpty' \/ ViewerHandles
<1>1. toViewer \in Seq(Messages)
  BY DEF RemoteInv, RemoteTypes, WayTypes
<1> QED BY <1>1, RestSends, AppendProperties DEF WayEmpty

(* If the owner rests, the next of n stale packets on the way is delivered: *)
(* the step of the argument that ViewerSettles needs for every n.          *)
THEOREM StaleDelivered ==
  ASSUME NEW st \in Free, NEW sk \in Skill \cup {NoSkill}, NEW n \in Nat \ {0}
  PROVE  LiveSpec /\ []ViewerCanStep
           => ([]OwnerRests(st, sk) /\ StaleAtMost(n, st, sk)
                 ~> StaleAtMost(n - 1, st, sk))
<1>1. RemoteInv /\ [Next]_vars /\ OwnerRests(st, sk) /\ OwnerRests(st, sk)'
        /\ StaleAtMost(n, st, sk)
        => StaleAtMost(n, st, sk)' /\ (ViewerHandles => StaleAtMost(n - 1, st, sk)')
  BY RestStale
<1>2. <<ViewerHandles>>_vars => ViewerHandles
  OBVIOUS
<1>3. RemoteInv /\ WayEmpty => StaleAtMost(n - 1, st, sk)
  BY DEF StaleAtMost, WayEmpty
<1>4. ViewerCanStep /\ ~WayEmpty => ENABLED <<ViewerHandles>>_vars
  BY DEF ViewerCanStep
<1> QED
  BY <1>1, <1>2, <1>3, <1>4, RemoteInit, RemoteStep, PTL DEF LiveSpec, Spec

(* Once the owner rests and what is stale has been delivered, the actor    *)
(* takes up the owner's state and skill for good: the owner goes on        *)
(* reporting (MoveSync never resets AccTime), the next report reaches the  *)
(* actor, and neither its animation nor a later packet undoes it.          *)
THEOREM ViewerTakesUp ==
  ASSUME NEW st \in Free, NEW sk \in Skill \cup {NoSkill}
  PROVE  LiveSpec /\ []ViewerCanStep /\ []<>StaleAtMost(0, st, sk)
           => (<>[]OwnerRests(st, sk) => <>[](state = st /\ skill = sk))
<1>1. RemoteInv /\ [Next]_vars /\ OwnerRests(st, sk) /\ OwnerRests(st, sk)'
        /\ StaleAtMost(0, st, sk)
        => /\ StaleAtMost(0, st, sk)'
           /\ ViewerHandles => Agree(st, sk)'
           /\ Agree(st, sk) => Agree(st, sk)'
  BY RestAgrees
<1>2. RemoteInv /\ [Next]_vars /\ OwnerRests(st, sk) /\ OwnerRests(st, sk)'
        /\ ~WayEmpty
        => ~WayEmpty' \/ ViewerHandles
  BY RestEmpties
<1>3. <<ViewerHandles>>_vars => ViewerHandles
  OBVIOUS
<1>4. RemoteInv /\ <<OwnerReports>>_vars => ~WayEmpty'
  <2> SUFFICES ASSUME RemoteInv, OwnerReports PROVE ~WayEmpty'
    OBVIOUS
  <2>1. toViewer \in Seq(Messages)
    BY DEF RemoteInv, RemoteTypes, WayTypes
  <2> DEFINE r == [type |-> "S_MOVE", state |-> ownerState, skill |-> ownerSkill]
  <2>2. toViewer' = Append(toViewer, r)
    BY DEF OwnerReports
  <2> HIDE DEF r
  <2> QED BY <2>1, <2>2, AppendProperties DEF WayEmpty
<1>5. Agree(st, sk) => state = st /\ skill = sk
  BY DEF Agree
<1>6. ViewerCanStep => /\ ~WayEmpty => ENABLED <<ViewerHandles>>_vars
                       /\ WayEmpty => ENABLED <<OwnerReports>>_vars
  BY DEF ViewerCanStep
<1> QED
  BY <1>1, <1>2, <1>3, <1>4, <1>5, <1>6, RemoteInit, RemoteStep, PTL
     DEF LiveSpec, Spec

(* What StaleDelivered comes to when it is used for every n in turn: while *)
(* the owner rests, what is stale gets through.                            *)
StaleGetsThrough ==
  \A st \in Free, sk \in Skill \cup {NoSkill} :
    <>[]OwnerRests(st, sk) => []<>StaleAtMost(0, st, sk)

(* Then both screens agree on the fight in the end (ViewerSettles).        *)
THEOREM ViewerAlwaysSettles ==
  LiveSpec /\ []ViewerCanStep /\ StaleGetsThrough => ViewerSettles
<1>1. ASSUME NEW st \in Free, NEW sk \in Skill \cup {NoSkill}
      PROVE  LiveSpec /\ []ViewerCanStep
               /\ (<>[]OwnerRests(st, sk) => []<>StaleAtMost(0, st, sk))
               => (<>[]OwnerRests(st, sk) => <>[](state = st /\ skill = sk))
  <2>1. LiveSpec /\ []ViewerCanStep /\ []<>StaleAtMost(0, st, sk)
           => (<>[]OwnerRests(st, sk) => <>[](state = st /\ skill = sk))
    BY ViewerTakesUp
  <2> QED BY <2>1, PTL
<1> QED
  BY <1>1 DEF StaleGetsThrough, ViewerSettles

=============================================================================
