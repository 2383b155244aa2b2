---------------------------- MODULE RemoteCombat ----------------------------
(***************************************************************************)
(* A player in a fight on another client's screen.  The player (owner) and *)
(* the client that watches (viewer) are told of the fight by the server,   *)
(* at the same time; besides, the owner reports its whole ObjectInfo in    *)
(* C_MOVE, action state and skill included (ClientPlayer.cpp:83), which    *)
(* the server relays and UGameManager::HandleMove copies onto the          *)
(* viewer's actor.  That actor has an animation of its own, PlayerAnimation, *)
(* which ends fights in its own time.  The viewer may have been shown the  *)
(* actor in the middle of a fight, with packets of the fight it never got. *)
(*                                                                         *)
(* Of the owner no more is known than ActionState says, which holds while  *)
(* its own client filters S_MOVE about it (PlayerCombat).  The server is   *)
(* assumed to relay a report unchanged; one that arrives while packets of  *)
(* the server are on their way to the owner is relayed behind them.  Both  *)
(* directions are packet channels (ClientSession).                         *)
(***************************************************************************)
EXTENDS PlayerAnimation, Sequences

CONSTANTS
  MaxPackets,        \* bound on the packets the server sends about the player
  MaxUnderWay        \* bound on what is under way to the viewer when the
                     \* server sends or the owner reports

ASSUME RemoteAssumption ==
  /\ NoSkill \notin Skill
  /\ MaxPackets \in Nat /\ MaxUnderWay \in Nat

(* The variables of ActionState and PlayerAnimation are the viewer's.      *)
VARIABLES
  ownerState, ownerSkill,   \* the owner's ObjectInfo
  toOwner, toViewer,        \* packets under way
  sent,                     \* packets the server has sent
  cut                       \* history: an input of the owner has ended a
                            \* combat state

Owner == INSTANCE ActionState WITH state <- ownerState, skill <- ownerSkill

ownerVars == <<ownerState, ownerSkill, cut>>
vars == <<actorVars, ownerVars, toOwner, toViewer, sent>>

Reports == [type : {"S_MOVE"}, state : Free \cup Combat,
            skill : Skill \cup {NoSkill}]

(* A state and a skill of the owner: out of combat there is no skill.      *)
Infos == {i \in (Free \cup Combat) \X (Skill \cup {NoSkill}) :
            i[1] \in Free => i[2] = NoSkill}

Attacks(st) == IF st \in {"ATTACK_TRY", "PARRY"} THEN 1 ELSE 0

(* HandleSpawn has given a new actor the ObjectInfo the server holds, which *)
(* may be older than the owner's.  The attack or parry it shows may start  *)
(* its montage, and so may the one the owner is in, which reaches the      *)
(* actor by a report: the viewer has missed the packets of both.  What an  *)
(* input has cut short before that is not told apart from what one cuts    *)
(* short afterwards.                                                       *)
Init ==
  /\ \E i \in Infos : ownerState = i[1] /\ ownerSkill = i[2]
  /\ \E i \in Infos : state = i[1] /\ skill = i[2]
  /\ AnimStarts
  /\ due = Attacks(state) + Attacks(ownerState)
  /\ toOwner = <<>> /\ toViewer = <<>>
  /\ sent = 0 /\ cut = FALSE

-----------------------------------------------------------------------------
(* The server tells both clients of whatever there is to tell. *)
ServerSends(p) ==
  /\ sent < MaxPackets /\ Len(toViewer) < MaxUnderWay
  /\ sent' = sent + 1
  /\ toOwner' = Append(toOwner, p)
  /\ toViewer' = Append(toViewer, p)
  /\ UNCHANGED <<actorVars, ownerVars>>

-----------------------------------------------------------------------------
(* The owner *)

OwnerHandles ==
  /\ toOwner # <<>>
  /\ Owner!Handle(Head(toOwner))
  /\ toOwner' = Tail(toOwner)
  /\ UNCHANGED <<actorVars, cut, toViewer, sent>>

OwnerAnimates ==
  /\ Owner!Finish \/ Owner!RestoreParry
  /\ UNCHANGED <<actorVars, cut, toOwner, toViewer, sent>>

OwnerInput ==
  /\ Owner!MoveInput \/ Owner!LockOffInput
  /\ cut' = (cut \/ ownerState \in Combat)
  /\ UNCHANGED <<actorVars, toOwner, toViewer, sent>>

(* AClientPlayer::MoveSync, every frame once AccTime has passed its limit  *)
(* (nothing resets it), and the server's relay.                            *)
OwnerReports ==
  /\ Len(toViewer) < MaxUnderWay
  /\ toViewer' = Append(toViewer, [type |-> "S_MOVE", state |-> ownerState,
                                   skill |-> ownerSkill])
  /\ UNCHANGED <<actorVars, ownerVars, toOwner, sent>>

-----------------------------------------------------------------------------
(* The viewer: UGameManager's handlers on the actor *)

Dequeues(type) ==
  /\ toViewer # <<>> /\ Head(toViewer).type = type
  /\ toViewer' = Tail(toViewer)
  /\ UNCHANGED <<animVars, ownerVars, toOwner, sent>>

(* The action state is not copied: only the place is. *)
HandleMoveFaultPlace ==
  /\ Dequeues("S_MOVE")
  /\ UNCHANGED <<actionVars, parryInfo, due>>

HandleMove ==
  /\ Dequeues("S_MOVE")
  /\ Handle(Head(toViewer))
  /\ UNCHANGED <<parryInfo, due>>

HandleSkill ==
  /\ Dequeues("S_SKILL")
  /\ Handle(Head(toViewer))
  /\ due' = due + 1
  /\ UNCHANGED parryInfo

HandleParry ==
  /\ Dequeues("S_PARRY")
  /\ Handle(Head(toViewer))
  /\ parryInfo' = Head(toViewer).skill
  /\ due' = due + 1

HandleOther ==
  /\ \E t \in {"S_DAMAGED", "ATTACKER", "S_SELECT_ENEMY"} : Dequeues(t)
  /\ Handle(Head(toViewer))
  /\ UNCHANGED <<parryInfo, due>>

(* The actor's animation: a Cast to AClientPlayer fails, so no camera.     *)
Update ==
  /\ UpdateOther \/ UpdateParryAtHit
  /\ UNCHANGED <<ownerVars, toOwner, toViewer, sent>>

Montage ==
  /\ SlowEffectEnd \/ MontageEnds
  /\ UNCHANGED <<ownerVars, toOwner, toViewer, sent>>

-----------------------------------------------------------------------------
OwnerActs == OwnerHandles \/ OwnerAnimates \/ OwnerInput \/ OwnerReports

ViewerHandles == HandleMove \/ HandleSkill \/ HandleParry \/ HandleOther

Next ==
  \/ \E p \in Packets : ServerSends(p)
  \/ OwnerActs \/ ViewerHandles \/ Update \/ Montage

Spec == Init /\ [][Next]_vars

(* Packets arrive, the owner's fights end (CombatEnds of PlayerCombat) and *)
(* are reported, and the viewer's engine runs.                             *)
LiveSpec ==
  /\ Spec
  /\ WF_vars(OwnerHandles) /\ WF_vars(Owner!Finish /\ OwnerAnimates)
  /\ WF_vars(OwnerReports) /\ WF_vars(ViewerHandles)
  /\ WF_vars(Update) /\ WF_vars(Montage)

-----------------------------------------------------------------------------
TypeOK ==
  /\ AnimTypeOK
  /\ ownerState \in Free \cup Combat /\ ownerSkill \in Skill \cup {NoSkill}
  /\ toOwner \in Seq(Packets) /\ toViewer \in Seq(Packets \cup Reports)
  /\ sent \in 0..MaxPackets /\ cut \in BOOLEAN

(* An actor out of combat carries no skill on this screen either, whoever  *)
(* put it there: its own animation, a packet, or a report of the owner's   *)
(* that is older or newer than both (HandleMove, GameManager.cpp:144).     *)
(* Only an input that cut the owner's fight short can break this.          *)
FreeActorIsClean == state \in Free /\ ~cut => skill = NoSkill

OwnerRests(st, sk) ==
  ownerState = st /\ ownerSkill = sk /\ toOwner = <<>>

(* However the two screens have disagreed during the fights, once the      *)
(* owner rests its actor takes up that state and skill for good: nothing   *)
(* old is left under way, and the actor's animation does not undo it.      *)
ViewerSettles ==
  \A st \in Free, sk \in Skill \cup {NoSkill} :
    <>[]OwnerRests(st, sk) => <>[](state = st /\ skill = sk)
=============================================================================
