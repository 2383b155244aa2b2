----------------------------- MODULE GameManager -----------------------------
(***************************************************************************)
(* UGameManager: which actor of the world stands for which creature of the *)
(* server, and which of them is the local player.  One action per packet   *)
(* handler; the handlers run to completion on the game thread, in the      *)
(* order the server wrote the packets (module ClientSession), so what the  *)
(* server had told the client when it wrote a packet is what the client    *)
(* knows when it handles it.                                               *)
(*                                                                         *)
(* Positions, action states and skills are left out here: of an ObjectInfo *)
(* the model keeps the creature's id.  The server is assumed to            *)
(*   - let the client enter once, and not to announce its own id before;   *)
(*   - name in S_SKILL, S_DAMAGED, S_PARRY and S_SELECT_ENEMY only         *)
(*     creatures it has announced and not withdrawn since;                 *)
(*   - put the local player's own pawn into PARRY by S_PARRY alone.        *)
(* S_SPAWN, S_SPAWNDUMMY, S_DESPAWN, S_MOVE and attacker ids are free, and *)
(* so are the action states they carry: any other creature may be listed   *)
(* or moved into PARRY whose S_PARRY this client was never sent.           *)
(***************************************************************************)
EXTENDS Integers, Functions

CONSTANTS
  Id,                \* creature ids the server uses, uint64
  Actor,             \* actors SpawnActor can make; each is made once
  Pawn,              \* the AClientPlayer the game mode gives the controller
  None,              \* nullptr
  IntHalf,           \* 2^31: int32 is -IntHalf..IntHalf-1
  Word               \* 2^64

ASSUME GameManagerAssumption ==
  /\ IntHalf \in Nat \ {0}
  /\ Word \in Nat /\ 2 * IntHalf <= Word
  /\ Id \subseteq 1..(Word - 1)
  /\ Pawn \notin Actor
  /\ None \notin Id \cup Actor \cup {Pawn}

Body == Actor \cup {Pawn}

VARIABLES
  Players,           \* TMap<uint64, APlayerBase>
  MyPlayer,          \* the local player's actor, or None
  infoId,            \* per actor: GetObjectInfo().creature_info().id()
  parryInfo,         \* per actor: the id in ParryAttackInfo, 0 before any
  Target,            \* AClientPlayer::Target of the pawn
  alive, dead,       \* actors in the world; actors Destroy()ed
  announced,         \* server: creatures the client has been told of
  entered,           \* server: the id it let the client enter with, or None
  lastMove,          \* history: the last S_MOVE of a listed creature
  blank,             \* history: actors that parried with no S_PARRY kept
  derefNull          \* a handler has dereferenced a null TMap entry

vars == <<Players, MyPlayer, infoId, parryInfo, Target, alive, dead, announced,
          entered, lastMove, blank, derefNull>>

NoMove == [id |-> 0, actor |-> None, applied |-> FALSE]

(* The level starts with the controller's pawn in place; its ObjectInfo    *)
(* has no id yet (ACreature::BeginPlay).                                   *)
Init ==
  /\ Players = [id \in {} |-> None]
  /\ MyPlayer = None
  /\ infoId = [a \in Body |-> 0]
  /\ parryInfo = [a \in Body |-> 0]
  /\ Target = None
  /\ alive = {Pawn} /\ dead = {}
  /\ announced = {} /\ entered = None
  /\ lastMove = NoMove /\ blank = {}
  /\ derefNull = FALSE

-----------------------------------------------------------------------------
(* UGameManager::IsMyPlayer(int32 Id): the id of the creature is narrowed  *)
(* to int32, then widened to uint64 again by the comparison.               *)

ToInt32(id) ==
  LET low == id % (2 * IntHalf)
  IN IF low < IntHalf THEN low ELSE low - 2 * IntHalf

ToUInt64(i) == IF i < 0 THEN i + Word ELSE i

IsMyPlayer(actor) ==
  /\ MyPlayer # None
  /\ ToUInt64(ToInt32(infoId[actor])) = infoId[MyPlayer]

Listed(id) == id \in DOMAIN Players

GetPlayer(id) == IF Listed(id) THEN Players[id] ELSE None

-----------------------------------------------------------------------------
(* S_ENTER_GAME -> HandleSpawn(info, IsMine = true): the controller's pawn *)
(* becomes MyPlayer.  Without a pawn, or with the id listed already, the   *)
(* handler returns.                                                        *)
EnterGame(id) ==
  /\ entered = None /\ id \notin announced
  /\ entered' = id /\ announced' = announced \cup {id}
  /\ IF Listed(id) \/ Pawn \notin alive
       THEN UNCHANGED <<MyPlayer, infoId, Players>>
       ELSE /\ MyPlayer' = Pawn
            /\ infoId' = [infoId EXCEPT ![Pawn] = id]
            /\ Players' = [i \in DOMAIN Players \cup {id} |->
                             IF i = id THEN Pawn ELSE Players[i]]
  /\ UNCHANGED <<parryInfo, Target, alive, dead, lastMove, blank, derefNull>>

(* Faults: definitions named ...Fault<X> are plausible mistakes in the      *)
(* definition that follows them.  No specification uses them.              *)

(* The creature spawned is taken for the local player's. *)
SpawnFaultMine(ids) ==
  LET new == ids \ DOMAIN Players
      fresh == Actor \ (alive \cup dead)
  IN /\ \E made \in Injection(new, fresh) :
          /\ alive' = alive \cup Range(made)
          /\ Players' = [i \in DOMAIN Players \cup new |->
                           IF i \in new THEN made[i] ELSE Players[i]]
          /\ infoId' = [a \in Body |->
                          IF a \in Range(made)
                            THEN CHOOSE i \in new : made[i] = a
                            ELSE infoId[a]]
          /\ MyPlayer' \in Range(made) \cup {MyPlayer}
     /\ announced' = announced \cup ids
     /\ UNCHANGED <<parryInfo, Target, dead, entered, lastMove, blank, derefNull>>

(* A creature listed already ends the handling of the whole packet. *)
SpawnFaultReturns(ids) ==
  LET fresh == Actor \ (alive \cup dead)
  IN /\ IF ids \cap DOMAIN Players # {}
          THEN UNCHANGED <<alive, Players, infoId>>
          ELSE \E made \in Injection(ids, fresh) :
                 /\ alive' = alive \cup Range(made)
                 /\ Players' = [i \in DOMAIN Players \cup ids |->
                                  IF i \in ids THEN made[i] ELSE Players[i]]
                 /\ infoId' = [a \in Body |->
                                 IF a \in Range(made)
                                   THEN CHOOSE i \in ids : made[i] = a
                                   ELSE infoId[a]]
     /\ announced' = announced \cup ids
     /\ UNCHANGED <<MyPlayer, parryInfo, Target, dead, entered, lastMove,
                    blank, derefNull>>

(* S_SPAWN and S_SPAWNDUMMY: an actor for every creature not yet listed.   *)
Spawn(ids) ==
  LET new == ids \ DOMAIN Players
      fresh == Actor \ (alive \cup dead)
  IN /\ \E made \in Injection(new, fresh) :
          /\ alive' = alive \cup Range(made)
          /\ Players' = [i \in DOMAIN Players \cup new |->
                           IF i \in new THEN made[i] ELSE Players[i]]
          /\ infoId' = [a \in Body |->
                          IF a \in Range(made)
                            THEN CHOOSE i \in new : made[i] = a
                            ELSE infoId[a]]
     /\ announced' = announced \cup ids
     /\ UNCHANGED <<MyPlayer, parryInfo, Target, dead, entered, lastMove,
                    blank, derefNull>>

(* The actor is destroyed, its entry stays in the map. *)
DespawnFaultKeeps(ids) ==
  LET gone == ids \cap DOMAIN Players
      bodies == {Players[i] : i \in gone}
  IN /\ MyPlayer' = IF \E i \in gone : infoId[Players[i]] = i
                      THEN None ELSE MyPlayer
     /\ alive' = alive \ bodies
     /\ dead' = dead \cup bodies
     /\ announced' = announced \ ids
     /\ UNCHANGED <<Players, infoId, parryInfo, Target, entered, lastMove,
                    blank, derefNull>>

(* MyPlayer is never cleared. *)
DespawnFaultMine(ids) ==
  LET gone == ids \cap DOMAIN Players
      bodies == {Players[i] : i \in gone}
  IN /\ Players' = [i \in DOMAIN Players \ gone |-> Players[i]]
     /\ alive' = alive \ bodies
     /\ dead' = dead \cup bodies
     /\ announced' = announced \ ids
     /\ UNCHANGED <<MyPlayer, infoId, parryInfo, Target, entered, lastMove,
                    blank, derefNull>>

(* S_DESPAWN: each listed creature leaves the map and its actor is         *)
(* destroyed.  HandleDespawn clears MyPlayer when the id is the one in the *)
(* actor's own ObjectInfo: that is the id it was found under, whoever the  *)
(* actor is, unless a parry has blanked it (APlayerBase::Parry below).     *)
Despawn(ids) ==
  LET gone == ids \cap DOMAIN Players
      bodies == {Players[i] : i \in gone}
  IN /\ Players' = [i \in DOMAIN Players \ gone |-> Players[i]]
     /\ MyPlayer' = IF \E i \in gone : infoId[Players[i]] = i
                      THEN None ELSE MyPlayer
     /\ alive' = alive \ bodies
     /\ dead' = dead \cup bodies
     /\ announced' = announced \ ids
     /\ UNCHANGED <<infoId, parryInfo, Target, entered, lastMove, blank, derefNull>>

(* The local player is not left out. *)
MoveFaultAny(id) ==
  /\ Listed(id)
  /\ lastMove' = [id |-> id, actor |-> Players[id], applied |-> TRUE]
  /\ infoId' = [infoId EXCEPT ![Players[id]] = id]
  /\ UNCHANGED <<Players, MyPlayer, parryInfo, Target, alive, dead, announced,
                 entered, blank, derefNull>>

(* S_MOVE: the actor is put where the server says, unless it is MyPlayer.  *)
Move(id) ==
  /\ Listed(id)
  /\ LET applied == ~IsMyPlayer(Players[id])
     IN /\ lastMove' = [id |-> id, actor |-> Players[id], applied |-> applied]
        /\ infoId' = IF applied THEN [infoId EXCEPT ![Players[id]] = id]
                                 ELSE infoId
  /\ UNCHANGED <<Players, MyPlayer, parryInfo, Target, alive, dead, announced,
                 entered, blank, derefNull>>

(* S_SKILL: ensureMsgf reports an unlisted creature, and the next line     *)
(* dereferences it all the same.                                           *)
Skill(id) ==
  /\ id \in announced
  /\ IF Listed(id)
       THEN infoId' = [infoId EXCEPT ![Players[id]] = id] /\ UNCHANGED derefNull
       ELSE derefNull' = TRUE /\ UNCHANGED infoId
  /\ UNCHANGED <<Players, MyPlayer, parryInfo, Target, alive, dead, announced,
                 entered, lastMove, blank>>

(* S_DAMAGED: OnDamaged takes the packet's ObjectInfo; the local player    *)
(* turns on its attacker when it has no target.                            *)
Damaged(id, attacker) ==
  /\ id \in announced
  /\ IF Listed(id)
       THEN /\ infoId' = [infoId EXCEPT ![Players[id]] = id]
            /\ Target' = IF Players[id] = Pawn /\ Target = None
                           THEN GetPlayer(attacker) ELSE Target
            /\ UNCHANGED derefNull
       ELSE derefNull' = TRUE /\ UNCHANGED <<infoId, Target>>
  /\ UNCHANGED <<Players, MyPlayer, parryInfo, alive, dead, announced, entered,
                 lastMove, blank>>

(* The parry is kept with its attacker's ObjectInfo. *)
ParriedFaultAttacker(id) ==
  /\ id \in announced
  /\ IF Listed(id)
       THEN /\ \E attacker \in Id :
                 parryInfo' = [parryInfo EXCEPT ![Players[id]] = attacker]
            /\ UNCHANGED derefNull
       ELSE derefNull' = TRUE /\ UNCHANGED parryInfo
  /\ UNCHANGED <<Players, MyPlayer, infoId, Target, alive, dead, announced,
                 entered, lastMove, blank>>

(* S_PARRY: the packet is kept until the parry animation plays ...         *)
Parried(id) ==
  /\ id \in announced
  /\ IF Listed(id)
       THEN parryInfo' = [parryInfo EXCEPT ![Players[id]] = id]
            /\ UNCHANGED derefNull
       ELSE derefNull' = TRUE /\ UNCHANGED parryInfo
  /\ UNCHANGED <<Players, MyPlayer, infoId, Target, alive, dead, announced,
                 entered, lastMove, blank>>

(* ... by which time other packets may have come: APlayerBase::Parry takes *)
(* over the ObjectInfo kept, whichever that is.  A creature listed or moved*)
(* into PARRY may have none kept: then it is a default one, whose id is 0. *)
Parry(actor) ==
  /\ actor \in alive
  /\ actor = Pawn => parryInfo[Pawn] # 0
  /\ infoId' = [infoId EXCEPT ![actor] = parryInfo[actor]]
  /\ blank' = IF parryInfo[actor] = 0 THEN blank \cup {actor} ELSE blank
  /\ UNCHANGED <<Players, MyPlayer, parryInfo, Target, alive, dead, announced,
                 entered, lastMove, derefNull>>

(* S_SELECT_ENEMY: a creature locks on a target; only the pawn, the one    *)
(* AClientPlayer, keeps it.                                                *)
SelectEnemy(id, target) ==
  /\ {id, target} \subseteq announced
  /\ IF Listed(id) /\ (Players[id] = Pawn => Listed(target))
       THEN /\ infoId' = [infoId EXCEPT ![Players[id]] = id]
            /\ Target' = IF Players[id] = Pawn THEN Players[target] ELSE Target
            /\ UNCHANGED derefNull
       ELSE derefNull' = TRUE /\ UNCHANGED <<infoId, Target>>
  /\ UNCHANGED <<Players, MyPlayer, parryInfo, alive, dead, announced, entered,
                 lastMove, blank>>

(* HandleSearchEnemyAction with a target: lock-on is switched off.         *)
ResetTarget ==
  /\ Pawn \in alive /\ Target # None
  /\ Target' = None
  /\ UNCHANGED <<Players, MyPlayer, infoId, parryInfo, alive, dead, announced,
                 entered, lastMove, blank, derefNull>>

-----------------------------------------------------------------------------
Next ==
  \/ \E ids \in SUBSET Id : ids # {} /\ (Spawn(ids) \/ Despawn(ids))
  \/ \E id \in Id :
       \/ EnterGame(id) \/ Move(id) \/ Skill(id) \/ Parried(id)
       \/ \E other \in Id : Damaged(id, other) \/ SelectEnemy(id, other)
  \/ \E actor \in Body : Parry(actor)
  \/ ResetTarget

Spec == Init /\ [][Next]_vars

-----------------------------------------------------------------------------
TypeOK ==
  /\ DOMAIN Players \subseteq Id
  /\ Players \in [DOMAIN Players -> Body]
  /\ MyPlayer \in {None, Pawn}
  /\ infoId \in [Body -> Id \cup {0}] /\ parryInfo \in [Body -> Id \cup {0}]
  /\ Target \in Body \cup {None}
  /\ alive \subseteq Body /\ dead \subseteq Body
  /\ announced \subseteq Id /\ entered \in Id \cup {None}
  /\ lastMove \in [id : Id \cup {0}, actor : Body \cup {None},
                   applied : BOOLEAN]
  /\ blank \subseteq Body
  /\ derefNull \in BOOLEAN

(* Every creature listed has an actor of its own in the world, and that    *)
(* actor carries the creature's id, or none at all once it has played a    *)
(* parry whose S_PARRY never came, and the local player's always carries   *)
(* it.  So no handler works on a destroyed actor, and a parry replayed     *)
(* late may blank an actor but never turns it into another creature.       *)
RegistryExact ==
  \A id \in DOMAIN Players :
    /\ Players[id] \in alive
    /\ \A other \in DOMAIN Players : Players[other] = Players[id] => other = id
    /\ \/ infoId[Players[id]] = id
       \/ infoId[Players[id]] = 0 /\ Players[id] \in blank \ {Pawn}

(* "The whole list, mine included" (GameManager.h:56): the actor MyPlayer  *)
(* points to is listed under its own id.                                   *)
MyPlayerListed ==
  MyPlayer # None =>
    infoId[MyPlayer] \in DOMAIN Players /\ Players[infoId[MyPlayer]] = MyPlayer

(* The client lists what the server has announced, whatever the order of   *)
(* entering, spawns, repeated spawns and despawns, so that no handler      *)
(* dereferences a creature it has just reported missing.                   *)
ListMatchesServer == DOMAIN Players = announced /\ ~derefNull

(* HandleMove moves the others and leaves the local player alone, as long  *)
(* as nothing has ever been despawned and the ids fit in an int32.         *)
MoveFilterExact ==
  \/ lastMove = NoMove
  \/ dead # {}
  \/ entered # None /\ entered >= IntHalf
  \/ lastMove.id >= IntHalf
  \/ lastMove.applied <=> lastMove.actor # Pawn

(* "Only About Other Player" (GameManager.cpp:141): an S_MOVE never        *)
(* repositions the local player's own pawn.                                *)
OnlyOthersMoved == lastMove.applied => lastMove.actor # Pawn

(* A target is taken from the actors in the world, never from those gone.  *)
TargetTakenAlive == [][Target' \in alive' \cup {None}]_Target
=============================================================================
