-------------------------- MODULE GameManagerProofs --------------------------
(***************************************************************************)
(* Theorems about GameManager, for any set of ids, any actors and any      *)
(* widths of the integers.                                                 *)
(***************************************************************************)
EXTENDS GameManager, FunctionTheorems, TLAPS

(* Actors are made once and destroyed once; one that is neither has no     *)
(* past.  Until the client enters, its pawn is nobody's.                   *)
Births ==
  /\ alive \cap dead = {}
  /\ \A a \in Actor \ (alive \cup dead) : parryInfo[a] = 0
  /\ entered = None =>
       /\ Pawn \in alive /\ parryInfo[Pawn] = 0
       /\ \A id \in DOMAIN Players : Players[id] # Pawn

(* A parry kept for later names the creature the actor still stands for.   *)
ParryCurrent == \A id \in DOMAIN Players : parryInfo[Players[id]] \in {0, id}

(* While nothing has been despawned, MyPlayer is the pawn that entered and *)
(* the actor last moved is still listed.                                   *)
Unbroken ==
  dead = {} =>
    /\ entered # None => MyPlayer = Pawn
    /\ MyPlayer = Pawn => infoId[Pawn] = entered
    /\ lastMove # NoMove => \E id \in DOMAIN Players :
                              Players[id] = lastMove.actor

RegistryInv ==
  /\ TypeOK
  /\ RegistryExact /\ MyPlayerListed /\ ListMatchesServer
  /\ Births /\ ParryCurrent
  /\ Unbroken /\ MoveFilterExact

-----------------------------------------------------------------------------
(* Narrowing to int32 and widening again keeps the ids below 2^31.         *)
LEMMA NarrowKeepsSmall ==
  ASSUME NEW x \in Nat, x < IntHalf PROVE ToUInt64(ToInt32(x)) = x
<1>1. IntHalf \in Nat /\ 2 * IntHalf \in Nat /\ x < 2 * IntHalf /\ 2 * IntHalf > 0
  BY GameManagerAssumption
<1>2. x % (2 * IntHalf) = x
  <2> DEFINE m == 2 * IntHalf
  <2>1. m \in Nat /\ m > 0 /\ x < m
    BY <1>1
  <2> HIDE DEF m
  <2>2. x % m = x
    BY <2>1
  <2> QED BY <2>2 DEF m
<1> QED BY <1>1, <1>2 DEF ToInt32, ToUInt64

(* IsMyPlayer singles out MyPlayer among actors whose ids fit an int32.    *)
LEMMA IsMyPlayerExact ==
  ASSUME NEW a \in Body, MyPlayer # None, infoId[a] \in Nat,
         infoId[a] < IntHalf
  PROVE  IsMyPlayer(a) <=> infoId[a] = infoId[MyPlayer]
BY NarrowKeepsSmall DEF IsMyPlayer

(* No two creatures share an actor. *)
LEMMA ActorsDiffer ==
  ASSUME RegistryInv, NEW i \in DOMAIN Players, NEW j \in DOMAIN Players,
         Players[i] = Players[j]
  PROVE  i = j
BY DEF RegistryInv, RegistryExact

(* The level starts with an empty registry. *)
LEMMA RegistryInit == Init => RegistryInv
<1> SUFFICES ASSUME Init PROVE RegistryInv
  OBVIOUS
<1>1. DOMAIN Players = {} /\ Pawn # None
  BY GameManagerAssumption DEF Init
<1>2. TypeOK
  BY <1>1 DEF Init, TypeOK, Body, NoMove
<1>3. RegistryExact /\ MyPlayerListed /\ ListMatchesServer
  BY <1>1 DEF Init, RegistryExact, MyPlayerListed, ListMatchesServer
<1>4. Births /\ ParryCurrent
  BY <1>1 DEF Init, Births, ParryCurrent, Body
<1>5. Unbroken /\ MoveFilterExact
  BY <1>1 DEF Init, Unbroken, MoveFilterExact
<1> QED BY <1>2, <1>3, <1>4, <1>5 DEF RegistryInv

-----------------------------------------------------------------------------
(* Steps that leave the list alone *)

RegistrySame == UNCHANGED <<Players, MyPlayer, parryInfo, alive, dead,
                            announced, entered, derefNull>>

(* Listed actors keep their id, take that of their creature, or are blanked*)
(* by a parry.                                                             *)
IdsKept ==
  /\ blank \subseteq blank'
  /\ \A id \in DOMAIN Players :
       \/ infoId'[Players[id]] \in {infoId[Players[id]], id}
       \/ infoId'[Players[id]] = 0 /\ Players[id] \in blank' \ {Pawn}

(* A step that keeps the list and the ids keeps the registry exact. *)
LEMMA SameStep ==
  ASSUME RegistryInv, RegistrySame, IdsKept, TypeOK'
  PROVE  /\ RegistryExact' /\ MyPlayerListed' /\ ListMatchesServer'
         /\ Births' /\ ParryCurrent'
         /\ lastMove' = lastMove => RegistryInv'
<1>1. RegistryExact'
  BY DEF RegistryInv, RegistrySame, IdsKept, RegistryExact
<1>2. MyPlayer # None => infoId'[MyPlayer] = infoId[MyPlayer]
  <2> SUFFICES ASSUME MyPlayer # None PROVE infoId'[MyPlayer] = infoId[MyPlayer]
    OBVIOUS
  <2> DEFINE mine == infoId[MyPlayer]
  <2>1. mine \in DOMAIN Players /\ Players[mine] = Pawn /\ MyPlayer = Pawn
    BY DEF RegistryInv, MyPlayerListed, TypeOK
  <2> QED BY <2>1 DEF IdsKept
<1>3. MyPlayerListed' /\ ListMatchesServer'
  BY <1>2 DEF RegistryInv, RegistrySame, MyPlayerListed, ListMatchesServer
<1>4. Births' /\ ParryCurrent'
  BY DEF RegistryInv, RegistrySame, Births, ParryCurrent
<1>5. ASSUME lastMove' = lastMove PROVE Unbroken' /\ MoveFilterExact'
  <2>1. Pawn # None
    BY GameManagerAssumption
  <2> QED BY <1>2, <1>5, <2>1
          DEF RegistryInv, RegistrySame, Unbroken, MoveFilterExact
<1> QED BY <1>1, <1>3, <1>4, <1>5 DEF RegistryInv

(* An actor takes over the ObjectInfo of a packet about its creature. *)
LEMMA TakesOwnId ==
  ASSUME RegistryInv, NEW id \in DOMAIN Players, blank' = blank,
         infoId' = [infoId EXCEPT ![Players[id]] = id]
  PROVE  IdsKept /\ infoId' \in [Body -> Id \cup {0}]
<1>1. id \in Id /\ Players[id] \in Body /\ infoId \in [Body -> Id \cup {0}]
  BY DEF RegistryInv, TypeOK
<1>2. \A other \in DOMAIN Players :
        infoId'[Players[other]] \in {infoId[Players[other]], other}
  BY <1>1, ActorsDiffer DEF RegistryInv, TypeOK
<1> QED BY <1>1, <1>2 DEF IdsKept

(* The packets about a listed creature give its actor no other id. *)
LEMMA PacketStep ==
  ASSUME RegistryInv, NEW id \in Id, NEW other \in Id,
         \/ Skill(id) \/ Damaged(id, other) \/ SelectEnemy(id, other)
  PROVE  /\ RegistrySame /\ IdsKept /\ TypeOK' /\ lastMove' = lastMove
         /\ Target' = Target \/ Target' \in alive \cup {None}
<1>1. id \in DOMAIN Players
  BY DEF Skill, Damaged, SelectEnemy, RegistryInv, ListMatchesServer
<1>2. \A p \in DOMAIN Players : Players[p] \in alive
  BY DEF RegistryInv, RegistryExact
<1>3. /\ RegistrySame /\ lastMove' = lastMove /\ blank' = blank
      /\ infoId' = [infoId EXCEPT ![Players[id]] = id]
      /\ Target' = Target \/ Target' \in alive \cup {None}
  <2>1. CASE Skill(id)
    BY <1>1, <2>1 DEF Skill, Listed, RegistrySame
  <2>2. CASE Damaged(id, other)
    BY <1>1, <1>2, <2>2 DEF Damaged, Listed, GetPlayer, RegistrySame
  <2>3. CASE SelectEnemy(id, other)
    <3>1. other \in DOMAIN Players
      BY <2>3 DEF SelectEnemy, RegistryInv, ListMatchesServer
    <3> QED BY <1>1, <1>2, <2>3, <3>1 DEF SelectEnemy, Listed, RegistrySame
  <2> QED BY <2>1, <2>2, <2>3
<1>4. IdsKept /\ infoId' \in [Body -> Id \cup {0}]
  BY <1>1, <1>3, TakesOwnId
<1>5. TypeOK'
  BY <1>3, <1>4 DEF RegistryInv, TypeOK, RegistrySame
<1> QED BY <1>3, <1>4, <1>5

(* A parry replayed after other packets gives it none either, unless there *)
(* was no S_PARRY to replay: then the actor is blanked.                    *)
LEMMA ParryStep ==
  ASSUME RegistryInv, NEW actor \in Body, Parry(actor)
  PROVE  /\ RegistrySame /\ IdsKept /\ TypeOK'
         /\ UNCHANGED <<lastMove, Target>>
<1>1. /\ infoId' = [infoId EXCEPT ![actor] = parryInfo[actor]]
      /\ blank' = IF parryInfo[actor] = 0 THEN blank \cup {actor} ELSE blank
      /\ actor = Pawn => parryInfo[Pawn] # 0
      /\ RegistrySame /\ UNCHANGED <<lastMove, Target>>
  BY DEF Parry, RegistrySame
<1>2. IdsKept
  <2>1. ASSUME NEW id \in DOMAIN Players, Players[id] = actor
        PROVE  \/ infoId'[actor] = id
               \/ infoId'[actor] = 0 /\ actor \in blank' \ {Pawn}
    BY <1>1, <2>1 DEF RegistryInv, ParryCurrent, TypeOK
  <2>2. ASSUME NEW id \in DOMAIN Players, Players[id] # actor
        PROVE  infoId'[Players[id]] = infoId[Players[id]]
    BY <1>1, <2>2 DEF RegistryInv, TypeOK
  <2> QED BY <1>1, <2>1, <2>2 DEF IdsKept
<1>3. TypeOK'
  BY <1>1 DEF RegistryInv, TypeOK, RegistrySame
<1> QED BY <1>1, <1>2, <1>3

(* Keeping a parry for later names the creature the actor stands for. *)
LEMMA ParriedStep ==
  ASSUME RegistryInv, NEW id \in Id, Parried(id)
  PROVE  RegistryInv' /\ Target' = Target
<1> DEFINE p == Players[id]
<1>1. id \in DOMAIN Players /\ p \in Body /\ p \in alive
  BY DEF Parried, RegistryInv, ListMatchesServer, RegistryExact, TypeOK
<1>2. /\ parryInfo' = [parryInfo EXCEPT ![p] = id]
      /\ UNCHANGED <<Players, MyPlayer, infoId, Target, alive, dead, announced,
                     entered, lastMove, blank, derefNull>>
  BY <1>1 DEF Parried, Listed
<1>3. TypeOK'
  BY <1>2 DEF RegistryInv, TypeOK
<1>4. ParryCurrent'
  BY <1>1, <1>2, ActorsDiffer DEF RegistryInv, ParryCurrent, TypeOK
<1>5. Births'
  BY <1>1, <1>2 DEF RegistryInv, Births, TypeOK
<1>6. /\ RegistryExact' /\ MyPlayerListed' /\ ListMatchesServer' /\ Unbroken'
      /\ MoveFilterExact'
  BY <1>2 DEF RegistryInv, RegistryExact, MyPlayerListed, ListMatchesServer,
              Unbroken, MoveFilterExact
<1> QED BY <1>2, <1>3, <1>4, <1>5, <1>6 DEF RegistryInv

(* HandleMove keeps the registry exact and leaves the local player out.    *)
LEMMA MoveStep ==
  ASSUME RegistryInv, NEW id \in Id, Move(id)
  PROVE  RegistryInv' /\ Target' = Target
<1> DEFINE p == Players[id]
<1>1. id \in DOMAIN Players /\ p \in Body /\ infoId[p] \in {0, id}
  BY DEF Move, RegistryInv, Listed, RegistryExact, TypeOK
<1>2. /\ lastMove' = [id |-> id, actor |-> p, applied |-> ~IsMyPlayer(p)]
      /\ infoId' = IF IsMyPlayer(p) THEN infoId ELSE [infoId EXCEPT ![p] = id]
      /\ RegistrySame /\ Target' = Target /\ blank' = blank
  BY DEF Move, RegistrySame
<1>3. IdsKept /\ infoId' \in [Body -> Id \cup {0}]
  <2>1. CASE infoId' = infoId
    BY <1>2, <2>1 DEF IdsKept, RegistryInv, TypeOK
  <2>2. CASE infoId' = [infoId EXCEPT ![p] = id]
    BY <1>1, <1>2, <2>2, TakesOwnId
  <2> QED BY <1>2, <2>1, <2>2
<1>4. TypeOK'
  BY <1>1, <1>2, <1>3 DEF RegistryInv, TypeOK, RegistrySame
<1>5. /\ RegistryExact' /\ MyPlayerListed' /\ ListMatchesServer' /\ Births'
      /\ ParryCurrent'
  BY <1>2, <1>3, <1>4, SameStep
<1>6. Unbroken'
  <2>1. lastMove' # NoMove => Players'[id] = lastMove'.actor /\ id \in DOMAIN Players'
    BY <1>1, <1>2 DEF RegistrySame
  <2>2. MyPlayer = Pawn => infoId'[Pawn] = infoId[Pawn]
    <3> SUFFICES ASSUME MyPlayer = Pawn PROVE infoId'[Pawn] = infoId[Pawn]
      OBVIOUS
    <3>1. Pawn # None
      BY GameManagerAssumption
    <3>2. infoId[Pawn] \in DOMAIN Players /\ Players[infoId[Pawn]] = Pawn
      BY <3>1 DEF RegistryInv, MyPlayerListed
    <3> QED BY <1>3, <3>2 DEF IdsKept
  <2> QED BY <1>2, <2>1, <2>2 DEF RegistryInv, Unbroken, RegistrySame
<1>7. MoveFilterExact'
  <2> SUFFICES ASSUME dead = {}, ~(entered # None /\ entered >= IntHalf),
                      ~(id >= IntHalf)
               PROVE  ~IsMyPlayer(p) <=> p # Pawn
    BY <1>1, <1>2 DEF MoveFilterExact, RegistrySame
  <2>1. infoId[p] \in Nat /\ infoId[p] < IntHalf
    BY <1>1, GameManagerAssumption
  <2>2. CASE p = Pawn
    <3>1. entered # None
      BY <1>1, <2>2 DEF RegistryInv, Births
    <3>2. MyPlayer = Pawn /\ Pawn # None
      BY <3>1, GameManagerAssumption DEF RegistryInv, Unbroken
    <3> QED BY <1>1, <2>1, <2>2, <3>2, IsMyPlayerExact
  <2>3. CASE p # Pawn
    <3> SUFFICES ASSUME MyPlayer # None, infoId[p] = infoId[MyPlayer]
                 PROVE  FALSE
      BY <1>1, <2>1, <2>3, IsMyPlayerExact DEF IsMyPlayer
    <3>1. /\ MyPlayer = Pawn /\ Players[infoId[MyPlayer]] = MyPlayer
          /\ infoId[MyPlayer] \in Id
      BY DEF RegistryInv, TypeOK, MyPlayerListed
    <3>2. infoId[MyPlayer] # 0
      BY <3>1, GameManagerAssumption
    <3> QED BY <1>1, <2>3, <3>1, <3>2
  <2> QED BY <2>2, <2>3
<1> QED BY <1>2, <1>4, <1>5, <1>6, <1>7 DEF RegistryInv

(* HandleSpawn for the local player: the pawn takes the id it enters with. *)
LEMMA EnterStep ==
  ASSUME RegistryInv, NEW id \in Id, EnterGame(id)
  PROVE  RegistryInv' /\ Target' = Target
<1>1. /\ entered = None /\ ~Listed(id) /\ Pawn \in alive /\ Pawn \in Body
      /\ parryInfo[Pawn] = 0 /\ Pawn # None
      /\ \A i \in DOMAIN Players : Players[i] # Pawn
  BY GameManagerAssumption
     DEF EnterGame, RegistryInv, ListMatchesServer, Listed, Births, Body
<1>2. /\ entered' = id /\ announced' = announced \cup {id}
      /\ MyPlayer' = Pawn
      /\ infoId' = [infoId EXCEPT ![Pawn] = id]
      /\ Players' = [i \in DOMAIN Players \cup {id} |->
                       IF i = id THEN Pawn ELSE Players[i]]
      /\ UNCHANGED <<parryInfo, Target, alive, dead, lastMove, blank, derefNull>>
  BY <1>1 DEF EnterGame
<1>3. /\ DOMAIN Players' = DOMAIN Players \cup {id}
      /\ Players'[id] = Pawn
      /\ \A i \in DOMAIN Players : Players'[i] = Players[i]
  BY <1>1, <1>2 DEF Listed
<1>4. /\ infoId'[Pawn] = id
      /\ \A a \in Body \ {Pawn} : infoId'[a] = infoId[a]
  BY <1>1, <1>2 DEF RegistryInv, TypeOK
<1>5. TypeOK'
  BY <1>1, <1>2, <1>3 DEF RegistryInv, TypeOK
<1>6. RegistryExact'
  BY <1>1, <1>2, <1>3, <1>4 DEF RegistryInv, RegistryExact, TypeOK, Listed
<1>7. MyPlayerListed' /\ ListMatchesServer'
  BY <1>2, <1>3, <1>4 DEF RegistryInv, MyPlayerListed, ListMatchesServer
<1>8. Births' /\ ParryCurrent'
  <2>1. id # None
    BY GameManagerAssumption
  <2>2. ParryCurrent'
    BY <1>1, <1>2, <1>3 DEF RegistryInv, ParryCurrent, Listed
  <2> QED BY <1>2, <2>1, <2>2 DEF RegistryInv, Births
<1>9. Unbroken'
  BY <1>2, <1>3, <1>4 DEF RegistryInv, Unbroken
<1>10. MoveFilterExact'
  BY <1>1, <1>2 DEF RegistryInv, MoveFilterExact, Unbroken
<1> QED BY <1>2, <1>5, <1>6, <1>7, <1>8, <1>9, <1>10 DEF RegistryInv

(* A despawn takes creature and actor together; no other entry notices.    *)
LEMMA DespawnStep ==
  ASSUME RegistryInv, NEW ids \in SUBSET Id, Despawn(ids)
  PROVE  RegistryInv' /\ Target' = Target
<1> DEFINE gone == ids \cap DOMAIN Players
           bodies == {Players[i] : i \in gone}
<1>1. /\ Players' = [i \in DOMAIN Players \ gone |-> Players[i]]
      /\ MyPlayer' = IF \E i \in gone : infoId[Players[i]] = i
                       THEN None ELSE MyPlayer
      /\ alive' = alive \ bodies /\ dead' = dead \cup bodies
      /\ announced' = announced \ ids
      /\ UNCHANGED <<infoId, parryInfo, Target, entered, lastMove, blank,
                     derefNull>>
  BY DEF Despawn
<1>2. /\ DOMAIN Players' = DOMAIN Players \ ids
      /\ \A i \in DOMAIN Players' : Players'[i] = Players[i]
  BY <1>1
<1>3. bodies \subseteq Body
  BY DEF RegistryInv, TypeOK
<1>4. \A i \in DOMAIN Players \ ids : Players[i] \notin bodies
  BY ActorsDiffer
<1>5. /\ gone = {} => bodies = {} /\ MyPlayer' = MyPlayer
      /\ gone # {} => bodies # {}
      /\ MyPlayer' \in {None, MyPlayer}
      /\ MyPlayer' # None => MyPlayer = Pawn /\ infoId[Pawn] \notin gone
  <2>1. ASSUME MyPlayer' # None PROVE MyPlayer = Pawn /\ infoId[Pawn] \notin gone
    BY <1>1, <2>1 DEF RegistryInv, TypeOK, MyPlayerListed
  <2> QED BY <1>1, <2>1
<1>6. TypeOK'
  <2>1. MyPlayer' \in {None, Pawn}
    BY <1>5 DEF RegistryInv, TypeOK
  <2>2. Players' \in [DOMAIN Players' -> Body] /\ DOMAIN Players' \subseteq Id
    BY <1>1 DEF RegistryInv, TypeOK
  <2> QED BY <1>1, <1>3, <2>1, <2>2 DEF RegistryInv, TypeOK
<1>7. RegistryExact'
  BY <1>1, <1>2, <1>4 DEF RegistryInv, RegistryExact
<1>8. ListMatchesServer'
  BY <1>1, <1>2 DEF RegistryInv, ListMatchesServer
<1>9. CASE gone = {}
  <2>1. /\ UNCHANGED <<MyPlayer, infoId, parryInfo, Target, entered, lastMove,
                       alive, dead>>
        /\ DOMAIN Players' = DOMAIN Players
    BY <1>1, <1>2, <1>5, <1>9
  <2>2. /\ MyPlayerListed' /\ Births' /\ ParryCurrent' /\ Unbroken'
        /\ MoveFilterExact'
    BY <1>2, <2>1 DEF RegistryInv, MyPlayerListed, Births, ParryCurrent,
                      Unbroken, MoveFilterExact
  <2> QED BY <1>1, <1>6, <1>7, <1>8, <2>2 DEF RegistryInv
<1>10. CASE gone # {}
  <2>1. dead' # {}
    BY <1>1, <1>5, <1>10
  <2>2. Unbroken' /\ MoveFilterExact'
    BY <2>1 DEF Unbroken, MoveFilterExact
  <2>3. MyPlayerListed'
    BY <1>1, <1>2, <1>5 DEF RegistryInv, MyPlayerListed
  <2>4. ParryCurrent'
    BY <1>1, <1>2 DEF RegistryInv, ParryCurrent
  <2>5. Births'
    <3>1. alive' \cap dead' = {}
      BY <1>1 DEF RegistryInv, Births
    <3>2. alive' \cup dead' = alive \cup dead
      BY <1>1 DEF RegistryInv, RegistryExact
    <3>3. entered = None => Pawn \notin bodies
      BY DEF RegistryInv, Births
    <3> QED BY <1>1, <1>2, <3>1, <3>2, <3>3 DEF RegistryInv, Births
  <2> QED BY <1>1, <1>6, <1>7, <1>8, <2>2, <2>3, <2>4, <2>5 DEF RegistryInv
<1> QED BY <1>9, <1>10

(* HandleSpawn for the others: each creature not listed gets an actor of   *)
(* its own, which then carries its id.                                     *)
LEMMA SpawnStep ==
  ASSUME RegistryInv, NEW ids \in SUBSET Id, Spawn(ids)
  PROVE  RegistryInv' /\ Target' = Target
<1> DEFINE new == ids \ DOMAIN Players
           fresh == Actor \ (alive \cup dead)
<1>1. PICK made \in Injection(new, fresh) :
        /\ alive' = alive \cup Range(made)
        /\ Players' = [i \in DOMAIN Players \cup new |->
                         IF i \in new THEN made[i] ELSE Players[i]]
        /\ infoId' = [a \in Body |->
                        IF a \in Range(made)
                          THEN CHOOSE i \in new : made[i] = a
                          ELSE infoId[a]]
  BY DEF Spawn
<1>2. /\ announced' = announced \cup ids
      /\ UNCHANGED <<MyPlayer, parryInfo, Target, dead, entered, lastMove,
                     blank, derefNull>>
  BY DEF Spawn
<1>3. /\ made \in [new -> fresh]
      /\ \A i, j \in new : made[i] = made[j] => i = j
  BY Fun_InjectionProperties DEF Injection, IsInjective
<1>4. /\ Range(made) \subseteq fresh
      /\ \A a \in Range(made) : \E i \in new : made[i] = a
      /\ \A i \in new : made[i] \in Range(made)
  BY <1>3 DEF Range
<1>5. \A a \in Range(made) : /\ infoId'[a] \in new /\ made[infoId'[a]] = a
  BY <1>1, <1>4 DEF Body
<1>6. \A a \in Body \ Range(made) : infoId'[a] = infoId[a]
  BY <1>1
<1>7. /\ DOMAIN Players' = DOMAIN Players \cup ids
      /\ \A i \in DOMAIN Players : Players'[i] = Players[i]
      /\ \A i \in new : Players'[i] = made[i]
  BY <1>1
<1>8. \A a \in Range(made) : a \notin alive /\ a \notin dead /\ a # Pawn
  BY <1>4, GameManagerAssumption
<1>9. TypeOK'
  <2>1. infoId' \in [Body -> Id \cup {0}]
    BY <1>1, <1>5, <1>6 DEF RegistryInv, TypeOK
  <2>2. Players' \in [DOMAIN Players' -> Body] /\ DOMAIN Players' \subseteq Id
    BY <1>1, <1>3 DEF RegistryInv, TypeOK, Body
  <2>3. alive' \subseteq Body
    BY <1>1, <1>4 DEF RegistryInv, TypeOK, Body
  <2> QED BY <1>2, <2>1, <2>2, <2>3 DEF RegistryInv, TypeOK
<1>10. RegistryExact'
  <2>1. ASSUME NEW i \in new
        PROVE  /\ Players'[i] \in alive' /\ Players'[i] \in Range(made)
               /\ infoId'[Players'[i]] = i
    BY <1>1, <1>3, <1>4, <1>5, <1>7
  <2>2. ASSUME NEW i \in DOMAIN Players
        PROVE  /\ Players'[i] \in alive' /\ Players'[i] \notin Range(made)
               /\ infoId'[Players'[i]] = infoId[Players[i]]
    BY <1>1, <1>6, <1>7, <1>8 DEF RegistryInv, RegistryExact, TypeOK
  <2>3. \A i, j \in DOMAIN Players' : Players'[i] = Players'[j] => i = j
    BY <1>3, <1>7, <2>1, <2>2, ActorsDiffer
  <2>4. \A i \in DOMAIN Players :
          \/ infoId[Players[i]] = i
          \/ infoId[Players[i]] = 0 /\ Players[i] \in blank \ {Pawn}
    BY DEF RegistryInv, RegistryExact
  <2> QED BY <1>2, <1>7, <2>1, <2>2, <2>3, <2>4 DEF RegistryExact
<1>11. Pawn \in Body /\ Pawn \notin Range(made) /\ infoId'[Pawn] = infoId[Pawn]
  BY <1>6, <1>8 DEF Body
<1>12. MyPlayerListed' /\ ListMatchesServer'
  BY <1>2, <1>7, <1>11 DEF RegistryInv, MyPlayerListed, ListMatchesServer, TypeOK
<1>13. Births'
  <2>1. entered = None => \A i \in DOMAIN Players' : Players'[i] # Pawn
    BY <1>4, <1>7, <1>11 DEF RegistryInv, Births
  <2>2. alive' \cap dead' = {} /\ (entered = None => Pawn \in alive')
    BY <1>1, <1>2, <1>8 DEF RegistryInv, Births
  <2> QED BY <1>1, <1>2, <2>1, <2>2 DEF RegistryInv, Births
<1>14. ParryCurrent'
  BY <1>2, <1>3, <1>7 DEF RegistryInv, ParryCurrent, Births
<1>15. Unbroken'
  BY <1>2, <1>7, <1>11 DEF RegistryInv, Unbroken
<1>16. MoveFilterExact'
  BY <1>2 DEF RegistryInv, MoveFilterExact, NoMove
<1> QED
  BY <1>2, <1>9, <1>10, <1>12, <1>13, <1>14, <1>15, <1>16 DEF RegistryInv

-----------------------------------------------------------------------------
(* The inductive invariant *)

(* Every packet keeps the registry exact, and a target that changes is     *)
(* taken from the actors alive.                                            *)
LEMMA RegistryStep ==
  ASSUME RegistryInv, [Next]_vars
  PROVE  /\ RegistryInv'
         /\ Target' = Target \/ Target' \in alive' \cup {None}
<1>1. ASSUME NEW id \in Id, NEW other \in Id,
             \/ Skill(id) \/ Damaged(id, other) \/ SelectEnemy(id, other)
      PROVE  /\ RegistryInv'
             /\ Target' = Target \/ Target' \in alive' \cup {None}
  <2>1. /\ RegistrySame /\ IdsKept /\ TypeOK' /\ lastMove' = lastMove
        /\ Target' = Target \/ Target' \in alive \cup {None}
    BY <1>1, PacketStep
  <2> QED BY <2>1, SameStep DEF RegistrySame
<1>2. ASSUME NEW actor \in Body, Parry(actor)
      PROVE  RegistryInv' /\ Target' = Target
  <2>1. /\ RegistrySame /\ IdsKept /\ TypeOK'
        /\ UNCHANGED <<lastMove, Target>>
    BY <1>2, ParryStep
  <2> QED BY <2>1, SameStep
<1>3. ASSUME ResetTarget \/ UNCHANGED vars
      PROVE  RegistryInv' /\ Target' \in {None, Target}
  <2>1. /\ RegistrySame /\ UNCHANGED <<infoId, blank, lastMove>>
        /\ Target' \in {None, Target}
    BY <1>3 DEF ResetTarget, vars, RegistrySame
  <2>2. TypeOK' /\ IdsKept
    BY <2>1 DEF RegistryInv, TypeOK, RegistrySame, IdsKept
  <2> QED BY <2>1, <2>2, SameStep
<1>4. ASSUME NEW ids \in SUBSET Id, Spawn(ids) \/ Despawn(ids)
      PROVE  RegistryInv' /\ Target' = Target
  BY <1>4, SpawnStep, DespawnStep
<1>5. ASSUME NEW id \in Id, EnterGame(id) \/ Move(id) \/ Parried(id)
      PROVE  RegistryInv' /\ Target' = Target
  BY <1>5, EnterStep, MoveStep, ParriedStep
<1> QED
  BY <1>1, <1>2, <1>3, <1>4, <1>5 DEF Next

(* Every variable keeps its type. *)
THEOREM RegistryTypeCorrect == Spec => []TypeOK
<1>1. RegistryInv /\ [Next]_vars => RegistryInv' BY RegistryStep
<1>2. RegistryInv => TypeOK BY DEF RegistryInv
<1> QED BY RegistryInit, <1>1, <1>2, PTL DEF Spec

(* For any number of creatures: each one listed has an actor of its own in *)
(* the world, carrying its id or, after a parry whose S_PARRY never came,  *)
(* none; the local player's always carries its id; and no handler works on *)
(* a destroyed actor.                                                      *)
THEOREM RegistryAlwaysExact == Spec => []RegistryExact
<1>1. RegistryInv /\ [Next]_vars => RegistryInv' BY RegistryStep
<1>2. RegistryInv => RegistryExact BY DEF RegistryInv
<1> QED BY RegistryInit, <1>1, <1>2, PTL DEF Spec

(* MyPlayer points to nothing or to the actor listed under its own id.     *)
THEOREM MyPlayerAlwaysListed == Spec => []MyPlayerListed
<1>1. RegistryInv /\ [Next]_vars => RegistryInv' BY RegistryStep
<1>2. RegistryInv => MyPlayerListed BY DEF RegistryInv
<1> QED BY RegistryInit, <1>1, <1>2, PTL DEF Spec

(* The client lists exactly what the server has announced; no handler      *)
(* dereferences a creature that is not listed.                             *)
THEOREM ListAlwaysMatchesServer == Spec => []ListMatchesServer
<1>1. RegistryInv /\ [Next]_vars => RegistryInv' BY RegistryStep
<1>2. RegistryInv => ListMatchesServer BY DEF RegistryInv
<1> QED BY RegistryInit, <1>1, <1>2, PTL DEF Spec

(* Until something is despawned, and for ids below 2^31, HandleMove moves  *)
(* everybody but the local player.                                         *)
THEOREM MoveFilterAlwaysExact == Spec => []MoveFilterExact
<1>1. RegistryInv /\ [Next]_vars => RegistryInv' BY RegistryStep
<1>2. RegistryInv => MoveFilterExact BY DEF RegistryInv
<1> QED BY RegistryInit, <1>1, <1>2, PTL DEF Spec

(* No step sets the pawn's target to an actor that is gone. *)
THEOREM TargetsTakenAlive == Spec => TargetTakenAlive
<1>1. RegistryInv /\ [Next]_vars => RegistryInv' BY RegistryStep
<1>2. RegistryInv /\ [Next]_vars => [Target' \in alive' \cup {None}]_Target
  BY RegistryStep
<1> QED BY RegistryInit, <1>1, <1>2, PTL DEF Spec, TargetTakenAlive
=============================================================================
