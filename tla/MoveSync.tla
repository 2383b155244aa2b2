------------------------------ MODULE MoveSync ------------------------------
(***************************************************************************)
(* Movement of one player on two screens: its owner's, where an            *)
(* AClientPlayer moves by keys and reports itself in C_MOVE, and another   *)
(* client's, where an APlayerBase follows S_MOVE and guesses in between.   *)
(*                                                                         *)
(* Places are the points of a line with a wall at each end; turning is     *)
(* left out.  A frame of the game thread is one action: the controller's   *)
(* input, then the actor's Tick, then the movement component.  The server  *)
(* is assumed to relay the C_MOVE of a player in the game unchanged and in *)
(* order, and to ignore those sent before, which carry no id.              *)
(*                                                                         *)
(* The movement component is Unreal's: nothing in the repository sets its  *)
(* velocity, and SetActorLocation does not clear it.  Of the velocity the  *)
(* model keeps the glide: to which side, and over how many places at most, *)
(* the actor still moves when its input ends.  An input turns the glide its*)
(* way, without one it runs down, and in a frame the actor moves on by a   *)
(* place or stays.  A montage may carry its actor along by a place a frame *)
(* and leave it with any glide.                                            *)
(*                                                                         *)
(* S_MOVE about the local player is left out: HandleMove ignores it until a*)
(* first S_DESPAWN has cleared MyPlayer (OnlyOthersMoved of GameManager);  *)
(* from then on it puts the owner's own pawn back to an earlier place.     *)
(***************************************************************************)
EXTENDS Integers, Sequences

CONSTANTS
  MaxPos,            \* the places are 0..MaxPos
  SpawnPos,          \* where the server lets the player enter
  Period,            \* frames in SendPacketTime
  Braking,           \* places an actor may still cover without input
  MaxInFlight        \* bound: reports between the two clients

ASSUME MoveAssumption ==
  /\ MaxPos \in Nat /\ SpawnPos \in 0..MaxPos
  /\ Period \in Nat \ {0}
  /\ Braking \in Nat
  /\ MaxInFlight \in Nat \ {0}

Place == 0..MaxPos
Dir   == {-1, 0, 1}
Glide == -Braking..Braking
State == {"move", "fight"}      \* the owner's: is IsMoveState() true or not

VARIABLES
  \* the owner
  entered,           \* bIsMyPlayer: S_ENTER_GAME has been handled
  held,              \* the move key held down, 0 for none
  pos, glide, MoveDir, state,
  montage,           \* does a montage play
  bForceSendMovePkt,
  AccTime,           \* in frames, counted up to Period
  \* between the clients
  inFlight,          \* reports, oldest first: place and direction
  \* the other client's actor
  rPos, rGlide, rMoveDir, rMontage,
  DestnInfo,         \* its place
  carried            \* history: a montage has moved it since it was last put
                     \* where S_MOVE said

ownerVars  == <<entered, held, pos, glide, MoveDir, state, montage,
                bForceSendMovePkt, AccTime>>
remoteVars == <<rPos, rGlide, rMoveDir, rMontage, DestnInfo, carried>>
vars == <<ownerVars, inFlight, remoteVars>>

Init ==
  /\ entered = FALSE /\ held = 0
  /\ pos \in Place /\ glide = 0
  /\ MoveDir = 0 /\ state = "move" /\ montage = FALSE
  /\ bForceSendMovePkt = FALSE /\ AccTime = 0
  /\ inFlight = <<>>
  /\ rPos = SpawnPos /\ rGlide = 0
  /\ rMoveDir = 0 /\ rMontage = FALSE
  /\ DestnInfo = SpawnPos /\ carried = FALSE

(* The world's walls. *)
Walled(p) == IF p < 0 THEN 0 ELSE IF p > MaxPos THEN MaxPos ELSE p

Abs(x)  == IF x < 0 THEN -x ELSE x
Sign(x) == IF x < 0 THEN -1 ELSE IF x > 0 THEN 1 ELSE 0

(* The glide after a frame with input, and after one without. *)
Driven(g, dir) == {h \in Glide : dir * g < dir * h \/ dir * h = Braking}
Coasted(g)     ==
  {h \in Glide : h = 0 \/ (Sign(h) = Sign(g) /\ Abs(h) < Abs(g))}

(* Place and glide one frame after p and g: a montage's root motion        *)
(* overrides the input.                                                    *)
Moved(p, g, dir, carrying) ==
  IF carrying THEN {Walled(p + d) : d \in Dir} \X Glide
  ELSE IF dir # 0
    THEN {p, Walled(p + dir), Walled(p + Sign(g))} \X Driven(g, dir)
    ELSE {p, Walled(p + Sign(g))} \X Coasted(g)

-----------------------------------------------------------------------------
(* The owner's client *)

(* S_ENTER_GAME: HandleSpawn for the local player. *)
EnterGame ==
  /\ ~entered
  /\ entered' = TRUE
  /\ pos' = SpawnPos /\ state' \in State
  /\ UNCHANGED <<held, glide, MoveDir, montage, bForceSendMovePkt, AccTime,
                 inFlight, remoteVars>>

(* Packets and animations change the action state, start and end montages. *)
StateChanges ==
  /\ entered
  /\ state' \in State /\ montage' \in BOOLEAN
  /\ <<state', montage'>> # <<state, montage>>
  /\ UNCHANGED <<entered, held, pos, glide, MoveDir, bForceSendMovePkt, AccTime,
                 inFlight, remoteVars>>

(* The key is held on to (or changed for another): Triggered, obeyed only  *)
(* in a move state.  It is let go: Completed, obeyed in every state.       *)
Triggered(key) == key # 0 /\ state = "move"
Completed(key) == key = 0 /\ held # 0

(* Faults: definitions named ...Fault<X> are plausible mistakes in the      *)
(* definition that follows them.  No specification uses them.              *)
DirOfInputFaultAdds(key) ==      \* the direction is added, not set
  IF Triggered(key) THEN MoveDir + key
  ELSE IF Completed(key) THEN 0 ELSE MoveDir

DirOfInputFaultKeeps(key) ==     \* letting go only forces a report
  IF Triggered(key) THEN key ELSE MoveDir

DirOfInput(key) ==
  IF Triggered(key) \/ Completed(key) THEN key ELSE MoveDir

(* AClientPlayer::MoveSync: nothing resets either of the two. *)
ReportDue == bForceSendMovePkt' \/ AccTime' >= Period

ReportFaultStale ==              \* the direction before this frame's input
  [pos |-> pos, dir |-> MoveDir]

Report == [pos |-> pos, dir |-> MoveDir']

(* The movement input of a frame.  Until it has entered, the pawn takes    *)
(* itself for another player's, and APlayerBase::MoveSync adds MoveDir.    *)
Input(key) == IF Triggered(key) \/ ~entered THEN MoveDir' ELSE 0

OwnerFrame(key) ==
  /\ Len(inFlight) < MaxInFlight
  /\ held' = key
  /\ MoveDir' = DirOfInput(key)
  /\ state' = IF Completed(key) THEN "move" ELSE state
  /\ bForceSendMovePkt' = (bForceSendMovePkt \/ Completed(key))
  /\ AccTime' = IF AccTime < Period THEN AccTime + 1 ELSE AccTime
  /\ inFlight' = IF ReportDue /\ entered THEN Append(inFlight, Report)
                                         ELSE inFlight
  /\ \E m \in Moved(pos, glide, Input(key), montage) :
       pos' = m[1] /\ glide' = m[2]
  /\ UNCHANGED <<entered, montage, remoteVars>>

-----------------------------------------------------------------------------
(* The other client *)

(* The actor is not put where the report says, it only heads there. *)
HandleMoveFaultLazy ==
  /\ inFlight # <<>>
  /\ LET m == Head(inFlight)
     IN DestnInfo' = m.pos /\ rMoveDir' = m.dir
  /\ carried' = FALSE
  /\ inFlight' = Tail(inFlight)
  /\ UNCHANGED <<ownerVars, rPos, rGlide, rMontage>>

(* S_MOVE: UGameManager::HandleMove puts the actor elsewhere, its velocity  *)
(* stays.                                                                  *)
HandleMove ==
  /\ inFlight # <<>>
  /\ LET m == Head(inFlight)
     IN DestnInfo' = m.pos /\ rMoveDir' = m.dir /\ rPos' = m.pos
  /\ carried' = FALSE
  /\ inFlight' = Tail(inFlight)
  /\ UNCHANGED <<ownerVars, rGlide, rMontage>>

(* Montages start and end on the other client's actor. *)
RemoteMontages ==
  /\ rMontage' = ~rMontage
  /\ UNCHANGED <<ownerVars, inFlight, rPos, rGlide, rMoveDir, DestnInfo, carried>>

(* APlayerBase::MoveSync: in a move state the actor walks on, in any other *)
(* it is put where S_MOVE said; the movement component then moves it.  The *)
(* action state itself is module RemoteCombat's: packets and the actor's   *)
(* own animation change it between any two frames, so a frame finds either.*)
RemoteFrame ==
  /\ \/ /\ \E m \in Moved(rPos, rGlide, rMoveDir, rMontage) :
             rPos' = m[1] /\ rGlide' = m[2]
        /\ carried' = (carried \/ rMontage)
     \/ /\ \E m \in Moved(DestnInfo, rGlide, 0, rMontage) :
             rPos' = m[1] /\ rGlide' = m[2]
        /\ carried' = rMontage
  /\ UNCHANGED <<ownerVars, inFlight, rMoveDir, rMontage, DestnInfo>>

-----------------------------------------------------------------------------
Next ==
  \/ EnterGame \/ StateChanges
  \/ \E key \in Dir : OwnerFrame(key)
  \/ HandleMove \/ RemoteMontages \/ RemoteFrame

Spec == Init /\ [][Next]_vars

(* Both engines make frames, and the reports arrive. *)
LiveSpec ==
  /\ Spec
  /\ WF_vars(\E key \in Dir : OwnerFrame(key))
  /\ WF_vars(HandleMove) /\ WF_vars(RemoteFrame)

-----------------------------------------------------------------------------
TypeOK ==
  /\ entered \in BOOLEAN /\ held \in Dir
  /\ pos \in Place /\ glide \in Glide /\ MoveDir \in Dir /\ state \in State
  /\ montage \in BOOLEAN
  /\ bForceSendMovePkt \in BOOLEAN /\ AccTime \in 0..Period
  /\ inFlight \in Seq([pos : Place, dir : Dir])
  /\ Len(inFlight) <= MaxInFlight
  /\ rPos \in Place /\ rGlide \in Glide /\ rMoveDir \in Dir
  /\ rMontage \in BOOLEAN /\ DestnInfo \in Place /\ carried \in BOOLEAN

(* No stop goes unreported: when the owner has no direction, the newest    *)
(* report the other client has, or is about to get, has none either: a key *)
(* let go clears the direction and forces a report in the same frame       *)
(* (HandleMoveActionCompleted, ClientPlayerController.cpp:122).            *)
NewestDir ==
  IF inFlight = <<>> THEN rMoveDir ELSE inFlight[Len(inFlight)].dir

StopIsReported == MoveDir = 0 => NewestDir = 0

(* Guessing leaves no residue but the braking: however far the actor has   *)
(* walked on between two reports, from the one that says it stands it is   *)
(* never further from the place reported than it may still brake, however  *)
(* often it is put back there (HandleMove and MoveSync force its location  *)
(* and leave its velocity, GameManager.cpp:146, PlayerBase.cpp:182); only a*)
(* montage takes it further.                                               *)
RestIsClose ==
  rMoveDir = 0 /\ ~carried => Abs(rPos - DestnInfo) + Abs(rGlide) <= Braking

(* When the owner lets the keys go and no montage carries either actor     *)
(* along, both screens come to agree for good: letting a key go clears     *)
(* MoveDir, and reports do not stop with the movement (ClientPlayer.cpp:79).*)
ScreensAgree ==
  <>[](entered /\ held = 0 /\ ~montage /\ ~rMontage) => <>[](rPos = pos)
=============================================================================
