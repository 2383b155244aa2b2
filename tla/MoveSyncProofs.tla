---------------------------- MODULE MoveSyncProofs ----------------------------
(***************************************************************************)
(* Theorems about MoveSync, for any line of places, any reporting period   *)
(* and any number of reports between the clients.                          *)
(***************************************************************************)
EXTENDS MoveSync, TLAPS

(* Nothing is reported before the owner has entered. *)
Unreported == ~entered => inFlight = <<>> /\ rMoveDir = 0

MoveInv == TypeOK /\ Unreported /\ StopIsReported /\ RestIsClose

Reports == [pos : Place, dir : Dir]

-----------------------------------------------------------------------------
(* Walls and montages keep an actor on the line. *)
LEMMA WalledInPlace == ASSUME NEW p \in Int PROVE Walled(p) \in Place
BY MoveAssumption DEF Walled, Place

LEMMA GlideFacts ==
  /\ Glide \subseteq Int /\ 0 \in Glide
  /\ \A x \in Int : Sign(x) \in Dir /\ Abs(x) \in Nat /\ (Abs(x) = 0 <=> x = 0)
  /\ \A x \in Glide : Abs(x) <= Braking
BY MoveAssumption DEF Glide, Sign, Dir, Abs

LEMMA MovedInPlace ==
  ASSUME NEW p \in Place, NEW g \in Glide, NEW dir \in Dir,
         NEW carrying \in BOOLEAN, NEW m \in Moved(p, g, dir, carrying)
  PROVE  m[1] \in Place /\ m[2] \in Glide
<1>1. p \in Int /\ \A d \in Dir : p + d \in Int
  BY MoveAssumption DEF Place, Dir
<1>2. Sign(g) \in Dir
  BY GlideFacts
<1>3. m \in Place \X Glide
  BY <1>1, <1>2, WalledInPlace DEF Moved, Driven, Coasted
<1> QED BY <1>3

(* An actor that brakes moves on by no more places than its glide loses.   *)
LEMMA Brakes ==
  ASSUME NEW p \in Place, NEW g \in Glide, NEW m \in Moved(p, g, 0, FALSE)
  PROVE  /\ Abs(m[2]) <= Abs(g) /\ (g # 0 => Abs(m[2]) < Abs(g))
         /\ \A d \in Place : Abs(m[1] - d) + Abs(m[2]) <= Abs(p - d) + Abs(g)
         /\ g = 0 => m[1] = p /\ m[2] = 0
<1>1. m[1] \in {p, Walled(p + Sign(g))} /\ m[2] \in Coasted(g)
  BY DEF Moved
<1>2. p \in Int /\ 0 <= p /\ p <= MaxPos /\ MaxPos \in Nat
  BY MoveAssumption DEF Place
<1>3. m[2] \in Int /\ g \in Int /\ (m[2] = 0 \/ Abs(m[2]) < Abs(g))
  BY <1>1, GlideFacts DEF Coasted
<1>4. Abs(m[2]) <= Abs(g) /\ (g # 0 => Abs(m[2]) < Abs(g))
  BY <1>3 DEF Abs
<1>5. m[1] \in {p - 1, p, p + 1} /\ (g = 0 => m[1] = p)
  BY <1>1, <1>2, <1>3 DEF Walled, Sign
<1>6. g = 0 => m[2] = 0
  BY <1>3 DEF Abs
<1>7. ASSUME NEW d \in Place
      PROVE  Abs(m[1] - d) + Abs(m[2]) <= Abs(p - d) + Abs(g)
  <2>1. d \in Int
    BY MoveAssumption DEF Place
  <2>2. Abs(m[1] - d) <= Abs(p - d) + (IF g = 0 THEN 0 ELSE 1)
    BY <1>2, <1>3, <1>5, <2>1 DEF Abs
  <2>3. Abs(m[2]) <= Abs(g) - (IF g = 0 THEN 0 ELSE 1)
    BY <1>3, <1>4, <1>6 DEF Abs
  <2>4. /\ Abs(m[1] - d) \in Int /\ Abs(p - d) \in Int
        /\ Abs(m[2]) \in Int /\ Abs(g) \in Int
    BY <1>2, <1>3, <1>5, <2>1 DEF Abs
  <2> QED BY <2>2, <2>3, <2>4
<1> QED BY <1>4, <1>5, <1>6, <1>7

(* A frame's input leaves a direction, and clears it only when the key is  *)
(* let go.                                                                 *)
LEMMA DirOfInputClears ==
  ASSUME TypeOK, NEW key \in Dir
  PROVE  /\ DirOfInput(key) \in Dir
         /\ DirOfInput(key) = 0 /\ MoveDir # 0 => Completed(key)
BY DEF TypeOK, DirOfInput, Triggered, Completed, Dir

-----------------------------------------------------------------------------
(* The actors are spawned, nobody moves. *)
LEMMA MoveInit == Init => MoveInv
<1> SUFFICES ASSUME Init PROVE MoveInv
  OBVIOUS
<1>1. inFlight \in Seq(Reports) /\ Len(inFlight) <= MaxInFlight
  BY MoveAssumption DEF Init
<1>2. SpawnPos \in Place /\ 0 \in 0..Period /\ 0 \in Dir /\ "move" \in State
  BY MoveAssumption DEF Place, Dir, State
<1>3. TypeOK
  BY <1>1, <1>2, GlideFacts DEF Init, TypeOK, Reports
<1>4. RestIsClose
  BY MoveAssumption DEF Init, RestIsClose, Abs
<1> QED
  BY <1>3, <1>4 DEF MoveInv, Init, Unreported, StopIsReported, NewestDir

LEMMA OwnerFrameKeeps ==
  ASSUME MoveInv, NEW key \in Dir, OwnerFrame(key)
  PROVE  MoveInv'
<1>1. TypeOK /\ Unreported /\ StopIsReported /\ RestIsClose
  BY DEF MoveInv
<1>2. MoveDir' \in Dir /\ (MoveDir' = 0 /\ MoveDir # 0 => Completed(key))
  BY <1>1, DirOfInputClears DEF OwnerFrame
<1>3. UNCHANGED <<entered, montage, remoteVars>>
  BY DEF OwnerFrame
<1>4. pos' \in Place /\ glide' \in Glide
  <2>1. Input(key) \in Dir
    BY <1>2 DEF Input, Dir
  <2>2. PICK m \in Moved(pos, glide, Input(key), montage) :
          pos' = m[1] /\ glide' = m[2]
    BY DEF OwnerFrame
  <2> QED BY <2>1, <2>2, <1>1, MovedInPlace DEF TypeOK
<1>5. state' \in State /\ Report \in Reports
  BY <1>1, <1>2 DEF OwnerFrame, TypeOK, State, Report, Reports
<1>6. \/ inFlight' = inFlight /\ ~(ReportDue /\ entered)
      \/ inFlight' = Append(inFlight, Report) /\ entered
  BY DEF OwnerFrame
<1>7. inFlight \in Seq(Reports) /\ Len(inFlight) < MaxInFlight
  BY <1>1 DEF OwnerFrame, TypeOK, Reports
<1>8. inFlight' \in Seq(Reports) /\ Len(inFlight') <= MaxInFlight
  BY <1>5, <1>6, <1>7, MoveAssumption
<1>9. AccTime' \in 0..Period /\ bForceSendMovePkt' \in BOOLEAN /\ held' \in Dir
  BY <1>1, MoveAssumption DEF OwnerFrame, TypeOK
<1>10. TypeOK'
  BY <1>1, <1>2, <1>3, <1>4, <1>5, <1>8, <1>9
     DEF TypeOK, Reports, remoteVars
<1>11. Unreported'
  BY <1>1, <1>3, <1>6 DEF Unreported, remoteVars
<1>12. StopIsReported'
  <2> SUFFICES ASSUME MoveDir' = 0 PROVE NewestDir' = 0
    BY DEF StopIsReported
  <2>1. CASE inFlight' = Append(inFlight, Report)
    <3>1. Len(inFlight') = Len(inFlight) + 1 /\ inFlight' # <<>>
      BY <2>1, <1>5, <1>7
    <3>2. inFlight'[Len(inFlight')] = Report
      BY <2>1, <3>1, <1>5, <1>7
    <3>3. Report.dir = 0
      BY DEF Report
    <3> QED BY <3>1, <3>2, <3>3 DEF NewestDir
  <2>2. CASE inFlight' = inFlight /\ ~(ReportDue /\ entered)
    <3>1. NewestDir' = NewestDir
      BY <2>2, <1>3 DEF NewestDir, remoteVars
    <3>2. CASE MoveDir = 0
      BY <3>1, <3>2, <1>1 DEF StopIsReported
    <3>3. CASE MoveDir # 0 /\ ~entered
      BY <3>1, <3>3, <1>1 DEF Unreported, NewestDir
    <3>4. CASE MoveDir # 0 /\ entered
      <4>1. bForceSendMovePkt'
        BY <3>4, <1>2 DEF OwnerFrame
      <4> QED BY <4>1, <3>4, <2>2 DEF ReportDue
    <3> QED BY <3>2, <3>3, <3>4
  <2> QED BY <2>1, <2>2, <1>6
<1>13. RestIsClose'
  BY <1>1, <1>3 DEF RestIsClose, remoteVars
<1> QED BY <1>10, <1>11, <1>12, <1>13 DEF MoveInv

LEMMA HandleMoveKeeps ==
  ASSUME MoveInv, HandleMove PROVE MoveInv'
<1>1. TypeOK /\ Unreported /\ StopIsReported /\ RestIsClose
  BY DEF MoveInv
<1>2. inFlight \in Seq(Reports) /\ inFlight # <<>>
  BY <1>1 DEF HandleMove, TypeOK, Reports
<1> DEFINE m == Head(inFlight)
<1>3. m \in Reports
  BY <1>2
<1>4. /\ DestnInfo' = m.pos /\ rMoveDir' = m.dir /\ rPos' = m.pos
      /\ carried' = FALSE /\ inFlight' = Tail(inFlight)
      /\ UNCHANGED <<ownerVars, rGlide, rMontage>>
  BY DEF HandleMove
<1>5. m.pos \in Place /\ m.dir \in Dir
  BY <1>3 DEF Reports
<1>6. inFlight' \in Seq(Reports) /\ Len(inFlight') = Len(inFlight) - 1
  BY <1>2, <1>4
<1>7. TypeOK'
  <2>1. Len(inFlight') <= MaxInFlight
    BY <1>1, <1>2, <1>6, MoveAssumption DEF TypeOK
  <2> QED BY <2>1, <1>1, <1>4, <1>5, <1>6 DEF TypeOK, Reports, ownerVars
<1>8. entered
  BY <1>1, <1>2 DEF Unreported
<1>9. StopIsReported'
  <2>1. NewestDir' = NewestDir
    <3>1. CASE Len(inFlight) = 1
      <4>1. inFlight' = <<>> /\ inFlight[1] = m
        BY <3>1, <1>2, <1>4
      <4> QED BY <4>1, <3>1, <1>2, <1>4 DEF NewestDir
    <3>2. CASE Len(inFlight) # 1
      <4>1. inFlight' # <<>> /\ inFlight'[Len(inFlight')] = inFlight[Len(inFlight)]
        <5>1. Len(inFlight) \in Nat /\ Len(inFlight) > 1
          <6>1. Len(inFlight) \in Nat /\ Len(inFlight) # 0
            BY <1>2
          <6>2. \A n \in Nat : n # 0 /\ n # 1 => n > 1
            OBVIOUS
          <6> QED BY <6>1, <6>2, <3>2, Zenon
        <5>2. \A i \in 1..Len(inFlight) - 1 : inFlight'[i] = inFlight[i + 1]
          BY <5>1, <1>2, <1>4
        <5> QED BY <5>1, <5>2, <1>6
      <4> QED BY <4>1, <1>2 DEF NewestDir
    <3> QED BY <3>1, <3>2
  <2> QED BY <2>1, <1>1, <1>4 DEF StopIsReported, ownerVars
<1>10. RestIsClose'
  <2>1. Abs(rPos' - DestnInfo') = 0
    BY <1>4, <1>5, MoveAssumption DEF Place, Abs
  <2> QED BY <1>1, <1>4, <2>1, GlideFacts, MoveAssumption DEF RestIsClose, TypeOK
<1> QED
  BY <1>4, <1>7, <1>8, <1>9, <1>10 DEF MoveInv, Unreported, ownerVars

LEMMA RemoteFrameKeeps ==
  ASSUME MoveInv, RemoteFrame PROVE MoveInv'
<1>1. TypeOK /\ Unreported /\ StopIsReported /\ RestIsClose
  BY DEF MoveInv
<1>2. UNCHANGED <<ownerVars, inFlight, rMoveDir, rMontage, DestnInfo>>
  BY DEF RemoteFrame
<1> DEFINE Takes(q, d) == \E m \in Moved(q, rGlide, d, rMontage) :
                            rPos' = m[1] /\ rGlide' = m[2]
<1>0. PICK p \in {rPos, DestnInfo}, dir \in {rMoveDir, 0} :
        /\ Takes(p, dir)
        /\ \/ p = rPos /\ dir = rMoveDir /\ carried' = (carried \/ rMontage)
           \/ p = DestnInfo /\ dir = 0 /\ carried' = rMontage
  BY DEF RemoteFrame
<1>3. PICK m \in Moved(p, rGlide, dir, rMontage) : rPos' = m[1] /\ rGlide' = m[2]
  BY <1>0
<1>4. p \in Place /\ dir \in Dir /\ rGlide \in Glide /\ DestnInfo \in Place
  BY <1>1 DEF TypeOK, Dir
<1>5. rPos' \in Place /\ rGlide' \in Glide /\ carried' \in BOOLEAN
  BY <1>0, <1>1, <1>3, <1>4, MovedInPlace DEF TypeOK
<1>6. TypeOK'
  BY <1>1, <1>2, <1>5 DEF TypeOK, ownerVars
<1>7. ASSUME rMoveDir = 0, ~carried'
      PROVE  Abs(rPos' - DestnInfo) + Abs(rGlide') <= Braking
  <2>1. dir = 0 /\ ~rMontage /\ (p = DestnInfo \/ (p = rPos /\ ~carried))
    <3>1. CASE p = rPos /\ dir = rMoveDir /\ carried' = (carried \/ rMontage)
      BY <1>7, <3>1, Zenon
    <3>2. CASE p = DestnInfo /\ dir = 0 /\ carried' = rMontage
      BY <1>7, <3>2, Zenon
    <3> QED BY <1>0, <3>1, <3>2
  <2>2. Abs(rPos' - DestnInfo) + Abs(rGlide') <= Abs(p - DestnInfo) + Abs(rGlide)
    BY <1>1, <1>3, <1>4, <2>1, Brakes DEF TypeOK
  <2>3. Abs(p - DestnInfo) + Abs(rGlide) <= Braking
    <3>1. CASE p = DestnInfo
      BY <1>4, <3>1, GlideFacts, MoveAssumption DEF Place, Abs
    <3>2. CASE p = rPos /\ ~carried
      BY <1>1, <1>7, <3>2 DEF RestIsClose
    <3> QED BY <2>1, <3>1, <3>2
  <2>4. /\ Abs(rPos' - DestnInfo) \in Int /\ Abs(rGlide') \in Int
        /\ Abs(p - DestnInfo) \in Int /\ Abs(rGlide) \in Int /\ Braking \in Int
    <3>1. \A x, y \in Place : x - y \in Int
      BY MoveAssumption DEF Place
    <3> QED BY <1>4, <1>5, <3>1, GlideFacts, MoveAssumption
  <2> QED BY <2>2, <2>3, <2>4
<1> QED
  BY <1>1, <1>2, <1>6, <1>7
     DEF MoveInv, Unreported, StopIsReported, NewestDir, RestIsClose, ownerVars

LEMMA MoveStep == MoveInv /\ [Next]_vars => MoveInv'
<1> SUFFICES ASSUME MoveInv, [Next]_vars PROVE MoveInv'
  OBVIOUS
<1> USE DEF MoveInv, Unreported, StopIsReported, NewestDir, RestIsClose
<1>1. CASE EnterGame
  BY <1>1, MoveAssumption DEF EnterGame, TypeOK, Place, remoteVars
<1>2. CASE StateChanges
  BY <1>2 DEF StateChanges, TypeOK, remoteVars
<1>3. CASE \E key \in Dir : OwnerFrame(key)
  BY <1>3, OwnerFrameKeeps
<1>4. CASE HandleMove
  BY <1>4, HandleMoveKeeps
<1>5. CASE RemoteMontages
  BY <1>5 DEF RemoteMontages, TypeOK, ownerVars
<1>6. CASE RemoteFrame
  BY <1>6, RemoteFrameKeeps
<1>7. CASE UNCHANGED vars
  BY <1>7 DEF vars, ownerVars, remoteVars, TypeOK
<1> QED BY <1>1, <1>2, <1>3, <1>4, <1>5, <1>6, <1>7 DEF Next

LEMMA MoveAlways == Spec => []MoveInv
BY MoveInit, MoveStep, PTL DEF Spec

-----------------------------------------------------------------------------
(* Places, directions, reports and flags keep their types. *)
THEOREM MoveTypeCorrect == Spec => []TypeOK
<1>1. MoveInv => TypeOK
  BY DEF MoveInv
<1> QED BY <1>1, MoveAlways, PTL

(* A stop is always reported: whatever is still under way, the newest      *)
(* report of an owner without direction has none (ForceSendMovePkt).       *)
THEOREM StopAlwaysReported == Spec => []StopIsReported
<1>1. MoveInv => StopIsReported
  BY DEF MoveInv
<1> QED BY <1>1, MoveAlways, PTL

(* A remote actor reported standing is no further from the place reported  *)
(* than it may still brake, however far dead reckoning had taken it and    *)
(* however often it is put back (HandleMove, MoveSync).                    *)
THEOREM RestAlwaysClose == Spec => []RestIsClose
<1>1. MoveInv => RestIsClose
  BY DEF MoveInv
<1> QED BY <1>1, MoveAlways, PTL

-----------------------------------------------------------------------------
(* Coming to agree.  The owner has let the keys go and no montage plays on *)
(* either screen; in the end it has also stopped braking.  What is still   *)
(* under way may be old.                                                   *)

AtEase == entered /\ held = 0 /\ ~montage /\ ~rMontage
Rests  == AtEase /\ glide = 0

(* A report that says where the owner stands, and that it stands.  Of the  *)
(* reports under way only the oldest n may say anything else.              *)
TrueReport(r)  == r.pos = pos /\ r.dir = 0
StaleAtMost(n) == \A i \in DOMAIN inFlight : i > n => TrueReport(inFlight[i])
UpToDate       == StaleAtMost(0)

(* The actor has been told, then it also is there and does not glide away. *)
Told   == rMoveDir = 0 /\ DestnInfo = pos
Agrees == Told /\ rPos = pos /\ rGlide = 0

(* Without a key there is no direction. *)
NoKeyNoDir == held = 0 => MoveDir = 0
RestInv    == MoveInv /\ NoKeyNoDir

LEMMA RestInit == Init => RestInv
BY MoveInit DEF Init, RestInv, NoKeyNoDir

LEMMA RestInvStep == RestInv /\ [Next]_vars => RestInv'
<1> SUFFICES ASSUME RestInv, [Next]_vars PROVE NoKeyNoDir'
  BY MoveStep DEF RestInv
<1> USE DEF RestInv, NoKeyNoDir
<1>1. ASSUME NEW key \in Dir, OwnerFrame(key) PROVE NoKeyNoDir'
  <2>1. held' = key /\ MoveDir' = DirOfInput(key)
    BY <1>1 DEF OwnerFrame
  <2> QED BY <2>1 DEF DirOfInput, Triggered, Completed
<1>2. CASE EnterGame \/ StateChanges
  BY <1>2 DEF EnterGame, StateChanges
<1>3. CASE HandleMove \/ RemoteMontages \/ RemoteFrame
  BY <1>3 DEF HandleMove, RemoteMontages, RemoteFrame, ownerVars
<1>4. CASE UNCHANGED vars
  BY <1>4 DEF vars, ownerVars
<1> QED BY <1>1, <1>2, <1>3, <1>4 DEF Next

(* The walls do not move an actor that stands. *)
LEMMA StandsStill ==
  ASSUME NEW p \in Place, NEW m \in Moved(p, 0, 0, FALSE)
  PROVE  m[1] = p /\ m[2] = 0
BY GlideFacts, Brakes

(* While the owner rests it stays where it is and says so, and an actor    *)
(* that agrees with it is not moved.                                       *)
LEMMA RestSteps ==
  ASSUME RestInv, [Next]_vars, Rests, Rests'
  PROVE  /\ UNCHANGED pos
         /\ (\E key \in Dir : OwnerFrame(key)) =>
              /\ \/ inFlight' = inFlight
                 \/ \E r \in Reports : /\ inFlight' = Append(inFlight, r)
                                       /\ TrueReport(r)
              /\ bForceSendMovePkt \/ AccTime = Period => inFlight' # inFlight
              /\ UNCHANGED remoteVars
         /\ ~(\E key \in Dir : OwnerFrame(key)) =>
              HandleMove \/ UNCHANGED inFlight
         /\ ~HandleMove => (Told => Told') /\ (Agrees => Agrees')
<1> DEFINE Goal ==
         /\ UNCHANGED pos
         /\ (\E key \in Dir : OwnerFrame(key)) =>
              /\ \/ inFlight' = inFlight
                 \/ \E r \in Reports : /\ inFlight' = Append(inFlight, r)
                                       /\ TrueReport(r)
              /\ bForceSendMovePkt \/ AccTime = Period => inFlight' # inFlight
              /\ UNCHANGED remoteVars
         /\ ~(\E key \in Dir : OwnerFrame(key)) =>
              HandleMove \/ UNCHANGED inFlight
         /\ ~HandleMove => (Told => Told') /\ (Agrees => Agrees')
<1>0. /\ pos \in Place /\ DestnInfo \in Place /\ rPos \in Place
      /\ inFlight \in Seq(Reports) /\ AccTime \in 0..Period
      /\ MoveDir = 0 /\ glide = 0 /\ montage = FALSE /\ rMontage = FALSE
      /\ entered /\ held' = 0
  BY DEF RestInv, MoveInv, NoKeyNoDir, TypeOK, Reports, Rests, AtEase
<1>1. ASSUME NEW key \in Dir, OwnerFrame(key) PROVE Goal
  <2>1. key = 0 /\ held = 0 /\ entered
    BY <1>0, <1>1 DEF OwnerFrame, Rests, AtEase
  <2>2. MoveDir' = 0 /\ Input(key) = 0
    BY <1>0, <1>1, <2>1 DEF OwnerFrame, DirOfInput, Triggered, Completed, Input
  <2>3. pos' = pos
    <3>1. PICK m \in Moved(pos, glide, Input(key), montage) : pos' = m[1]
      BY <1>1 DEF OwnerFrame
    <3>2. m \in Moved(pos, 0, 0, FALSE)
      BY <1>0, <2>2, <3>1
    <3> QED BY <1>0, <3>1, <3>2, StandsStill
  <2>4. \/ inFlight' = inFlight
        \/ inFlight' = Append(inFlight, Report)
    BY <1>1 DEF OwnerFrame
  <2>5. bForceSendMovePkt \/ AccTime = Period =>
          inFlight' = Append(inFlight, Report)
    <3> SUFFICES ASSUME bForceSendMovePkt \/ AccTime = Period PROVE ReportDue
      BY <1>1, <2>1 DEF OwnerFrame
    <3>1. bForceSendMovePkt => bForceSendMovePkt'
      BY <1>1, Zenon DEF OwnerFrame
    <3>2. AccTime = Period => AccTime' = Period
      BY <1>1, MoveAssumption DEF OwnerFrame
    <3> QED BY <3>1, <3>2, MoveAssumption DEF ReportDue
  <2>6. inFlight' = Append(inFlight, Report) => inFlight' # inFlight
    BY <1>0
  <2>7. Report \in Reports /\ TrueReport(Report)
    BY <1>0, <2>2 DEF Report, Reports, Dir, TrueReport
  <2>8. UNCHANGED remoteVars
    BY <1>1 DEF OwnerFrame
  <2>9. (Told => Told') /\ (Agrees => Agrees')
    BY <2>3, <2>8 DEF Told, Agrees, remoteVars
  <2> QED BY <1>1, <2>3, <2>4, <2>5, <2>6, <2>7, <2>8, <2>9
<1>2. ASSUME ~\E key \in Dir : OwnerFrame(key)
      PROVE  Goal
  <2>1. CASE EnterGame
    BY <1>0, <2>1 DEF EnterGame
  <2>2. CASE StateChanges
    BY <1>2, <2>2 DEF StateChanges, Told, Agrees, remoteVars
  <2>3. CASE HandleMove
    BY <1>2, <2>3 DEF HandleMove, ownerVars
  <2>4. CASE RemoteMontages
    BY <1>2, <2>4 DEF RemoteMontages, Told, Agrees, ownerVars
  <2>5. CASE RemoteFrame
    <3>1. UNCHANGED <<ownerVars, inFlight, rMoveDir, DestnInfo>>
      BY <2>5 DEF RemoteFrame
    <3>2. Agrees => rPos' = pos /\ rGlide' = 0
      <4> SUFFICES ASSUME Agrees PROVE rPos' = pos /\ rGlide' = 0
        OBVIOUS
      <4>1. rPos = pos /\ DestnInfo = pos /\ rGlide = 0 /\ rMoveDir = 0
        BY DEF Agrees, Told
      <4>2. PICK m \in Moved(pos, 0, 0, FALSE) : rPos' = m[1] /\ rGlide' = m[2]
        BY <1>0, <2>5, <4>1 DEF RemoteFrame
      <4> QED BY <1>0, <4>2, StandsStill
    <3> QED BY <1>2, <3>1, <3>2 DEF Told, Agrees, ownerVars
  <2>6. CASE UNCHANGED vars
    BY <1>2, <2>6 DEF vars, ownerVars, remoteVars, Told, Agrees
  <2> QED BY <1>2, <2>1, <2>2, <2>3, <2>4, <2>5, <2>6 DEF Next
<1> QED BY <1>1, <1>2, Zenon

(* One step's effect on what is under way: it brings no stale report, and  *)
(* HandleMove takes the oldest away.                                       *)
LEMMA StaleSteps ==
  ASSUME RestInv, [Next]_vars, Rests, Rests', NEW n \in Nat, StaleAtMost(n)
  PROVE  /\ StaleAtMost(n)'
         /\ HandleMove => StaleAtMost(n - 1)'
<1>1. inFlight \in Seq(Reports) /\ UNCHANGED pos
  BY RestSteps DEF RestInv, MoveInv, TypeOK, Reports
<1>2. CASE inFlight' = inFlight
  <2>1. ~HandleMove
    BY <1>1, <1>2 DEF HandleMove
  <2> QED BY <1>1, <1>2, <2>1 DEF StaleAtMost, TrueReport
<1>3. ASSUME NEW r \in Reports, inFlight' = Append(inFlight, r), TrueReport(r)
      PROVE  StaleAtMost(n)' /\ ~HandleMove
  <2>1. ~HandleMove
    <3>1. Len(inFlight') = Len(inFlight) + 1
      BY <1>1, <1>3
    <3> QED BY <1>1, <3>1 DEF HandleMove
  <2>2. ASSUME NEW i \in DOMAIN inFlight', i > n
        PROVE  inFlight'[i].pos = pos /\ inFlight'[i].dir = 0
    <3>1. CASE i \in DOMAIN inFlight
      BY <1>1, <1>3, <2>2, <3>1 DEF StaleAtMost, TrueReport
    <3>2. CASE i \notin DOMAIN inFlight
      BY <1>1, <1>3, <2>2, <3>2 DEF TrueReport
    <3> QED BY <3>1, <3>2
  <2> QED BY <1>1, <2>1, <2>2 DEF StaleAtMost, TrueReport
<1>4. CASE HandleMove
  <2>1. inFlight # <<>> /\ inFlight' = Tail(inFlight)
    BY <1>4 DEF HandleMove
  <2>2. ASSUME NEW i \in DOMAIN inFlight', i > n - 1
        PROVE  inFlight'[i].pos = pos /\ inFlight'[i].dir = 0
    <3>1. i + 1 \in DOMAIN inFlight /\ inFlight'[i] = inFlight[i + 1]
      BY <1>1, <2>1, <2>2
    <3>2. i + 1 > n
      BY <2>2, <1>1, <2>1
    <3> QED BY <3>1, <3>2 DEF StaleAtMost, TrueReport
  <2>3. StaleAtMost(n - 1)'
    BY <1>1, <2>2 DEF StaleAtMost, TrueReport
  <2>4. \A i \in DOMAIN inFlight' : i > n => i > n - 1
    BY <1>1, <2>1
  <2> QED BY <2>3, <2>4 DEF StaleAtMost
<1> QED
  BY <1>2, <1>3, <1>4, RestSteps

(* While the owner rests, the reports under way that say anything else     *)
(* than where it stands only become fewer: every S_MOVE handled takes one  *)
(* away, and nothing adds one.                                             *)
THEOREM StaleReportsRunDown ==
  Spec => [][\A n \in Nat :
               Rests /\ Rests' /\ StaleAtMost(n) =>
                 StaleAtMost(n)' /\ (HandleMove => StaleAtMost(n - 1)')]_vars
<1>1. RestInv /\ [Next]_vars =>
        [\A n \in Nat :
           Rests /\ Rests' /\ StaleAtMost(n) =>
             StaleAtMost(n)' /\ (HandleMove => StaleAtMost(n - 1)')]_vars
  BY StaleSteps
<1> QED BY <1>1, RestInit, RestInvStep, PTL DEF Spec

(* Once nothing under way is stale every S_MOVE tells the actor where its  *)
(* owner is and puts it there; one that agrees does so from then on.       *)
LEMMA SettledStays ==
  ASSUME RestInv, [Next]_vars, Rests, Rests', UpToDate
  PROVE  /\ UpToDate'
         /\ HandleMove => Told' /\ (rGlide = 0 => Agrees')
         /\ Told => Told'
         /\ Agrees => Agrees'
<1>1. UpToDate'
  BY StaleSteps DEF UpToDate
<1>2. HandleMove => Told' /\ (rGlide = 0 => Agrees')
  <2> SUFFICES ASSUME HandleMove PROVE Told' /\ (rGlide = 0 => Agrees')
    OBVIOUS
  <2>1. inFlight \in Seq(Reports) /\ inFlight # <<>>
    BY DEF RestInv, MoveInv, TypeOK, Reports, HandleMove
  <2>2. TrueReport(Head(inFlight))
    BY <2>1 DEF UpToDate, StaleAtMost
  <2> QED
    BY <2>2, RestSteps DEF HandleMove, TrueReport, Told, Agrees
<1>3. Agrees => Told /\ rGlide = 0
  BY DEF Agrees
<1> QED BY <1>1, <1>2, <1>3, RestSteps

-----------------------------------------------------------------------------
(* What WF gives only for enabled actions: HandleMove needs a report, the  *)
(* owner's frame room for one, and the other client's frame something to   *)
(* do, such as slowing its actor down.                                     *)
Pending == inFlight # <<>>
Room    == Len(inFlight) < MaxInFlight

RemoteAtEase == rMoveDir = 0 /\ ~rMontage

Halted  == glide = 0
RHalted == rGlide = 0

MoveCanStep ==
  /\ Room => ENABLED <<\E key \in Dir : OwnerFrame(key)>>_vars
  /\ Pending => ENABLED <<HandleMove>>_vars
  /\ ~RHalted /\ RemoteAtEase => ENABLED <<RemoteFrame>>_vars

(* While the owner rests a stale report is delivered: for every n, of n +  *)
(* 1 reports that may be stale at most n are left in the end.              *)
THEOREM StaleReportDelivered ==
  ASSUME NEW n \in Nat
  PROVE  LiveSpec /\ []MoveCanStep /\ []Rests
           => (StaleAtMost(n + 1) ~> StaleAtMost(n))
<1>1. RestInv /\ [Next]_vars /\ Rests /\ Rests' /\ StaleAtMost(n + 1)
        => StaleAtMost(n + 1)' /\ (<<HandleMove>>_vars => StaleAtMost(n)')
  <2> SUFFICES ASSUME RestInv, [Next]_vars, Rests, Rests', StaleAtMost(n + 1)
               PROVE  StaleAtMost(n + 1)' /\ (HandleMove => StaleAtMost(n)')
    OBVIOUS
  <2>1. n + 1 \in Nat /\ (n + 1) - 1 = n
    OBVIOUS
  <2>2. StaleAtMost(n + 1)' /\ (HandleMove => StaleAtMost((n + 1) - 1)')
    BY <2>1, StaleSteps
  <2> QED BY <2>1, <2>2
<1>2. RestInv /\ ~Pending => StaleAtMost(n)
  BY DEF Pending, StaleAtMost
<1> QED
  BY <1>1, <1>2, RestInit, RestInvStep, PTL DEF LiveSpec, Spec, MoveCanStep

-----------------------------------------------------------------------------
(* The owner's reporting.  Once a key has been let go every frame reports; *)
(* before that SendPacketTime has to pass, and AccTime is not reset after. *)

Due == bForceSendMovePkt \/ AccTime = Period

AccAt(n)     == AccTime = n
AccBeyond(n) == AccTime > n

LEMMA FrameSteps ==
  ASSUME RestInv, [Next]_vars
  PROVE  /\ Due => Due'
         /\ ~(\E key \in Dir : OwnerFrame(key)) =>
              /\ UNCHANGED AccTime
              /\ Len(inFlight') <= Len(inFlight)
              /\ HandleMove => Len(inFlight') < Len(inFlight)
         /\ (\E key \in Dir : OwnerFrame(key)) =>
              AccTime' = IF AccTime < Period THEN AccTime + 1 ELSE AccTime
<1>1. inFlight \in Seq(Reports) /\ AccTime \in 0..Period
  BY DEF RestInv, MoveInv, TypeOK, Reports
<1>2. ASSUME NEW key \in Dir, OwnerFrame(key)
      PROVE  /\ Due => Due'
             /\ AccTime' = IF AccTime < Period THEN AccTime + 1 ELSE AccTime
  <2>1. bForceSendMovePkt => bForceSendMovePkt'
    BY <1>2, Zenon DEF OwnerFrame
  <2>2. AccTime' = IF AccTime < Period THEN AccTime + 1 ELSE AccTime
    BY <1>2 DEF OwnerFrame
  <2> QED BY <2>1, <2>2, MoveAssumption DEF Due
<1>3. ASSUME ~(\E key \in Dir : OwnerFrame(key))
      PROVE  /\ UNCHANGED <<AccTime, bForceSendMovePkt>>
             /\ Len(inFlight') <= Len(inFlight)
             /\ HandleMove => Len(inFlight') < Len(inFlight)
  <2>1. CASE EnterGame \/ StateChanges
    <3>1. UNCHANGED <<AccTime, bForceSendMovePkt, inFlight>>
      BY <2>1 DEF EnterGame, StateChanges
    <3> QED BY <1>1, <3>1 DEF HandleMove
  <2>2. CASE HandleMove
    BY <1>1, <2>2 DEF HandleMove, ownerVars
  <2>3. CASE RemoteMontages \/ RemoteFrame
    <3>1. UNCHANGED <<AccTime, bForceSendMovePkt, inFlight>>
      BY <2>3 DEF RemoteMontages, RemoteFrame, ownerVars
    <3> QED BY <1>1, <3>1 DEF HandleMove
  <2>4. CASE UNCHANGED vars
    <3>1. UNCHANGED <<AccTime, bForceSendMovePkt, inFlight>>
      BY <2>4 DEF vars, ownerVars
    <3> QED BY <1>1, <3>1 DEF HandleMove
  <2> QED BY <1>3, <2>1, <2>2, <2>3, <2>4 DEF Next
<1>4. UNCHANGED <<AccTime, bForceSendMovePkt>> => (Due => Due')
  BY DEF Due
<1>5. CASE \E key \in Dir : OwnerFrame(key)
  BY <1>2, <1>5, Zenon
<1>6. CASE ~(\E key \in Dir : OwnerFrame(key))
  BY <1>3, <1>4, <1>6
<1> QED BY <1>5, <1>6

(* The owner's clock goes on: for every n short of SendPacketTime, more    *)
(* than n frames are counted in the end, whatever is pressed and however   *)
(* late the reports before are handled.                                    *)
THEOREM FramesCount ==
  ASSUME NEW n \in Nat, n < Period
  PROVE  LiveSpec /\ []MoveCanStep => (AccAt(n) ~> AccBeyond(n))
<1>1. RestInv /\ [Next]_vars /\ AccAt(n)
        => \/ /\ ~(\E key \in Dir : OwnerFrame(key)) /\ AccAt(n)'
              /\ (Room => Room') /\ (HandleMove => Room')
           \/ AccBeyond(n)'
  <2> SUFFICES ASSUME RestInv, [Next]_vars, AccAt(n)
               PROVE  \/ /\ ~(\E key \in Dir : OwnerFrame(key)) /\ AccAt(n)'
                         /\ (Room => Room') /\ (HandleMove => Room')
                      \/ AccBeyond(n)'
    OBVIOUS
  <2>1. /\ Len(inFlight) \in Nat /\ Len(inFlight') \in Nat
        /\ Len(inFlight) <= MaxInFlight
    BY RestInvStep DEF RestInv, MoveInv, TypeOK
  <2>2. CASE \E key \in Dir : OwnerFrame(key)
    BY <2>2, FrameSteps DEF AccAt, AccBeyond
  <2>3. CASE ~\E key \in Dir : OwnerFrame(key)
    BY <2>1, <2>3, FrameSteps, MoveAssumption DEF AccAt, Room
  <2> QED BY <2>2, <2>3
<1>2. RestInv => Room \/ Pending
  BY MoveAssumption DEF RestInv, MoveInv, TypeOK, Room, Pending
<1> QED
  BY <1>1, <1>2, RestInit, RestInvStep, PTL DEF LiveSpec, Spec, MoveCanStep

-----------------------------------------------------------------------------
(* Braking.  Without input and montage a glide only runs down, and a frame *)
(* of its client shortens it.                                              *)

GlideAtMost(n)  == Abs(glide) <= n
RGlideAtMost(n) == Abs(rGlide) <= n

LEMMA OwnerBrakesStep ==
  ASSUME RestInv, [Next]_vars, AtEase, AtEase'
  PROVE  /\ ~(\E key \in Dir : OwnerFrame(key)) => UNCHANGED glide
         /\ (\E key \in Dir : OwnerFrame(key)) =>
              /\ Abs(glide') <= Abs(glide)
              /\ glide # 0 => Abs(glide') < Abs(glide)
<1>1. ASSUME NEW key \in Dir, OwnerFrame(key)
      PROVE  /\ Abs(glide') <= Abs(glide)
             /\ glide # 0 => Abs(glide') < Abs(glide)
  <2>1. /\ key = 0 /\ held = 0 /\ entered /\ ~montage
        /\ pos \in Place /\ glide \in Glide /\ MoveDir = 0
    BY <1>1 DEF OwnerFrame, AtEase, RestInv, NoKeyNoDir, MoveInv, TypeOK
  <2>2. Input(key) = 0
    BY <2>1 DEF Input, Triggered
  <2>3. PICK m \in Moved(pos, glide, Input(key), montage) : glide' = m[2]
    BY <1>1 DEF OwnerFrame
  <2>4. montage = FALSE
    BY <2>1 DEF RestInv, MoveInv, TypeOK
  <2> QED BY <2>1, <2>2, <2>3, <2>4, Brakes
<1>2. ASSUME ~(\E key \in Dir : OwnerFrame(key)) PROVE UNCHANGED glide
  BY <1>2 DEF Next, EnterGame, StateChanges, HandleMove, RemoteMontages,
              RemoteFrame, vars, ownerVars
<1> QED BY <1>1, <1>2

LEMMA RemoteBrakesStep ==
  ASSUME RestInv, [Next]_vars, RemoteAtEase, RemoteAtEase'
  PROVE  /\ ~RemoteFrame => UNCHANGED rGlide
         /\ RemoteFrame => /\ Abs(rGlide') <= Abs(rGlide)
                           /\ rGlide # 0 => Abs(rGlide') < Abs(rGlide)
<1>1. ASSUME RemoteFrame
      PROVE  /\ Abs(rGlide') <= Abs(rGlide)
             /\ rGlide # 0 => Abs(rGlide') < Abs(rGlide)
  <2>1. /\ rPos \in Place /\ DestnInfo \in Place /\ rGlide \in Glide
        /\ rMontage = FALSE /\ rMoveDir = 0
    BY DEF RemoteAtEase, RestInv, MoveInv, TypeOK
  <2>2. PICK p \in {rPos, DestnInfo} :
          \E m \in Moved(p, rGlide, 0, FALSE) : rGlide' = m[2]
    BY <1>1, <2>1 DEF RemoteFrame
  <2> QED BY <2>1, <2>2, Brakes
<1>2. ASSUME ~RemoteFrame PROVE UNCHANGED rGlide
  BY <1>2 DEF Next, EnterGame, StateChanges, OwnerFrame, HandleMove,
              RemoteMontages, vars, remoteVars
<1> QED BY <1>1, <1>2

(* The owner's actor stops: for every n, a glide of n + 1 places shrinks   *)
(* to n, once the keys are let go and no montage plays.                    *)
THEOREM OwnerComesToRest ==
  ASSUME NEW n \in Nat
  PROVE  LiveSpec /\ []MoveCanStep /\ []AtEase
           => (GlideAtMost(n + 1) ~> GlideAtMost(n))
<1>1. RestInv /\ [Next]_vars /\ AtEase /\ AtEase' /\ GlideAtMost(n + 1)
        => \/ /\ ~(\E key \in Dir : OwnerFrame(key)) /\ GlideAtMost(n + 1)'
              /\ (Room => Room') /\ (HandleMove => Room')
           \/ GlideAtMost(n)'
  <2> SUFFICES ASSUME RestInv, [Next]_vars, AtEase, AtEase', GlideAtMost(n + 1)
               PROVE  \/ /\ ~(\E key \in Dir : OwnerFrame(key))
                         /\ GlideAtMost(n + 1)'
                         /\ (Room => Room') /\ (HandleMove => Room')
                      \/ GlideAtMost(n)'
    OBVIOUS
  <2>1. /\ Len(inFlight) \in Nat /\ Len(inFlight') \in Nat
        /\ Len(inFlight) <= MaxInFlight
        /\ Abs(glide) \in Nat /\ Abs(glide') \in Nat
        /\ glide = 0 => Abs(glide) = 0
    <3>1. glide \in Glide /\ glide' \in Glide
      BY RestInvStep DEF RestInv, MoveInv, TypeOK
    <3>2. /\ Len(inFlight) \in Nat /\ Len(inFlight') \in Nat
          /\ Len(inFlight) <= MaxInFlight
      BY RestInvStep DEF RestInv, MoveInv, TypeOK
    <3> QED BY <3>1, <3>2, GlideFacts
  <2>2. CASE \E key \in Dir : OwnerFrame(key)
    <3>1. Abs(glide') <= Abs(glide) /\ (glide # 0 => Abs(glide') < Abs(glide))
      BY <2>2, OwnerBrakesStep
    <3> QED BY <2>1, <3>1 DEF GlideAtMost
  <2>3. CASE ~\E key \in Dir : OwnerFrame(key)
    BY <2>1, <2>3, FrameSteps, OwnerBrakesStep, MoveAssumption
       DEF GlideAtMost, Room
  <2> QED BY <2>2, <2>3
<1>2. RestInv => Room \/ Pending
  BY MoveAssumption DEF RestInv, MoveInv, TypeOK, Room, Pending
<1> QED
  BY <1>1, <1>2, RestInit, RestInvStep, PTL DEF LiveSpec, Spec, MoveCanStep

(* So does the other client's, once it has been told to stand.             *)
THEOREM RemoteComesToRest ==
  ASSUME NEW n \in Nat
  PROVE  LiveSpec /\ []MoveCanStep /\ []RemoteAtEase
           => (RGlideAtMost(n + 1) ~> RGlideAtMost(n))
<1>1. RestInv /\ [Next]_vars /\ RemoteAtEase /\ RemoteAtEase'
        /\ RGlideAtMost(n + 1)
        => /\ RGlideAtMost(n + 1)'
           /\ RemoteFrame => RGlideAtMost(n)'
  <2> SUFFICES ASSUME RestInv, [Next]_vars, RemoteAtEase, RemoteAtEase',
                      RGlideAtMost(n + 1)
               PROVE  /\ RGlideAtMost(n + 1)'
                      /\ RemoteFrame => RGlideAtMost(n)'
    OBVIOUS
  <2>1. /\ Abs(rGlide) \in Nat /\ Abs(rGlide') \in Nat
        /\ rGlide = 0 => Abs(rGlide) = 0
    BY RestInvStep, GlideFacts DEF RestInv, MoveInv, TypeOK
  <2> QED BY <2>1, RemoteBrakesStep DEF RGlideAtMost
<1>2. RHalted => RGlideAtMost(n)
  BY DEF RHalted, RGlideAtMost, Abs
<1> QED
  BY <1>1, <1>2, RestInit, RestInvStep, PTL DEF LiveSpec, Spec, MoveCanStep

-----------------------------------------------------------------------------
(* Settling.  OwnerHalts, RemoteHalts, ReportsGetThrough and DueAtLast are *)
(* what the four theorems above come to when they are used for every n in  *)
(* turn.                                                                   *)

OwnerHalts        == <>[]AtEase => []<>Halted
RemoteHalts       == <>[]RemoteAtEase => []<>RHalted
ReportsGetThrough == <>[]Rests => []<>UpToDate
DueAtLast         == <>Due

(* A report that is true is pending, or one is made: HandleMove comes.     *)
LEMMA AgreeSteps ==
  ASSUME RestInv, [Next]_vars, Rests, Rests', UpToDate
  PROVE  /\ UpToDate'
         /\ Pending => Pending' \/ HandleMove
         /\ HandleMove => Told' /\ (rGlide = 0 => Agrees')
         /\ Told => Told'
         /\ Agrees => Agrees'
         /\ ~Pending =>
              \/ ~(\E key \in Dir : OwnerFrame(key)) /\ ~Pending'
              \/ (\E key \in Dir : OwnerFrame(key)) /\ (Due => Pending')
<1>1. inFlight \in Seq(Reports)
  BY DEF RestInv, MoveInv, TypeOK, Reports
<1>2. /\ UpToDate'
      /\ HandleMove => Told' /\ (rGlide = 0 => Agrees')
      /\ (Told => Told') /\ (Agrees => Agrees')
  BY SettledStays
<1>3. CASE \E key \in Dir : OwnerFrame(key)
  <2>1. \/ inFlight' = inFlight
        \/ \E r \in Reports : inFlight' = Append(inFlight, r)
    BY <1>3, RestSteps
  <2>2. Due => inFlight' # inFlight
    BY <1>3, RestSteps DEF Due
  <2> QED BY <1>1, <1>2, <1>3, <2>1, <2>2, FrameSteps DEF Pending
<1>4. CASE ~(\E key \in Dir : OwnerFrame(key))
  <2>1. HandleMove \/ inFlight' = inFlight
    BY <1>4, RestSteps
  <2>2. ~Pending => ~HandleMove
    BY DEF Pending, HandleMove
  <2> QED BY <1>2, <1>4, <2>1, <2>2, FrameSteps DEF Pending
<1> QED BY <1>3, <1>4

(* Both screens come to agree for good (ScreensAgree), if both actors stop *)
(* braking, the stale reports get through while the owner rests, and its   *)
(* reporting has begun.                                                    *)
THEOREM ScreensComeToAgree ==
  LiveSpec /\ []MoveCanStep /\ DueAtLast /\ OwnerHalts /\ RemoteHalts
    /\ ReportsGetThrough => ScreensAgree
<1> DEFINE Ready == RestInv /\ Rests /\ UpToDate
<1>1. RestInv /\ [Next]_vars => (Due => Due')
  BY FrameSteps
<1>2. RestInv /\ [Next]_vars /\ AtEase /\ AtEase' /\ Halted => Halted'
  <2> SUFFICES ASSUME RestInv, [Next]_vars, AtEase, AtEase', Halted
               PROVE  Halted'
    OBVIOUS
  <2>1. glide' \in Glide /\ Abs(glide) = 0
    BY RestInvStep, GlideFacts DEF RestInv, MoveInv, TypeOK, Halted
  <2> QED BY <2>1, OwnerBrakesStep, GlideFacts DEF Halted
<1>3. RestInv /\ [Next]_vars /\ RemoteAtEase /\ RemoteAtEase' /\ RHalted
        => RHalted'
  <2> SUFFICES ASSUME RestInv, [Next]_vars, RemoteAtEase, RemoteAtEase',
                      RHalted
               PROVE  RHalted'
    OBVIOUS
  <2>1. rGlide' \in Glide /\ Abs(rGlide) = 0
    BY RestInvStep, GlideFacts DEF RestInv, MoveInv, TypeOK, RHalted
  <2> QED BY <2>1, RemoteBrakesStep, GlideFacts DEF RHalted
<1>4. RestInv /\ [Next]_vars /\ Rests /\ Rests' /\ UpToDate
        => /\ UpToDate'
           /\ Pending => Pending' \/ HandleMove
           /\ HandleMove => Told' /\ (RHalted => Agrees')
           /\ Told => Told'
           /\ Agrees => Agrees'
           /\ ~Pending =>
                \/ ~(\E key \in Dir : OwnerFrame(key)) /\ ~Pending'
                \/ (\E key \in Dir : OwnerFrame(key)) /\ (Due => Pending')
  BY AgreeSteps DEF RHalted
<1>5. ~Pending => Room
  BY MoveAssumption DEF Pending, Room
<1>6. Rests <=> AtEase /\ Halted
  BY DEF Rests, Halted
<1>7. Rests /\ Told => RemoteAtEase
  BY DEF Rests, AtEase, Told, RemoteAtEase
<1>8. Agrees => rPos = pos
  BY DEF Agrees
<1>9. (entered /\ held = 0 /\ ~montage /\ ~rMontage) => AtEase
  BY DEF AtEase
<1>10. LiveSpec => []RestInv /\ [][Next]_vars
  BY RestInit, RestInvStep, PTL DEF LiveSpec, Spec
<1>11. LiveSpec /\ OwnerHalts /\ <>[]AtEase => <>[]Rests
  BY <1>2, <1>6, <1>10, PTL DEF OwnerHalts
<1>12. LiveSpec /\ ReportsGetThrough /\ <>[]Rests => <>[]Ready
  BY <1>4, <1>10, PTL DEF ReportsGetThrough
<1>13. LiveSpec /\ DueAtLast => <>[]Due
  BY <1>1, <1>10, PTL DEF DueAtLast
<1>14. LiveSpec /\ []MoveCanStep /\ <>[]Due /\ <>[]Ready => []<><<HandleMove>>_vars
  <2>1. RestInv /\ HandleMove => <<HandleMove>>_vars
    <3> SUFFICES ASSUME RestInv, HandleMove PROVE inFlight' # inFlight
      BY DEF vars
    <3>1. inFlight \in Seq(Reports) /\ inFlight # <<>>
      BY DEF RestInv, MoveInv, TypeOK, HandleMove, Reports
    <3>2. Len(inFlight) \in Nat /\ Len(Tail(inFlight)) = Len(inFlight) - 1
      BY <3>1
    <3>3. Tail(inFlight) # inFlight
      BY <3>2
    <3> QED BY <3>3 DEF HandleMove
  <2> QED BY <1>4, <1>5, <1>10, <2>1, PTL DEF LiveSpec, MoveCanStep
<1>15. LiveSpec /\ <>[]Ready /\ []<><<HandleMove>>_vars => <>[]Told
  BY <1>4, <1>10, PTL
<1>16. LiveSpec /\ RemoteHalts /\ <>[]Ready /\ <>[]Told => <>[]RHalted
  BY <1>3, <1>7, <1>10, PTL DEF RemoteHalts
<1>17. LiveSpec /\ <>[]Ready /\ <>[]RHalted /\ []<><<HandleMove>>_vars => <>[]Agrees
  BY <1>4, <1>10, PTL
<1> QED
  BY <1>8, <1>9, <1>11, <1>12, <1>13, <1>14, <1>15, <1>16, <1>17, PTL
     DEF ScreensAgree
=============================================================================
