-------------------------- MODULE SearchEnemyProofs --------------------------
(***************************************************************************)
(* Proofs about the enemy search, for every set of creatures, every world  *)
(* and every tolerance.                                                    *)
(*                                                                         *)
(* Each property of the scan is stated for the creatures visited so far,   *)
(* so that it is close to inductive; what has to be added is Locals: the   *)
(* dot and the distance kept are those of the best creature.               *)
(***************************************************************************)
EXTENDS SearchEnemy, FiniteSetTheorems, TLAPS

Locals ==
  /\ ~scanning => todo = {} /\ best = None
  /\ best = None => bestDot = MinDot /\ bestDistSq = FloatMax
  /\ best # None => /\ best \in Candidates
                    /\ bestDot = dot[best] /\ bestDistSq = distSq[best]

ScanInv ==
  /\ TypeOK
  /\ Locals
  /\ FoundIfAny
  /\ ClearlyAheadWins
  /\ ClosestOfEqualsWins
  /\ DriftBounded

Better(c) == BetterDot(c) \/ SameDotButCloser(c)

-----------------------------------------------------------------------------
(* A step of the loop leaves the world alone and adds the creature visited *)
(* to the candidates, if it is eligible.                                   *)
LEMMA VisitCandidates ==
  ASSUME TypeOK, NEW c \in Creature, Visit(c)
  PROVE  /\ c \notin Candidates
         /\ Candidates' = Candidates \cup (IF Eligible(c) THEN {c} ELSE {})
BY DEF TypeOK, Visit, Candidates, Eligible

(* The first eligible creature is always taken: BestDot starts no higher   *)
(* than any of them and BestDistSq above every distance.                   *)
LEMMA FirstIsTaken ==
  ASSUME TypeOK, Locals, best = None, NEW c \in Creature, Eligible(c)
  PROVE  Better(c)
<1>1. /\ dot[c] \in Int /\ bestDot = MinDot /\ dot[c] >= MinDot
      /\ distSq[c] < bestDistSq
  BY SearchEnemyAssumption DEF TypeOK, Locals, Eligible
<1> QED  BY <1>1, SearchEnemyAssumption
         DEF Better, BetterDot, SameDotButCloser

(* A tolerance more for one step of drift. *)
LEMMA DriftAdds ==
  ASSUME NEW x \in Int, NEW b \in Int, NEW c \in Int, NEW e \in Int,
         NEW p \in Int, NEW q \in Int,
         x <= b + p, b <= c + e, q = p + e
  PROVE  x <= c + q
OBVIOUS

LEMMA CandidatesFinite ==
  ASSUME TypeOK
  PROVE  IsFiniteSet(Candidates) /\ Cardinality(Candidates) \in Nat
<1>1. Candidates \subseteq Creature
  BY DEF Candidates
<1> QED  BY <1>1, FS_Subset, FS_CardinalityType, SearchEnemyAssumption

-----------------------------------------------------------------------------
(* One visit, property by property. *)

LEMMA VisitTypes ==
  ASSUME TypeOK, Locals, NEW c \in Creature, Visit(c)
  PROVE  TypeOK'
<1>1. dot[c] \in Int /\ distSq[c] \in DistSq
  BY SearchEnemyAssumption DEF TypeOK
<1> QED  BY <1>1 DEF TypeOK, Visit, Keep

LEMMA VisitLocals ==
  ASSUME TypeOK, Locals, NEW c \in Creature, Visit(c)
  PROVE  scanning /\ scanning' /\ Locals'
<1>1. scanning /\ scanning'
  BY DEF Locals, Visit
<1>2. c # None
  BY SearchEnemyAssumption
<1>3. CASE Eligible(c) /\ Better(c)
  <2>1. /\ best' = c /\ bestDot' = dot'[c] /\ bestDistSq' = distSq'[c]
        /\ c \in Candidates'
    BY <1>3, VisitCandidates DEF Visit, Keep, Better
  <2> QED  BY <1>1, <1>2, <2>1 DEF Locals
<1>4. CASE ~(Eligible(c) /\ Better(c))
  <2>1. UNCHANGED <<best, bestDot, bestDistSq, dot, distSq>>
    BY <1>4 DEF Visit, Keep, Better
  <2>2. Candidates \subseteq Candidates'
    BY VisitCandidates
  <2> QED  BY <1>1, <2>1, <2>2 DEF Locals
<1> QED  BY <1>3, <1>4

LEMMA VisitFound ==
  ASSUME TypeOK, Locals, FoundIfAny, NEW c \in Creature, Visit(c)
  PROVE  FoundIfAny'
<1>1. scanning /\ Locals'
  BY VisitLocals
<1>2. c # None
  BY SearchEnemyAssumption
<1>3. CASE Eligible(c) /\ Better(c)
  BY <1>1, <1>2, <1>3, VisitCandidates DEF Visit, Keep, Better, FoundIfAny
<1>4. CASE Eligible(c) /\ ~Better(c)
  <2>1. best # None /\ best' = best
    BY <1>4, FirstIsTaken DEF Visit, Keep, Better
  <2> QED  BY <1>1, <1>4, <2>1, VisitCandidates DEF FoundIfAny
<1>5. CASE ~Eligible(c)
  BY <1>1, <1>5, VisitCandidates DEF Visit, FoundIfAny
<1> QED  BY <1>3, <1>4, <1>5

LEMMA VisitClearlyAhead ==
  ASSUME TypeOK, Locals, FoundIfAny, ClearlyAheadWins,
         NEW c \in Creature, Visit(c)
  PROVE  ClearlyAheadWins'
<1>1. scanning /\ scanning' /\ dot' = dot
  BY VisitLocals DEF Visit
<1> SUFFICES ASSUME NEW x \in Candidates',
                    \A d \in Candidates' \ {x} : dot[x] > dot[d] + DotEpsilon
             PROVE  best' = x
  BY <1>1 DEF ClearlyAheadWins
<1>2. /\ Candidates \subseteq Creature /\ c \notin Candidates
      /\ \A d \in Creature : dot[d] \in Int
      /\ bestDot \in Int
  BY VisitCandidates, SearchEnemyAssumption DEF TypeOK, Candidates
<1>3. CASE x = c
  <2>1. Eligible(c)
    BY <1>3, <1>2, VisitCandidates
  <2>2. CASE best = None
    BY <1>3, <2>1, <2>2, FirstIsTaken DEF Visit, Keep, Better
  <2>3. CASE best # None
    <3>1. best \in Candidates' \ {c} /\ bestDot = dot[best]
      BY <2>3, <1>2, VisitCandidates DEF Locals
    <3>2. BetterDot(c)
      BY <1>3, <3>1 DEF BetterDot
    <3> QED  BY <1>3, <2>1, <3>2 DEF Visit, Keep
  <2> QED  BY <2>2, <2>3
<1>4. CASE x # c
  <2>1. x \in Candidates /\ Candidates \subseteq Candidates'
    BY <1>4, VisitCandidates
  <2>2. best = x
    BY <1>1, <2>1 DEF ClearlyAheadWins
  <2>3. bestDot = dot[x]
    BY <2>1, <2>2, <1>2, SearchEnemyAssumption DEF Locals
  <2>4. CASE Eligible(c)
    <3>1. c \in Candidates' \ {x}
      BY <1>4, <2>4, VisitCandidates
    <3>2. dot[x] > dot[c] + DotEpsilon
      BY <3>1
    <3>3. ~BetterDot(c) /\ ~SameDotButCloser(c)
      BY <1>2, <2>1, <2>3, <3>2, SearchEnemyAssumption
      DEF BetterDot, SameDotButCloser
    <3> QED  BY <2>2, <3>3 DEF Visit
  <2>5. CASE ~Eligible(c)
    BY <2>2, <2>5 DEF Visit
  <2> QED  BY <2>4, <2>5
<1> QED  BY <1>3, <1>4

LEMMA VisitClosest ==
  ASSUME TypeOK, Locals, FoundIfAny, ClosestOfEqualsWins,
         NEW c \in Creature, Visit(c)
  PROVE  ClosestOfEqualsWins'
<1>1. scanning /\ scanning' /\ dot' = dot /\ distSq' = distSq
  BY VisitLocals DEF Visit
<1> SUFFICES ASSUME best' # None,
                    \A x, y \in Candidates' : ~(dot[x] - dot[y] > DotEpsilon)
             PROVE  \A x \in Candidates' : distSq[best'] <= distSq[x]
  BY <1>1 DEF ClosestOfEqualsWins
<1>2. /\ Candidates \subseteq Creature /\ Candidates \subseteq Candidates'
      /\ \A d \in Creature : dot[d] \in Int /\ distSq[d] \in Nat
      /\ bestDot \in Int
  BY VisitCandidates, SearchEnemyAssumption DEF TypeOK, Candidates
<1>3. CASE ~Eligible(c)
  <2>1. Candidates' = Candidates /\ best' = best
    BY <1>3, VisitCandidates DEF Visit
  <2> QED  BY <1>1, <2>1 DEF ClosestOfEqualsWins
<1>4. CASE Eligible(c) /\ best = None
  <2>1. Candidates' = {c} /\ best' = c
    BY <1>1, <1>4, VisitCandidates, FirstIsTaken
    DEF FoundIfAny, Visit, Keep, Better
  <2> QED  BY <2>1, <1>2
<1>5. CASE Eligible(c) /\ best # None
  <2>1. Candidates' = Candidates \cup {c}
    BY <1>5, VisitCandidates
  <2>2. /\ best \in Candidates
        /\ bestDot = dot[best] /\ bestDistSq = distSq[best]
    BY <1>5 DEF Locals
  <2>3. \A x \in Candidates : distSq[best] <= distSq[x]
    BY <1>1, <1>2, <1>5 DEF ClosestOfEqualsWins
  <2>4. ~(dot[c] - dot[best] > DotEpsilon) /\ ~(dot[best] - dot[c] > DotEpsilon)
    BY <2>1, <2>2
  <2>5. ~BetterDot(c) /\ (SameDotButCloser(c) <=> distSq[c] < distSq[best])
    BY <1>2, <2>2, <2>4, SearchEnemyAssumption
    DEF BetterDot, SameDotButCloser
  <2>6. best' = IF distSq[c] < distSq[best] THEN c ELSE best
    BY <1>5, <2>5 DEF Visit, Keep
  <2>7. best \in Creature /\ distSq[best] \in Nat /\ distSq[c] \in Nat
    BY <1>2, <2>2
  <2>8. CASE distSq[c] < distSq[best]
    BY <1>2, <2>1, <2>3, <2>6, <2>7, <2>8
  <2>9. CASE ~(distSq[c] < distSq[best])
    BY <1>2, <2>1, <2>3, <2>6, <2>7, <2>9
  <2> QED  BY <2>8, <2>9
<1> QED  BY <1>3, <1>4, <1>5

LEMMA VisitDrift ==
  ASSUME TypeOK, Locals, FoundIfAny, DriftBounded,
         NEW c \in Creature, Visit(c)
  PROVE  DriftBounded'
<1>1. scanning /\ scanning' /\ dot' = dot /\ distSq' = distSq
  BY VisitLocals DEF Visit
<1> DEFINE n == Cardinality(Candidates)
<1>2. /\ Candidates \subseteq Creature /\ c \notin Candidates
      /\ \A d \in Creature : dot[d] \in Int
      /\ bestDot \in Int /\ n \in Nat /\ DotEpsilon \in Nat
  BY VisitCandidates, CandidatesFinite, SearchEnemyAssumption
  DEF TypeOK, Candidates
<1>3. CASE ~Eligible(c)
  <2>1. Candidates' = Candidates /\ bestDot' = bestDot
    BY <1>3, VisitCandidates DEF Visit
  <2> QED  BY <1>1, <2>1 DEF DriftBounded
<1>4. CASE Eligible(c) /\ best = None
  <2>1. Candidates' = {c} /\ bestDot' = dot[c]
    BY <1>1, <1>4, VisitCandidates, FirstIsTaken
    DEF FoundIfAny, Visit, Keep, Better
  <2>2. Cardinality({c}) = 1
    BY FS_Singleton
  <2>3. dot[c] <= dot[c] + DotEpsilon * (1 - 1)
    BY <1>2
  <2> QED  BY <1>1, <2>1, <2>2, <2>3 DEF DriftBounded
<1>5. CASE Eligible(c) /\ best # None
  <2>1. /\ Candidates' = Candidates \cup {c}
        /\ Cardinality(Candidates') = n + 1
    BY <1>2, <1>5, VisitCandidates, CandidatesFinite, FS_AddElement
  <2>2. best \in Candidates /\ bestDot = dot[best]
    BY <1>5 DEF Locals
  <2>3. n >= 1
    BY <1>2, <2>2, CandidatesFinite, FS_EmptySet
  <2>4. \A x \in Candidates : dot[x] <= bestDot + DotEpsilon * (n - 1)
    BY <1>1 DEF DriftBounded
  <2>5. bestDot' \in Int /\ bestDot <= bestDot' + DotEpsilon
    BY <1>2, <1>5 DEF Visit, Keep, BetterDot, SameDotButCloser
  <2>6. dot[c] <= bestDot' + DotEpsilon
    BY <1>2, <1>5 DEF Visit, Keep, BetterDot, SameDotButCloser
  <2>7. /\ DotEpsilon * n = DotEpsilon * (n - 1) + DotEpsilon
        /\ DotEpsilon * n >= DotEpsilon
        /\ DotEpsilon * (n - 1) \in Int
    BY <1>2, <2>3
  <2>8. ASSUME NEW x \in Candidates'
        PROVE  dot[x] <= bestDot' + DotEpsilon * n
    <3>1. CASE x = c
      BY <1>2, <2>5, <2>6, <2>7, <3>1
    <3>2. CASE x # c
      <4>1. x \in Candidates
        BY <2>1, <3>2
      <4>2. dot[x] <= bestDot + DotEpsilon * (n - 1) /\ dot[x] \in Int
        BY <4>1, <2>4, <1>2
      <4>3. DotEpsilon * n \in Int
        BY <1>2
      <4> DEFINE p == DotEpsilon * (n - 1)
                 q == DotEpsilon * n
      <4>4. p \in Int /\ q \in Int /\ q = p + DotEpsilon /\ DotEpsilon \in Int
        BY <1>2, <2>7, <4>3
      <4>5. dot[x] <= bestDot + p
        BY <4>2
      <4> HIDE DEF p, q
      <4>6. dot[x] <= bestDot' + q
        BY <4>2, <4>4, <4>5, <1>2, <2>5, DriftAdds
      <4> QED  BY <4>6 DEF q
    <3> QED  BY <3>1, <3>2
  <2>9. (n + 1) - 1 = n
    BY <1>2
  <2> QED  BY <1>1, <2>1, <2>8, <2>9 DEF DriftBounded
<1> QED  BY <1>3, <1>4, <1>5

-----------------------------------------------------------------------------
LEMMA InitScan == Init => ScanInv
BY SearchEnemyAssumption
DEF Init, ScanInv, TypeOK, Locals, FoundIfAny, ClearlyAheadWins,
    ClosestOfEqualsWins, DriftBounded

(* The scan begins with nobody visited. *)
LEMMA BeginScan ==
  ASSUME ScanInv, Begin
  PROVE  ScanInv'
<1>1. TypeOK'
  BY DEF ScanInv, TypeOK, Begin
<1>2. Candidates' = {} /\ best' = None
  BY DEF ScanInv, Locals, Candidates, Begin
<1>3. Locals'
  BY <1>2 DEF ScanInv, Locals, Begin
<1> QED  BY <1>1, <1>2, <1>3
         DEF ScanInv, FoundIfAny, ClearlyAheadWins, ClosestOfEqualsWins,
             DriftBounded

(* Outside a scan, only the types and the locals say anything. *)
LEMMA IdleScan ==
  ASSUME TypeOK', ~scanning', todo' = {}, best' = None,
         bestDot' = MinDot, bestDistSq' = FloatMax
  PROVE  ScanInv'
BY DEF ScanInv, Locals, FoundIfAny, ClearlyAheadWins, ClosestOfEqualsWins,
       DriftBounded

LEMMA NextScan == ScanInv /\ [Next]_vars => ScanInv'
<1> SUFFICES ASSUME ScanInv, [Next]_vars
             PROVE  ScanInv'
  OBVIOUS
<1>1. CASE Begin
  BY <1>1, BeginScan
<1>2. CASE Select
  <2>1. TypeOK'
    BY <1>2, SearchEnemyAssumption DEF ScanInv, TypeOK, Select
  <2> QED  BY <1>2, <2>1, IdleScan DEF Select
<1>3. ASSUME NEW c \in Creature, Moves(c)
      PROVE  ScanInv'
  <2>1. TypeOK'
    BY <1>3 DEF ScanInv, TypeOK, Moves
  <2> QED  BY <1>3, <2>1, IdleScan DEF ScanInv, Locals, Moves
<1>4. ASSUME NEW c \in Creature, Visit(c)
      PROVE  ScanInv'
  BY <1>4, VisitTypes, VisitLocals, VisitFound, VisitClearlyAhead,
     VisitClosest, VisitDrift DEF ScanInv
<1>5. CASE UNCHANGED vars
  BY <1>5 DEF vars, ScanInv, TypeOK, Locals, Candidates, Eligible, FoundIfAny,
              ClearlyAheadWins, ClosestOfEqualsWins, DriftBounded
<1> QED  BY <1>1, <1>2, <1>3, <1>4, <1>5 DEF Next

LEMMA ScanAlways == Spec => []ScanInv
BY InitScan, NextScan, PTL DEF Spec

-----------------------------------------------------------------------------
(* HandleSearchEnemyAction finds somebody exactly when somebody can be     *)
(* found, whatever the world, the angle and the tolerance.                 *)
THEOREM AlwaysFoundIfAny == Spec => []FoundIfAny
<1>1. ScanInv => FoundIfAny
  BY DEF ScanInv
<1> QED  BY <1>1, ScanAlways, PTL

(* The creature clearly ahead of the others is chosen in every order of    *)
(* the map.                                                                *)
THEOREM ClearlyAheadAlwaysWins == Spec => []ClearlyAheadWins
<1>1. ScanInv => ClearlyAheadWins
  BY DEF ScanInv
<1> QED  BY <1>1, ScanAlways, PTL

(* Among creatures about as much ahead, the closest is chosen in every     *)
(* order of the map.                                                       *)
THEOREM ClosestOfEqualsAlwaysWins == Spec => []ClosestOfEqualsWins
<1>1. ScanInv => ClosestOfEqualsWins
  BY DEF ScanInv
<1> QED  BY <1>1, ScanAlways, PTL

(* However many creatures are in sight, the choice is worse than the best  *)
(* aligned one by at most a tolerance for each candidate but the first.    *)
THEOREM DriftAlwaysBounded == Spec => []DriftBounded
<1>1. ScanInv => DriftBounded
  BY DEF ScanInv
<1> QED  BY <1>1, ScanAlways, PTL

(* Every local and every message keeps its type. *)
THEOREM ScanTypeCorrect == Spec => []TypeOK
<1>1. ScanInv => TypeOK
  BY DEF ScanInv
<1> QED  BY <1>1, ScanAlways, PTL

-----------------------------------------------------------------------------
(* The creatures the handler may choose, the world being what it is. *)
InView == {c \in Creature : Eligible(c)}

(* What C_SELECT_ENEMY carries when the handler is through: nobody new if  *)
(* nobody is in view; otherwise somebody in view, never the player itself, *)
(* the one clearly ahead if there is one, and else nobody ahead of it by   *)
(* more than a tolerance for each of the others in view.                   *)
ChoiceSound ==
  IF InView = {}
    THEN UNCHANGED selected
    ELSE /\ selected' \in InView \ {MyPlayer}
         /\ \A c \in InView :
              /\ (\A d \in InView \ {c} : dot[c] > dot[d] + DotEpsilon)
                   => selected' = c
              /\ dot[c] <= dot[selected']
                             + DotEpsilon * (Cardinality(InView) - 1)

(* The handler's choice is sound for every world, in every order of the    *)
(* map: what the loop keeps turn by turn holds of all creatures when it    *)
(* has come to its end (ClientPlayerController.cpp:202-240).               *)
THEOREM EveryChoiceSound == Spec => [][Select => ChoiceSound]_vars
<1>1. ScanInv /\ [Next]_vars => [Select => ChoiceSound]_vars
  <2> SUFFICES ASSUME ScanInv, Select PROVE ChoiceSound
    OBVIOUS
  <2>1. scanning /\ Candidates = InView
    BY DEF Select, Candidates, InView
  <2>2. best # None =>
          best \in InView /\ bestDot = dot[best] /\ best # MyPlayer
    BY <2>1 DEF ScanInv, Locals, InView, Eligible
  <2>3. best = None <=> InView = {}
    BY <2>1 DEF ScanInv, FoundIfAny
  <2>4. selected' = IF best # None THEN best ELSE selected
    BY DEF Select
  <2>5. \A c \in InView :
          /\ (\A d \in InView \ {c} : dot[c] > dot[d] + DotEpsilon) => best = c
          /\ dot[c] <= bestDot + DotEpsilon * (Cardinality(InView) - 1)
    BY <2>1 DEF ScanInv, ClearlyAheadWins, DriftBounded
  <2> QED BY <2>2, <2>3, <2>4, <2>5 DEF ChoiceSound
<1> QED BY <1>1, ScanAlways, PTL DEF Spec
=============================================================================
