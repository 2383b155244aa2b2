----------------------------- MODULE SearchEnemy -----------------------------
(***************************************************************************)
(* AClientPlayerController::HandleSearchEnemyAction without a target: the  *)
(* scan over the registry for the creature to lock on to.  The scan is one *)
(* loop over a TMap, whose order the program does not choose; it is        *)
(* modelled one creature at a time, in any order.                          *)
(*                                                                         *)
(* Angles and distances are floats in the code.  Here a creature has an    *)
(* integer dot, the cosine of its angle to the camera's forward vector in  *)
(* some unit, and an integer squared distance; rounding is left out, and   *)
(* so is a creature standing exactly where the player stands.              *)
(***************************************************************************)
EXTENDS Integers, FiniteSets

CONSTANTS
  Creature,          \* actors the registry lists
  MyPlayer,          \* the one of them IsMyPlayer holds for, or None
  None,              \* nullptr
  Dot, DistSq,       \* values of the cosine and of the squared distance
  MinDot,            \* cos(SearchEnemyAngle)
  MaxDistSq,         \* SearchEnemyDistn squared
  DotEpsilon,
  FloatMax           \* TNumericLimits<float>::Max()

ASSUME SearchEnemyAssumption ==
  /\ IsFiniteSet(Creature) /\ None \notin Creature
  /\ MyPlayer \in Creature \cup {None}
  /\ Dot \subseteq Int /\ MinDot \in Int
  /\ DotEpsilon \in Nat \ {0}
  /\ DistSq \subseteq Nat /\ MaxDistSq \in Nat
  /\ FloatMax \in Nat /\ \A d \in DistSq : d < FloatMax

VARIABLES
  dot, distSq,       \* per creature, seen from the local player
  scanning,          \* the loop has begun and its result is not sent yet
  todo,              \* creatures the loop has not come to
  best, bestDot, bestDistSq,
  selected           \* the target of the last C_SELECT_ENEMY

vars == <<dot, distSq, scanning, todo, best, bestDot, bestDistSq, selected>>
world == <<dot, distSq>>

Init ==
  /\ dot \in [Creature -> Dot]
  /\ distSq \in [Creature -> DistSq]
  /\ scanning = FALSE
  /\ todo = {}
  /\ best = None /\ bestDot = MinDot /\ bestDistSq = FloatMax
  /\ selected = None

-----------------------------------------------------------------------------
(* Between two scans the world goes on. *)
Moves(c) ==
  /\ ~scanning
  /\ \E d \in Dot : dot' = [dot EXCEPT ![c] = d]
  /\ \E d \in DistSq : distSq' = [distSq EXCEPT ![c] = d]
  /\ UNCHANGED <<scanning, todo, best, bestDot, bestDistSq, selected>>

(* The search key: every local starts at its initializer. *)
Begin ==
  /\ ~scanning
  /\ scanning' = TRUE
  /\ todo' = Creature
  /\ UNCHANGED <<dot, distSq, best, bestDot, bestDistSq, selected>>

(* In range, within the angle, and not the player itself ... *)
Eligible(c) ==
  /\ c # MyPlayer
  /\ distSq[c] <= MaxDistSq
  /\ dot[c] >= MinDot

BetterDot(c) == dot[c] > bestDot + DotEpsilon

(* Faults: definitions named ...Fault<X> are plausible mistakes in the      *)
(* definition that follows them.  No specification uses them.              *)
SameDotButCloserFaultEdge(c) == \* a gap between the two comparisons
  /\ dot[c] - bestDot < DotEpsilon /\ bestDot - dot[c] < DotEpsilon
  /\ distSq[c] < bestDistSq

SameDotButCloserFaultAbs(c) == \* no absolute value
  /\ dot[c] - bestDot <= DotEpsilon
  /\ distSq[c] < bestDistSq

SameDotButCloser(c) ==
  /\ dot[c] - bestDot <= DotEpsilon /\ bestDot - dot[c] <= DotEpsilon
  /\ distSq[c] < bestDistSq

KeepFaultDist(c) == best' = c /\ bestDot' = dot[c] /\ UNCHANGED bestDistSq
KeepFaultDot(c)  == best' = c /\ bestDistSq' = distSq[c] /\ UNCHANGED bestDot
KeepFaultSwap(c) == best' = c /\ bestDot' = distSq[c] /\ bestDistSq' = dot[c]

(* The creature becomes the best so far. *)
Keep(c) == best' = c /\ bestDot' = dot[c] /\ bestDistSq' = distSq[c]

(* One turn of the loop: ... replaces the best so far when it is clearly   *)
(* more ahead, or about as much ahead and closer.                          *)
Visit(c) ==
  /\ c \in todo
  /\ todo' = todo \ {c}
  /\ IF Eligible(c) /\ (BetterDot(c) \/ SameDotButCloser(c))
       THEN Keep(c) ELSE UNCHANGED <<best, bestDot, bestDistSq>>
  /\ UNCHANGED <<dot, distSq, scanning, selected>>

(* The best one, if there is one, is sent to the server.  The locals of    *)
(* the handler go out of scope: they are back at their initializers.       *)
Select ==
  /\ scanning /\ todo = {}
  /\ scanning' = FALSE
  /\ selected' = IF best # None THEN best ELSE selected
  /\ best' = None /\ bestDot' = MinDot /\ bestDistSq' = FloatMax
  /\ UNCHANGED <<dot, distSq, todo>>

Next == Begin \/ Select \/ \E c \in Creature : Moves(c) \/ Visit(c)

Spec == Init /\ [][Next]_vars

-----------------------------------------------------------------------------
(* The creatures the loop has come to and could choose from. *)
Candidates == {c \in Creature \ todo : Eligible(c)}

TypeOK ==
  /\ dot \in [Creature -> Dot] /\ distSq \in [Creature -> DistSq]
  /\ scanning \in BOOLEAN
  /\ todo \in SUBSET Creature
  /\ best \in Creature \cup {None}
  /\ bestDot \in Int /\ bestDistSq \in DistSq \cup {FloatMax}
  /\ selected \in Creature \cup {None}

(* The scan finds somebody exactly when somebody is in range and within    *)
(* the angle, the edge of both included: starting from BestDot = MinDot    *)
(* with a tolerance loses nobody (ClientPlayerController.cpp:199).         *)
FoundIfAny ==
  scanning => /\ best \in Candidates \cup {None}
              /\ best = None <=> Candidates = {}

(* A creature ahead of every other by more than the tolerance is the one   *)
(* chosen, in whatever order the map is walked and however close the       *)
(* others are.                                                             *)
ClearlyAheadWins ==
  scanning => \A c \in Candidates :
    (\A d \in Candidates \ {c} : dot[c] > dot[d] + DotEpsilon) => best = c

(* When all the candidates are within the tolerance of one another, the    *)
(* closest is chosen, in whatever order the map is walked.                 *)
ClosestOfEqualsWins ==
  scanning =>
    \/ best = None
    \/ \E c, d \in Candidates : dot[c] - dot[d] > DotEpsilon
    \/ \A c \in Candidates : distSq[best] <= distSq[c]

(* "About as much ahead" is not transitive: each replacement by a closer   *)
(* creature can give away one tolerance.  It adds up to no more than one   *)
(* for each candidate but the first.                                       *)
DriftBounded ==
  scanning => \A c \in Candidates :
    dot[c] <= bestDot + DotEpsilon * (Cardinality(Candidates) - 1)
=============================================================================
