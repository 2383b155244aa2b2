# The game client, in TLA+

This directory holds TLA+ models of the client in `Source/UE5_CppServer` (an
Unreal Engine 5 client of a separate game server), the TLC configurations that
check them on small instances, and proofs, checked by TLAPS, that the main
properties hold for every value of the parameters.

File names without a directory are those of `Source/UE5_CppServer`.

## 1. The system

| component | state | operations | talks to |
|---|---|---|---|
| `RecvWorker` (NetworkWorker.cpp) | `Running`, header and body buffers | `Run`, `RecvPacket`, `RecvDesiredBytes`, `Stop`, `WaitForThread` | reads the socket, enqueues into `RecvPacketQueue`; own thread |
| `SendWorker` (NetworkWorker.cpp) | `Running` | `Run`, `SendPacket`, `SendDesiredBytes`, `Stop`, `WaitForThread` | dequeues from `SendPacketQueue`, writes the socket; own thread |
| `PacketSession` | two lock-free queues, two workers | `Run`, `SendPacket`, `HandleRecvPackets`, `StopThread`, `WaitForThread`, `DestroyThread` | owned by the network manager; shared with both threads |
| `UNetworkManager` | `Socket`, `ClientSession` | `ConnectServer`, `HandleRecvPackets`, `SendPacket`, `DisconnectServer`, `Deinitialize` | called by the level blueprint and by gameplay |
| `ServerPacketHandler` | table of handlers, `PlayerId` | `HandlePacket`, `Handle_S_*`, `MakePKTSendBuffer` | called per packet by the session; calls `UGameManager` |
| `UGameManager` | `Players` (id -> actor), `MyPlayer` | `HandleSpawn`, `HandleDespawn`, `HandleMove`, `HandleSkill`, `HandleDamaged`, `HandleParry`, `HandleSelectEnemy`, `IsMyPlayer` | writes the state of actors |
| `APlayerBase`, `AClientPlayer` | `ObjectInfo` (id, position, action state, skill), `DestnInfo`, `MoveDir`, `Target`, camera state, `ParryAttackInfo` | `OnDamaged`, `Parry`, `UseSkill`, `MoveSync`, `SetCameraState` | written by packets, inputs and the animation |
| `AClientPlayerController` | bindings | move, skill, mouse and search-enemy handlers | writes the player's state, sends packets |
| `UPlayerAnimInstance` and notifies | `PrevState`, `CurPlayingAttackSkill`, `PlayParryTiming`, `PlayAttackInterruptedTiming` | `NativeUpdateAnimation` and its `Play*` functions, `SlowEffect_End` | reads and ends the player's combat states |

The game thread runs everything but the two workers. A frame is: the level's
tick drains `RecvPacketQueue` into the packet handlers; inputs; actor ticks;
animation updates. The program fixes no order between these. The server, the
network and the engine's montage playback are outside the repository.

What is hard here:

* three threads on one socket and two queues without a lock; joining and
  freeing them at the end (`ClientSession`);
* framing a byte stream with reads that may come short (`RecvWorker`);
* packets about creatures that come and go, kept in a map whose entries are
  dereferenced without a test (`GameManager`);
* one action state written by four parties, ended only by an animation, with
  flags that survive from one fight into the next (`PlayerCombat`);
* the same fight on another client, which hears of it from the server and, later
  and with old states, from the player itself (`RemoteCombat`);
* a choice made by a loop over an unordered map with a tolerance
  (`SearchEnemy`);
* a player shown on two screens, one of them guessing between reports
  (`MoveSync`).

The list `hazards` in `PROJECT.json` places each of these at its line, with the
properties that would catch it going wrong.

## 2. Modules

```
PacketChannel            what a direction of the connection promises (abstract)
  ^            ^
RecvWorker   ClientSession        both refine it (INSTANCE ... WITH)
GameManager
ActionState              what may happen to a player's state and skill (abstract)
  ^
PlayerAnimation          UPlayerAnimInstance of one player (EXTENDS ActionState)
  ^            ^
PlayerCombat   RemoteCombat       the local player; another client's player,
                                  whose owner is an INSTANCE of ActionState
SearchEnemy
MoveSync                 one player on two clients
MC<Module>               instances for TLC
<Module>Proofs           theorems; AnimationLemmas: one step of PlayerAnimation
```

Definitions named `...Fault...` are plausible mistakes in the definition that
follows them: a dropped join, a reset forgotten. No specification uses them;
each property is known to fail when the one named for it is put in its place.

### PacketChannel
`written` and `queued`: packets are delivered in order, whole, none twice. No
promise about time. It is the specification of both directions.

### RecvWorker
One action per socket call of the receiving thread. A byte is its offset in the
stream; a packet is the offset of its header and its body's size. `pc` follows
the thread: `PollHeader` is the `HasPendingData` test for a header, `HeaderPart`
a `Recv` that comes short, `HeaderDone` the last one with the parsing after it,
`PollBody` the second `HasPendingData` test, `DropHeader` its failure,
`BodyPart` the body's reads, `RecvFails` a read that returns nothing because
the connection has ended. `Stop` is what the game thread does. `BytesArrive`
delivers up to any offset.

With TCP a delivery may end exactly between a header and its body. There the
thread drops the header (`dropped`), and loses step with the stream; every
property but `HeaderAtPacketStart` says what is right until then.

### ClientSession
`main` follows the game thread through `ConnectServer` (`ConnectServer`,
`StartSendWorker`, `SendLogin`: both threads run before `C_LOGIN` is queued),
the level's tick (`HandleRecvPackets`, `HandlePacket` per dequeued packet, with
the `C_ENTER_GAME` that `Handle_S_LOGIN` sends, `HandledAll`), gameplay's sends,
and `Deinitialize`, one action per thread it stops, joins or frees. `recvPc`
and `sendPc` follow the two threads between accesses to shared state. `left`
counts the pieces a packet's `Send` calls have still to carry.

Here the receiving thread takes whole packets as long as it is in step with the
stream. Of what `RecvWorker` shows to happen otherwise it keeps all the outcomes:
`RecvDrops` is the header lost because nothing of its body is pending
(`dropped`), after which `RecvPacket` returns anything (`ForeignPacket`), returns
nothing, or blocks for ever. It may also crash the process: that is a behaviour
in which only the server takes further steps. `Returned` is what `RecvPacket` has
returned, in step and out of it. The end of the game is possible at any time,
also without a connection.

### GameManager
One action per packet handler; handlers run to completion, in the server's
order. An actor is a model value, an `ObjectInfo` its id. `Spawn(ids)` and
`Despawn(ids)` are whole packets. `IsMyPlayer` is modelled with its widths:
the `uint64` id is narrowed to `int32` and widened by the comparison.
`Parry(actor)` is the late `APlayerBase::Parry`, which copies the `ObjectInfo`
kept from `S_PARRY` without asking whether there is one. An actor that was
listed or moved into PARRY, and whose `S_PARRY` this client was never sent,
takes over a default one: its id is 0 until the next packet about it, and if it
leaves meanwhile `HandleDespawn` does not clear `MyPlayer` for it. `blank` is the
history of these actors.

### ActionState
Two fields of an `ObjectInfo`, `action_state` and `skill_info`, and who may
change them how: the packets about the player (`Handle`), the end of the
animations (`Finish`), a parry that restores its skill, and two inputs. It says
nothing of montages, flags or cameras.

### PlayerAnimation
`NativeUpdateAnimation`, one action per state it switches on, with what
`CheckConvertStateToBattle` does at its end; `SlowEffect_End` at the hit point;
the end of a montage. Of the montage playing it keeps the kind and whether the
hit point is ahead. `due` is a history: attack montages that packets have asked
for, less those started. The state NONE is the one of the default `ObjectInfo` a
parry without its `S_PARRY` copies.

### PlayerCombat
The local player after entering the game. Inputs, packet handlers,
`PlayerAnimation` and the engine's montage events interleave freely, and add
`target` and `camera` to its variables: `Update` and `HandleSelectEnemy` turn
the camera, `LockOff` turns it back. The two requests it sends, `C_SKILL` and
`C_SELECT_ENEMY`, stay under way (`asked`, `selecting`) until the server grants
or refuses them, in the middle of whatever happens by then. `AskLockOn` stands
for a search that found somebody. `cut`, `movedIn`, `hitInParry` and `early` are
histories for the properties.

`S_MOVE` about the local player is left out here and in `MoveSync`. `HandleMove`
filters it until a first `S_DESPAWN` has cleared `MyPlayer` (`registry_move`); from
then on it copies an older report of the player's own onto it, and what the
two modules say of the local player no longer covers the code.

### RemoteCombat
The fight of one player, seen by another client, which may have been shown the
player in the middle of it: `Init` lets owner and actor be in any states of a
fight, which need not be the same, the viewer having missed the packets that led
to them. The server tells both clients (`ServerSends`). Of the owner the module
knows what `ActionState` says, which `PlayerCombat` is proved to implement
(`CombatImplementsActionState`); at any time it reports its whole `ObjectInfo` (`OwnerReports`, `C_MOVE` relayed as
`S_MOVE`). On the viewer's side the packet handlers write the actor's state and
skill and `PlayerAnimation` runs on it. Packets and reports reach the viewer in
the order they passed the server; how far the two clients are behind it, and
each other, is open. `APlayerBase` has no camera state.

### SearchEnemy
`HandleSearchEnemyAction` without a target. `Visit(c)` is one turn of the loop,
in any order; the locals `best`, `bestDot`, `bestDistSq` are variables. Cosines
and distances are integers. Between scans creatures move (`Moves`).

### MoveSync
One player twice: as the `AClientPlayer` of its owner, and as an `APlayerBase`
on another client. `OwnerFrame(key)` is a frame of the owner: the move key's
handler (`Triggered` or `Completed`), `ACreature::Tick` and `MoveSync`, which
may report place, direction and state, then the movement itself. `HandleMove` is
`S_MOVE` on the other client, `RemoteFrame` its `APlayerBase::MoveSync`. Places are
points of a line between walls. The owner's action states are told apart only by
`IsMoveState`; `StateChanges` and `RemoteMontages` let them, and montages, come and
go at any time. Whether the remote actor is in a move state is open in every
frame: what it is depends on packets and on its animation (`RemoteCombat`).
`carried` is a history for `RestIsClose`. Before `S_ENTER_GAME` the pawn takes itself
for another player's and moves by `MoveDir` too.

Velocity belongs to Unreal's `CharacterMovement`; the code neither sets it nor
clears it, and `SetActorLocation` leaves it alone (GameManager.cpp:146). The model
keeps of it `glide`: to which side an actor still moves when its input ends, and
over how many places at most. An input turns the glide its way, without one it
runs down, and in a frame the actor moves on by a place or stays. So an actor
put at the place of a report that says it stands brakes away from there.

## 3. What the runs check

| run | asks | bounds |
|---|---|---|
| `recv` | however deliveries are split: until a header is dropped, the thread is in step with the stream (`InStepUntilDropped`) and refines `PacketChannel` (`ChannelUntilDropped`); every packet is enqueued, `Stop` ends the thread | 3 packets, headers of 2 bytes, bodies of 0, 1, 2 |
| `recv_desync` | **violated**: every header parsed is one (`HeaderAtPacketStart`) | 2 packets |
| `session` | no use after free, order in both directions, `C_LOGIN` first, both directions refine `PacketChannel`; until a header is dropped, arrived packets are handled, queued ones sent, and `Deinitialize` ends | 2 packets of the server, of 2 kinds; 1 packet read out of step; gameplay stops at 2 queued; packets of 2 pieces |
| `registry` | list = what the server announced, entries alive and never carrying another creature's id, `MyPlayer` listed, `S_MOVE` spares exactly the local player (before any despawn, ids below 2^31), targets alive when taken | 3 ids, one too large for the narrow int and one that collides in it; 3 actors besides the pawn |
| `registry_move` | **violated**: `S_MOVE` never moves the local pawn | the same |
| `combat` | an attack montage starts at most once per packet; out of combat no skill and no parry view is left over, and a target that is set is in view (`TargetInView`); combat states end, skills are released; it refines `ActionState` | 4 packets, 2 unanswered skill requests, 1 unanswered lock-on, 1 skill |
| `combat_move` | **violated**: moves only in MOVE or BATTLE | 2 packets |
| `combat_parry` | **violated**: the parry montage starts at the hit point | 4 packets |
| `remote` | an actor out of combat carries no skill on the other client either (`FreeActorIsClean`); once the owner rests, the actor takes up its state and skill for good (`ViewerSettles`) | any state of a fight to begin with; 1 packet of the server, 2 messages under way when a report is made, 1 skill |
| `remote_attack` | **violated**: an attack montage starts at most once per packet on that actor | the same |
| `search_enemy` | somebody is found exactly when somebody can be; the clearly most central wins, the closest of equals wins, whatever the order; the drift of the tolerance is bounded | 3 candidates and the player; 5 dots, 3 distances |
| `movement` | a stop is always reported (`StopIsReported`); a remote actor reported standing is no further from there than it may still brake (`RestIsClose`); once the owner rests both screens agree for good (`ScreensAgree`) | 3 places, spawn in the middle, a glide of 1 place, a period of 2 frames, 2 reports under way |

Why the bounds are enough. `RecvWorker`: two-byte headers and bodies of up to
two bytes give every place to split: inside a header, inside a body, between
them, between packets; three packets let the thread be wrong about one and go
on to another. `ClientSession`: two packets each way put one in a queue while
another is in a thread's hand, two pieces let the end come in the middle of
a packet, and a header can be dropped before or after the first packet, with
one packet made of other bytes handled behind it. `GameManager`: three ids let one packet mix a listed, a new and an
unlisted creature; three actors let one id be spawned again after its actor is
gone. `PlayerCombat`: four packets allow a parry, a hit that interrupts it, and
a second parry, with an answer to an old request in between, or a lock-on
granted after it was switched off. `RemoteCombat`: the fight may have begun, so one
packet is enough to cut an attack by a hit or to follow it by another, with
reports before and after it; with two messages under way one report waits behind
another message. One skill is
enough because the code only compares a skill with none. `SearchEnemy`:
three candidates suffice for two replacements by closer creatures, the
smallest drift that adds up. `MoveSync`: three places let the remote actor walk on
from a report, glide past the place and run into a wall on either side; a period of two lets
a key be let go before the first periodic report; two reports under way let
one that walks be followed by one that stands. The theorems of section 5 remove
the bounds for every safety property.

Deadlock is not checked in `RecvWorker`, `ClientSession` and `GameManager`: the
thread exits, the game ends, and the model runs out of actors.

Fairness. `ClientSession` and `RecvWorker`: the operating system schedules each
thread (weak fairness of the thread's step), the game thread goes on with what
it has begun and the level ticks. In `ClientSession` this ends with a dropped
header: out of step the receiving thread may block for ever on a size nobody
sends, or take the process down, so nothing is promised behind it, and the three
liveness properties exempt it. Two assumptions are about the other end: a packet
the server has begun arrives while the connection lasts, and the server goes on
reading or goes away, so that a blocking `Socket->Send` returns (a fair action of
its own, `SocketSends`). No fairness for the server's sending, for gameplay, for
inputs or for the end of the game. `PlayerCombat`: the engine updates the animation every
frame and plays a montage on; none for packets or inputs. `RemoteCombat`:
packets arrive at both clients, the owner's fights end (`CombatEnds` of
`PlayerCombat`, which `combat` checks from the engine's fairness), it goes on
reporting (`AccTime` is never reset, so every frame does), and the viewer's
engine runs; none for the server or inputs. `MoveSync`: both
engines make frames and reports arrive; none for keys, states or montages.

Assumptions about the server, which is not in the repository: it lets the client
enter once and does not announce the client's own id before; it names in
`S_SKILL`, `S_DAMAGED`, `S_PARRY` and `S_SELECT_ENEMY` creatures it has announced
and not withdrawn; it puts the local player's own pawn into PARRY by `S_PARRY`
alone, and any other creature as it likes; it stamps into a packet's `ObjectInfo` the action state the
packet stands for; it relays the `C_MOVE` of a player in the game unchanged and
in order, behind the packets about that player it has sent before, and ignores
those sent before entering, which carry no id. (A server that kept its own
action state and relayed that one would spare the viewer `remote_attack`.)

## 4. Findings

* `recv_desync`. `RecvDesiredBytes` (NetworkWorker.cpp:86) begins with a test for
  pending data and is called a second time for the body. When the body has not
  arrived yet the header already read is dropped, and body bytes are parsed as
  the next header.
* `registry_move`. `HandleDespawn` (GameManager.cpp:113) compares the despawned
  actor's id with the one it was found under, the same unless a parry has blanked
  it, and clears `MyPlayer` whoever leaves. From then on the
  server's `S_MOVE` repositions the local pawn too, although `HandleMove` says it
  is "Only About Other Player".
* `combat_move`. `HandleMoveActionCompleted` (ClientPlayerController.cpp:120)
  lacks the state test its sibling has: releasing the key ends a combat state and
  leaves its skill set, after which `UseSkill` sends nothing.
* `combat_parry`. `PlayParryTiming` outlives a parry that a hit interrupts; the
  next parry starts its montage before the hit point.
* `remote_attack`. `HandleMove` (GameManager.cpp:144) copies the reported action
  state onto the actor. A report made during an attack, and relayed behind the
  `S_DAMAGED` that has cut the attack short on the other client, puts the actor
  back into ATTACK_TRY, and `PlayAttackAnimationTry` plays the attack once more, which its comment says is
  done once only (PlayerAnimInstance.cpp:116).

## 5. What is proved

All for every value of the constants that satisfies the ASSUME of the module.
Safety comes first, module by module; what is proved about progress, and under
which hypotheses, is at the end of the section.

**ClientSessionProofs.** Types; `NoUseAfterFree`; `ReceivedInOrder`;
`SentInOrder`; `LoginFirst`; both refinements of `PacketChannel`.
`NoUseAfterFree` needs `Lifetimes`, which ties `main` to the two program
counters: a thread is started before `main` passes its line, and gone after it
is joined. `SentInOrder` needs `Holding`: a packet is in the sender's hand
exactly when it has pieces left. `LoginFirst` follows from the order of `outbox`
and from nothing entering it before `C_LOGIN`. For the refinements, a step of
the session either extends `written` by one, moves the head of what is written
and not yet queued, or stutters; four lemmas on sequences come first.
The incoming
channel carries what was read in step (`HandledInStep`): after a dropped header it
delivers nothing more, and never skips a packet. `NothingOvertaken` says more than
the two order properties: what the game has handled of the packets read in step
begins what the server sent, and is all it has handled until a header is dropped;
the wire begins what `SendPacket` was given, also after a failed `Send`, when
packets are lost. `SessionInv`, with `Joins`
(what `main` waits for has been told to stop), carries the liveness below.

**RecvWorkerProofs.** The inductive `RecvInv`: `Contiguous` (each packet begins
where the one before ends) and `InStep` (until a header is dropped, the thread
reads packet `Len(queue) + 1`, and `taken` and `want` tell how far it is in it).
From these: `InStepUntilDropped`; the refinement of `PacketChannel` up to the
first drop (`ChannelUntilDropped`); and `DropOnlyAtSplit`, that a header is
dropped for one reason only: everything delivered ends between a header and its
body. The bytes can be split everywhere else. Two more consequences bound the
damage: before a drop the thread never asks the socket for a byte of the next
packet (`NeverReadsFurther`), and the body size that takes the process down is
never one a header held (`CrashesOnlyAfterDrop`).

**GameManagerProofs.** `RegistryInv` strengthens `RegistryExact` with `Births`
(an actor not yet spawned is in no map), `ParryCurrent` (the id kept for a late
`Parry` is the actor's own, or none, which is why the late copy never turns an
actor into another creature; the local player's is kept by the assumption on its
parries) and
`Unbroken` (while nothing is dead, `MyPlayer` is set from entering on). The
arithmetic of `IsMyPlayer` is two lemmas.

**AnimationLemmas.** One step of `PlayerAnimation`, for whoever runs it: it
changes state and skill only as `ActionState` allows (`AnimationActs`), keeps
the types, and starts an attack montage only where one is due (`MontageDue`: an
attack montage can be owed only while the state is one that was just entered).
Within a fight a step that changes anything brings it nearer to its end
(`FightAnimates`), counted by the states, flags and montages still to come.

**PlayerCombatProofs.** `AttackStartsOnce`, `FreeIsClean` and `TargetInView` from
`CombatInv`, which is types, `MontageDue`, the last two properties themselves and
`ParryKept` (in PARRY the local player has an `S_PARRY` kept, so it never takes over
a blank `ObjectInfo`);
inputs and packets are treated here, the animation by the lemmas. The refinement
of `ActionState`: each packet handler is `Handle` of some packet (`PacketActs`),
each input one of its two, or no step at all. `FightsRunDown`: without a packet a
fight only comes nearer to its end, by at most thirteen steps.
`ParriesStrikeInTime` gives the exact cause of what `combat_parry` finds: if
`PlayParryTiming` is clear whenever a parry begins, no parry starts its montage
early.

**RemoteCombatProofs.** `FreeActorIsClean` is not inductive: a report copies the
owner's skill. `RemoteInv` adds that the owner is clean when out of combat
(`OwnerClean`) and that everything under way to the viewer is (`WayClean`), as
long as no input has cut a fight short. `AttackStartsOnce` does not hold here
(`remote_attack`); `ReportsRestartAttacks` says why: it holds as long as no
report puts the actor into ATTACK_TRY or PARRY from another state, so the packets
of the server never start an attack twice by themselves.

**SearchEnemyProofs.** All properties of the scan. Stated for the creatures
visited so far they are nearly inductive; `Locals` adds that `bestDot` and
`bestDistSq` are those of `best`. The drift is an induction over the steps with
the number of candidates. `EveryChoiceSound` puts them together for the handler as
a whole: what `Select` takes is in view, the clearly central one if there is
one, and off by at most a tolerance for each of the others.

**MoveSyncProofs.** `StopIsReported` needs `Unreported` (before the owner has
entered there are no reports): a direction is cleared only by letting a key go,
which forces a report in the same frame. (As nothing resets `AccTime`, the flag
makes a difference in the first quarter of a second only.) `RestIsClose`
(`RestAlwaysClose`) is inductive in the form given: distance and glide together
never exceed `Braking`, since each place an actor glides is taken off its glide
(`Brakes`).

### Progress

The prover's temporal rules derive a leads-to from weak fairness when it is told
that the action can be taken. It has no rules for ENABLED and no induction over
numbers, which settles what a theorem about progress can say here.

*Hypotheses on ENABLED.* `SessionCanStep`, `ThreadCanStep`, `EngineCanStep`,
`ViewerCanStep` and `MoveCanStep` say of each fair action that its guard, written
as a predicate, enables it. They are facts about the models and not about the
code; TLC evaluated each of them on the instances of section 3 while the proofs
were written (they are no run of their own).

*Arguments of several turns* are proved one turn at a time, for every value of
the number, together with the action property that the number never grows and
falls with every turn:

| property | what falls or grows with a turn | one turn is always taken |
|---|---|---|
| `EveryPacketQueued` | `QueueRunsUp` | `QueueGetsOn` |
| `StopEndsThread` | `StoppedThreadRunsDown` | `StoppedThreadGetsOn` |
| `EveryArrivalHandled` | `Len(handled)`, by `NothingOvertaken` in order | `NextArrivalHandled` |
| `EveryPacketSent` | `SendLoopRunsDown` for the pieces; `Len(wire)` | `SendLoopGetsOn`, `NextPacketSent` |
| `ViewerSettles` | `StaleRunsDown` | `StaleDelivered` |
| `ScreensAgree` | `StaleReportsRunDown`, and the glides | `StaleReportDelivered`, `FramesCount`, `OwnerComesToRest`, `RemoteComesToRest` |

The induction that joins the turns is not proved. For the first four properties
this is where the theorems stop; the properties as such are checked by TLC.

*Proved as stated in the runs*, from `LiveSpec`, the hypothesis on ENABLED and
one named hypothesis each:

* `CombatAlwaysEnds` (`CombatEnds`), if the server falls silent some time
  (`<>[][Silent]_vars`). `packets` has a bound in the model, so TLC checks it
  without the hypothesis; for the code it is a real one, as each S_DAMAGED begins
  a combat state anew. A fight has a fixed number of stages, which the proof goes
  through one by one: no induction is missing. Inputs are not restricted.
* `SkillsReleased` (`SkillReleased`) from `CombatEnds` alone.
* `DeinitializeAlwaysEnds` (`DeinitializeEnds`: it ends, or a header has been
  dropped), if the loop that sends a packet ends (`SendLoopEnds`, the turns being `SendLoopGetsOn`). The proof follows
  `main` from join to join; each needs that the thread waited for has been told
  to stop, and that a `Recv` in its way returns (`RecvThreadEnds`,
  `SendThreadEnds`).
* `ViewerAlwaysSettles` (`ViewerSettles`), if what is stale on the way is
  delivered (`StaleGetsThrough`). The owner's next report then puts the actor into
  the owner's state, and neither its animation nor a later report undoes it.
* `ScreensComeToAgree` (`ScreensAgree`), if stale reports are delivered
  (`ReportsGetThrough`), the first period passes (`DueAtLast`) and both actors stop
  braking once nothing drives them (`OwnerHalts`, `RemoteHalts`).

The proofs use every hypothesis: without it, or without one of the weak fairness
conditions they cite, they do not go through. None contradicts the model:
they hold on TLC's instances.

Only model-checked, then: the ENABLED facts, the inductions above, and with them
`EveryPacketQueued`, `StopEndsThread`, `EveryArrivalHandled` and `EveryPacketSent`;
and the violated properties, which are counterexamples by nature.

## 6. What is not modelled

* Generated protobuf code, vendored ProtobufCore and the VisualStudioTools
  plugin; assets, configuration and the level blueprint, which is taken as the
  caller of the session's operations.
* A second `ConnectServer`: it would free the first session under its threads.
* The bytes of a packet and their parsing. The dispatch table is a constant
  after `Init`. The sizes in a header have 16 bits; no message of the client has
  a repeated or string field, so none comes near them. In a Shipping build
  `check` compiles to nothing, and with it the `SerializeToArray` inside it
  (ServerPacketHandler.h:106): a matter of the build, not of any state here.
  `PlayerId` numbers `C_ENTER_GAME` until the server issues ids
  (ServerPacketHandler.cpp:24); nothing reads it back.
* Yaw, dummies, and the floating-point vectors of movement; of velocity no more
  than the glide of `MoveSync`.
* `S_MOVE` about the local player, after a despawn has cleared `MyPlayer`, in
  `PlayerCombat` and `MoveSync` (`GameManager` has it: `registry_move`).
* The `id` of a packet read out of step, and what its handler makes of it: in
  `ClientSession` it may be taken for any packet of the server or none.
* ACTION_STATE_NONE set by the controller: it does so on an event that only
  `BP_AnimNotify_SetActionState_NONE` raises, and no animation asset of the
  repository carries that notify. (`PlayerAnimation` has the state, as the one of
  the default `ObjectInfo`.)
* The owner's position in `RemoteCombat` (it is in `MoveSync`), and the montages a
  report leaves running.
* Camera interpolation, time dilation, debug drawing, weapons, and the actions
  whose bodies are still TODO comments (dash, dodge, groggy, death).

Most of the repository's lines are vendored: ProtobufCore alone is more than nine
tenths of them, generated code and plugins most of the rest. The program itself
is about 3,000 lines; the models cover the parts of it that keep state.

## 7. Plan

Done: PacketChannel, RecvWorker, ClientSession, GameManager, ActionState,
PlayerAnimation, PlayerCombat, RemoteCombat, SearchEnemy, MoveSync, each with
runs and proofs.

Next, in this order:

1. **ClientSession** with reconnection: a second `ConnectServer` replaces the
   session while its threads run.
2. **RecvWorker** composed into `ClientSession` in place of its whole-packet
   reads, so that one theorem covers socket to handler.
3. **RemoteCombat** composed with `MoveSync`: place and action state of one
   report together.
