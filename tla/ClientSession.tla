---------------------------- MODULE ClientSession ----------------------------
(***************************************************************************)
(* The life of the connection to the server: UNetworkManager on the game   *)
(* thread, the PacketSession it owns, and the session's two threads, a     *)
(* RecvWorker and a SendWorker, which share the socket and one queue each  *)
(* with the game thread.                                                   *)
(*                                                                         *)
(* A packet is its kind: what its handler does with it.  Module RecvWorker *)
(* models the framing byte by byte; of it this module keeps that           *)
(* RecvPacket takes the server's packets one by one as long as it is in    *)
(* step with the stream, that it may drop a header it has read, and that   *)
(* from then on it returns anything at all, or blocks for ever, or crashes.*)
(* A crash stops every thread of the game: here, a behaviour in which only *)
(* the server takes further steps.                                         *)
(* A second successful ConnectServer is left out: the level's BeginPlay    *)
(* calls it once (README, hazards).                                        *)
(***************************************************************************)
EXTENDS Naturals, Sequences

CONSTANTS
  ServerPacket,      \* kinds of packets the server sends
  S_LOGIN,           \* the one Handle_S_LOGIN answers with C_ENTER_GAME
  INVALID,           \* bytes out of step that Handle_INVALID is called for
  C_LOGIN, C_ENTER_GAME, C_LEAVE_GAME,
  C_PLAY,            \* any packet gameplay sends: C_MOVE, C_SKILL, ...
  Pieces,            \* into how many Socket->Send calls a packet may fall
  MaxServer,         \* bound: packets the server sends
  MaxForeign,        \* bound: packets read out of step
  MaxOut             \* bound: packets queued before gameplay stops sending

ASSUME SessionAssumption ==
  /\ S_LOGIN \in ServerPacket /\ INVALID \notin ServerPacket
  /\ Pieces \in Nat \ {0}
  /\ MaxServer \in Nat /\ MaxForeign \in Nat
  /\ MaxOut \in Nat

\* what RecvPacket returns
ReadPacket == ServerPacket \cup {INVALID}

ClientPacket == {C_LOGIN, C_ENTER_GAME, C_LEAVE_GAME, C_PLAY}

VARIABLES
  \* UNetworkManager, game thread
  main,              \* what the game thread is doing
  Socket,            \* "null", "open" or "destroyed"
  ClientSession,     \* is there a session?
  \* PacketSession
  RecvPacketQueue, SendPacketQueue,
  \* RecvWorker
  recvRunning, recvPc,
  \* SendWorker
  sendRunning, sendPc,
  inHand,            \* the packet being sent: <<>> or <<packet>>
  left,              \* pieces of it still to send
  \* are the two worker objects and their FRunnableThreads still there?
  workers,
  \* the connection
  fromServer,        \* every packet the server has sent
  nArrived,          \* how many of them have arrived whole
  nRead,             \* how many of them RecvPacket has returned, in step
  dropped,           \* RecvPacket has dropped a header: it is out of step
  closed,            \* the server is gone
  broken,            \* a Send has failed: every later one fails too
  wire,              \* packets the connection has accepted whole
  \* histories
  foreign,           \* what RecvPacket has returned since, of other bytes
  handled,           \* packets given to ServerPacketHandler::HandlePacket
  outbox             \* packets given to SendPacketQueue.Enqueue

managerVars == <<main, Socket, ClientSession>>
queueVars   == <<RecvPacketQueue, SendPacketQueue>>
readVars    == <<nRead, dropped, foreign>>
recvVars    == <<recvRunning, recvPc, readVars>>
sendVars    == <<sendRunning, sendPc, inHand, left, wire, broken>>
serverVars  == <<fromServer, nArrived, closed>>
histVars    == <<handled, outbox>>
vars == <<managerVars, queueVars, recvVars, sendVars, workers, serverVars,
          histVars>>

Init ==
  /\ main = "idle" /\ Socket = "null" /\ ClientSession = FALSE
  /\ RecvPacketQueue = <<>> /\ SendPacketQueue = <<>>
  /\ recvRunning = FALSE /\ recvPc = "none"
  /\ nRead = 0 /\ dropped = FALSE /\ foreign = <<>>
  /\ sendRunning = FALSE /\ sendPc = "none"
  /\ inHand = <<>> /\ left = 0
  /\ wire = <<>> /\ broken = FALSE
  /\ workers = FALSE
  /\ fromServer = <<>> /\ nArrived = 0 /\ closed = FALSE
  /\ handled = <<>> /\ outbox = <<>>

(* PacketSession::SendPacket *)
SendPacket(p) ==
  /\ SendPacketQueue' = Append(SendPacketQueue, p)
  /\ outbox' = Append(outbox, p)

-----------------------------------------------------------------------------
(* Game thread: ConnectServer *)

(* Connect succeeds: a session is made and PacketSession::Run starts the   *)
(* receiving thread, then the sending thread; C_LOGIN is queued last.      *)
ConnectServer ==
  /\ main = "idle" /\ ~ClientSession /\ Socket # "destroyed"
  /\ Socket' = "open"
  /\ ClientSession' = TRUE
  /\ recvRunning' = TRUE /\ recvPc' = "test"
  /\ workers' = TRUE
  /\ main' = "startSend"
  /\ UNCHANGED <<queueVars, readVars, sendVars, serverVars, histVars>>

StartSendWorker ==
  /\ main = "startSend"
  /\ sendRunning' = TRUE /\ sendPc' = "test"
  /\ main' = "login"
  /\ UNCHANGED <<Socket, ClientSession, queueVars, recvVars, inHand, left,
                 wire, broken, workers, serverVars, histVars>>

(* Fault: the login packet is forgotten.  (Definitions named ...Fault<X>    *)
(* are plausible mistakes in the definition that follows them; no          *)
(* specification uses them.)                                               *)
SendLoginFaultNone ==
  /\ main = "login"
  /\ main' = "idle"
  /\ UNCHANGED <<Socket, ClientSession, queueVars, recvVars, sendVars,
                 workers, serverVars, histVars>>

SendLogin ==
  /\ main = "login"
  /\ SendPacket(C_LOGIN)
  /\ main' = "idle"
  /\ UNCHANGED <<Socket, ClientSession, RecvPacketQueue, recvVars, sendVars,
                 workers, serverVars, handled>>

(* Connect fails: the socket stays, no session is made. *)
ConnectFails ==
  /\ main = "idle" /\ ~ClientSession /\ Socket # "destroyed"
  /\ Socket' = "open"
  /\ UNCHANGED <<main, ClientSession, queueVars, recvVars, sendVars, workers,
                 serverVars, histVars>>

-----------------------------------------------------------------------------
(* Game thread: the level's tick, gameplay, and the end *)

(* HandleRecvPackets runs until it finds the queue empty. *)
HandleRecvPackets ==
  /\ main = "idle" /\ ClientSession
  /\ main' = "drain"
  /\ UNCHANGED <<Socket, ClientSession, queueVars, recvVars, sendVars,
                 workers, serverVars, histVars>>

(* Fault: the packet handled stays in the queue. *)
HandlePacketFaultPeek ==
  /\ main = "drain" /\ RecvPacketQueue # <<>>
  /\ Len(handled) < 2 * MaxServer
  /\ handled' = Append(handled, Head(RecvPacketQueue))
  /\ UNCHANGED <<managerVars, queueVars, outbox, recvVars, sendVars, workers,
                 serverVars>>

HandlePacket ==
  /\ main = "drain" /\ RecvPacketQueue # <<>>
  /\ RecvPacketQueue' = Tail(RecvPacketQueue)
  /\ handled' = Append(handled, Head(RecvPacketQueue))
  /\ IF Head(RecvPacketQueue) = S_LOGIN
       THEN SendPacket(C_ENTER_GAME)
       ELSE UNCHANGED <<SendPacketQueue, outbox>>
  /\ UNCHANGED <<managerVars, recvVars, sendVars, workers, serverVars>>

HandledAll ==
  /\ main = "drain" /\ RecvPacketQueue = <<>>
  /\ main' = "idle"
  /\ UNCHANGED <<Socket, ClientSession, queueVars, recvVars, sendVars,
                 workers, serverVars, histVars>>

(* Gameplay sends through UNetworkManager::SendPacket, and the level may   *)
(* call DisconnectServer, which only queues C_LEAVE_GAME.  Without a       *)
(* session both return at once.                                            *)
GameSends(p) ==
  /\ main = "idle" /\ ClientSession
  /\ Len(outbox) < MaxOut
  /\ SendPacket(p)
  /\ UNCHANGED <<managerVars, RecvPacketQueue, recvVars, sendVars, workers,
                 serverVars, handled>>

(* UNetworkManager::Deinitialize, step by step. *)
Deinitialize ==
  /\ main = "idle" /\ Socket # "destroyed"
  /\ IF ClientSession
       THEN SendPacket(C_LEAVE_GAME) /\ main' = "stopRecv"
       ELSE main' = "destroySocket" /\ UNCHANGED <<SendPacketQueue, outbox>>
  /\ UNCHANGED <<Socket, ClientSession, RecvPacketQueue, recvVars, sendVars,
                 workers, serverVars, handled>>

StopRecvWorker ==
  /\ main = "stopRecv"
  /\ recvRunning' = FALSE
  /\ main' = "stopSend"
  /\ UNCHANGED <<Socket, ClientSession, queueVars, recvPc, readVars, sendVars,
                 workers, serverVars, histVars>>

(* Fault: only the receiving thread is told to stop. *)
StopSendWorkerFaultForgets ==
  /\ main = "stopSend"
  /\ main' = "waitRecv"
  /\ UNCHANGED <<Socket, ClientSession, queueVars, recvVars, sendVars, workers,
                 serverVars, histVars>>

StopSendWorker ==
  /\ main = "stopSend"
  /\ sendRunning' = FALSE
  /\ main' = "waitRecv"
  /\ UNCHANGED <<Socket, ClientSession, queueVars, recvVars, sendPc, inHand,
                 left, wire, broken, workers, serverVars, histVars>>

(* FRunnableThread::WaitForCompletion returns once the thread has ended. *)
WaitForRecv ==
  /\ main = "waitRecv" /\ recvPc = "exited"
  /\ main' = "waitSend"
  /\ UNCHANGED <<Socket, ClientSession, queueVars, recvVars, sendVars,
                 workers, serverVars, histVars>>

(* Fault: the sending thread is not joined. *)
WaitForSendFaultNoJoin ==
  /\ main = "waitSend"
  /\ main' = "destroyThread"
  /\ UNCHANGED <<Socket, ClientSession, queueVars, recvVars, sendVars,
                 workers, serverVars, histVars>>

WaitForSend ==
  /\ main = "waitSend" /\ sendPc = "exited"
  /\ main' = "destroyThread"
  /\ UNCHANGED <<Socket, ClientSession, queueVars, recvVars, sendVars,
                 workers, serverVars, histVars>>

DestroyThread ==
  /\ main = "destroyThread"
  /\ workers' = FALSE
  /\ main' = "destroySocket"
  /\ UNCHANGED <<Socket, ClientSession, queueVars, recvVars, sendVars,
                 serverVars, histVars>>

DestroySocket ==
  /\ main = "destroySocket"
  /\ Socket' = "destroyed"
  /\ main' = "done"
  /\ UNCHANGED <<ClientSession, queueVars, recvVars, sendVars, workers,
                 serverVars, histVars>>

-----------------------------------------------------------------------------
(* RecvWorker::Run *)

RecvTest ==
  /\ recvPc = "test"
  /\ recvPc' = IF recvRunning THEN "poll" ELSE "exited"
  /\ UNCHANGED <<managerVars, queueVars, recvRunning, readVars, sendVars,
                 workers, serverVars, histVars>>

(* HasPendingData: bytes of the next packet are there, or they are not.    *)
(* Out of step, nobody knows whose bytes they are.                         *)
RecvPoll ==
  /\ recvPc = "poll"
  /\ IF dropped
       THEN recvPc' \in {"foreign", "test"}
       ELSE \/ nRead < Len(fromServer) /\ recvPc' = "reading"
            \/ nRead = nArrived /\ recvPc' = "test"
  /\ UNCHANGED <<managerVars, queueVars, recvRunning, readVars, sendVars,
                 workers, serverVars, histVars>>

(* Fault: the header alone is taken for the packet. *)
RecvDoneFaultEarly ==
  /\ recvPc = "reading" /\ nRead < Len(fromServer)
  /\ nRead' = nRead + 1
  /\ recvPc' = "enqueue"
  /\ UNCHANGED <<managerVars, queueVars, recvRunning, dropped, foreign,
                 sendVars, workers, serverVars, histVars>>

(* RecvDesiredBytes blocks until the packet has arrived whole, or the      *)
(* connection ends.                                                        *)
RecvDone ==
  /\ recvPc = "reading" /\ nRead < nArrived
  /\ nRead' = nRead + 1
  /\ recvPc' = "enqueue"
  /\ UNCHANGED <<managerVars, queueVars, recvRunning, dropped, foreign,
                 sendVars, workers, serverVars, histVars>>

RecvFails ==
  /\ recvPc = "reading" /\ nRead = nArrived /\ closed
  /\ recvPc' = "test"
  /\ UNCHANGED <<managerVars, queueVars, recvRunning, readVars, sendVars,
                 workers, serverVars, histVars>>

(* The header has been read and nothing of the body has arrived: the       *)
(* second HasPendingData fails, RecvPacket returns false and the header is *)
(* lost.  (Kinds do not tell the packets without a body apart, of which    *)
(* this cannot happen.)                                                    *)
RecvDrops ==
  /\ recvPc = "reading" /\ nRead = nArrived /\ nRead < Len(fromServer)
  /\ dropped' = TRUE
  /\ recvPc' = "test"
  /\ UNCHANGED <<managerVars, queueVars, recvRunning, nRead, foreign,
                 sendVars, workers, serverVars, histVars>>

(* Out of step, the bytes read for a header are any id and any size: with  *)
(* as many bytes behind it that is a packet, ...                           *)
ForeignPacket(p) ==
  /\ recvPc = "foreign"
  /\ Len(foreign) < MaxForeign
  /\ foreign' = Append(foreign, p)
  /\ recvPc' = "enqueue"
  /\ UNCHANGED <<managerVars, queueVars, recvRunning, nRead, dropped,
                 sendVars, workers, serverVars, histVars>>

(* ... or nothing more is pending, or the connection ends.                 *)
ForeignEnds ==
  /\ recvPc = "foreign"
  /\ recvPc' = "test"
  /\ UNCHANGED <<managerVars, queueVars, recvRunning, readVars, sendVars,
                 workers, serverVars, histVars>>

(* What RecvPacket has returned, in step and out of it. *)
Returned == SubSeq(fromServer, 1, nRead) \o foreign

(* Fault: the session cannot be pinned and the packet is let go. *)
RecvEnqueueFaultUnpinned ==
  /\ recvPc = "enqueue"
  /\ recvPc' = "test"
  /\ UNCHANGED <<managerVars, queueVars, recvRunning, readVars, sendVars,
                 workers, serverVars, histVars>>

(* RecvWorker::Run queues the packet returned last. *)
RecvEnqueue ==
  /\ recvPc = "enqueue"
  /\ RecvPacketQueue' = Append(RecvPacketQueue, Returned[Len(Returned)])
  /\ recvPc' = "test"
  /\ UNCHANGED <<managerVars, SendPacketQueue, recvRunning, readVars,
                 sendVars, workers, serverVars, histVars>>

-----------------------------------------------------------------------------
(* SendWorker::Run, SendPacket, SendDesiredBytes *)

SendTest ==
  /\ sendPc = "test"
  /\ sendPc' = IF sendRunning THEN "dequeue" ELSE "exited"
  /\ UNCHANGED <<managerVars, queueVars, recvVars, sendRunning, inHand, left,
                 wire, broken, workers, serverVars, histVars>>

SendNothing ==
  /\ sendPc = "dequeue" /\ SendPacketQueue = <<>>
  /\ sendPc' = "test"
  /\ UNCHANGED <<managerVars, queueVars, recvVars, sendRunning, inHand, left,
                 wire, broken, workers, serverVars, histVars>>

(* Fault: the newest packet is taken first. *)
SendDequeueFaultNewest ==
  /\ sendPc = "dequeue" /\ SendPacketQueue # <<>>
  /\ sendPc' = "sending"
  /\ inHand' = <<SendPacketQueue[Len(SendPacketQueue)]>>
  /\ SendPacketQueue' = SubSeq(SendPacketQueue, 1, Len(SendPacketQueue) - 1)
  /\ left' = Pieces
  /\ UNCHANGED <<managerVars, RecvPacketQueue, recvVars, sendRunning, wire,
                 broken, workers, serverVars, histVars>>

SendDequeue ==
  /\ sendPc = "dequeue" /\ SendPacketQueue # <<>>
  /\ sendPc' = "sending"
  /\ inHand' = <<Head(SendPacketQueue)>>
  /\ SendPacketQueue' = Tail(SendPacketQueue)
  /\ left' = Pieces
  /\ UNCHANGED <<managerVars, RecvPacketQueue, recvVars, sendRunning, wire,
                 broken, workers, serverVars, histVars>>

(* Fault: one Send is taken for the whole packet. *)
SendPiecesFaultOnce(n) ==
  /\ sendPc = "sending" /\ ~broken
  /\ left' = left - n
  /\ wire' = IF n = left THEN wire \o inHand ELSE wire
  /\ inHand' = <<>> /\ sendPc' = "test"
  /\ UNCHANGED <<managerVars, queueVars, recvVars, sendRunning, broken,
                 workers, serverVars, histVars>>

(* Socket->Send takes n of the pieces left; the loop goes on until none is *)
(* left.                                                                   *)
SendPieces(n) ==
  /\ sendPc = "sending" /\ ~broken
  /\ left' = left - n
  /\ IF n = left
       THEN wire' = wire \o inHand /\ inHand' = <<>> /\ sendPc' = "test"
       ELSE UNCHANGED <<wire, inHand, sendPc>>
  /\ UNCHANGED <<managerVars, queueVars, recvVars, sendRunning, broken,
                 workers, serverVars, histVars>>

(* Socket->Send fails once the server is gone: the rest of the packet is   *)
(* dropped and nobody is told.                                             *)
SendFails ==
  /\ sendPc = "sending" /\ closed
  /\ broken' = TRUE
  /\ inHand' = <<>> /\ left' = 0 /\ sendPc' = "test"
  /\ UNCHANGED <<managerVars, queueVars, recvVars, sendRunning, wire, workers,
                 serverVars, histVars>>

-----------------------------------------------------------------------------
(* The server and the network, outside the repository. *)

ServerSends(p) ==
  /\ ClientSession /\ ~closed
  /\ Len(fromServer) < MaxServer
  /\ fromServer' = Append(fromServer, p)
  /\ UNCHANGED <<managerVars, queueVars, recvVars, sendVars, workers, nArrived,
                 closed, histVars>>

PacketArrives ==
  /\ ~closed
  /\ nArrived < Len(fromServer)
  /\ nArrived' = nArrived + 1
  /\ UNCHANGED <<managerVars, queueVars, recvVars, sendVars, workers,
                 fromServer, closed, histVars>>

(* The server goes away; what has not arrived by then never does. *)
ServerCloses ==
  /\ ClientSession /\ ~closed
  /\ closed' = TRUE
  /\ UNCHANGED <<managerVars, queueVars, recvVars, sendVars, workers,
                 fromServer, nArrived, histVars>>

-----------------------------------------------------------------------------
Connecting == ConnectServer \/ StartSendWorker \/ SendLogin \/ ConnectFails

Ticking == HandleRecvPackets \/ HandlePacket \/ HandledAll

Ending ==
  \/ StopRecvWorker \/ StopSendWorker \/ WaitForRecv \/ WaitForSend
  \/ DestroyThread \/ DestroySocket

Game ==
  \/ Connecting \/ Ticking \/ Deinitialize \/ Ending
  \/ \E p \in {C_PLAY, C_LEAVE_GAME} : GameSends(p)

Recv ==
  \/ RecvTest \/ RecvPoll \/ RecvDone \/ RecvFails \/ RecvDrops
  \/ \E p \in ReadPacket : ForeignPacket(p)
  \/ ForeignEnds \/ RecvEnqueue

\* Socket->Send returns
SocketSends == SendFails \/ \E n \in 1..left : SendPieces(n)

Send == SendTest \/ SendNothing \/ SendDequeue \/ SocketSends

Server ==
  \/ \E p \in ServerPacket : ServerSends(p)
  \/ PacketArrives \/ ServerCloses

Next == Game \/ Recv \/ Send \/ Server

Spec == Init /\ [][Next]_vars

(* The operating system schedules both threads, and the game thread goes   *)
(* on with what it has begun and the level's tick keeps coming: as long as *)
(* the receiving thread is in step, for out of step it may block for ever  *)
(* on a size nobody sends, or crash the game.                              *)
(* Two assumptions are about the other end, not about this code: a packet  *)
(* the server has begun arrives while the connection lasts, and the server *)
(* goes on reading or goes away, so that a blocking Socket->Send returns.  *)
LiveSpec ==
  /\ Spec
  /\ WF_vars(~dropped /\ Recv)
  /\ WF_vars(~dropped /\ (SendTest \/ SendNothing \/ SendDequeue))
  /\ WF_vars(~dropped /\ (StartSendWorker \/ SendLogin \/ Ending))
  /\ WF_vars(~dropped /\ Ticking)
  /\ WF_vars(PacketArrives)
  /\ WF_vars(~dropped /\ SocketSends)

-----------------------------------------------------------------------------
Shutdown == {"stopRecv", "stopSend", "waitRecv", "waitSend", "destroyThread",
             "destroySocket", "done"}

TypeOK ==
  /\ main \in {"idle", "startSend", "login", "drain"} \cup Shutdown
  /\ Socket \in {"null", "open", "destroyed"} /\ ClientSession \in BOOLEAN
  /\ RecvPacketQueue \in Seq(ReadPacket)
  /\ SendPacketQueue \in Seq(ClientPacket)
  /\ recvRunning \in BOOLEAN
  /\ recvPc \in {"none", "test", "poll", "reading", "foreign", "enqueue",
                 "exited"}
  /\ sendRunning \in BOOLEAN
  /\ sendPc \in {"none", "test", "dequeue", "sending", "exited"}
  /\ inHand \in Seq(ClientPacket) /\ left \in 0..Pieces
  /\ workers \in BOOLEAN
  /\ fromServer \in Seq(ServerPacket)
  /\ nArrived \in 0..Len(fromServer) /\ nRead \in 0..nArrived
  /\ dropped \in BOOLEAN /\ foreign \in Seq(ReadPacket)
  /\ closed \in BOOLEAN /\ broken \in BOOLEAN
  /\ wire \in Seq(ClientPacket) /\ outbox \in Seq(ClientPacket)
  /\ handled \in Seq(ReadPacket)

(* While a thread of the session is alive the worker object it runs on and *)
(* the socket it uses exist: Deinitialize frees both only after it has     *)
(* joined both threads (NetworkManager.cpp:76-85).                         *)
NoUseAfterFree ==
  recvPc \notin {"none", "exited"} \/ sendPc \notin {"none", "exited"} =>
    workers /\ Socket = "open"

(* Game thread and receiving thread share RecvPacketQueue without a lock:  *)
(* what was handled, what is queued and what the thread is about to queue  *)
(* are together the packets read, in order, none lost and none doubled:    *)
(* the server's up to a dropped header, whatever its bytes were taken for  *)
(* after one.                                                              *)
InFlight == IF recvPc = "enqueue" THEN <<Returned[Len(Returned)]>> ELSE <<>>

ReceivedInOrder == handled \o RecvPacketQueue \o InFlight = Returned

(* The same for the way out: while no Send has failed, what the connection *)
(* took, what is being sent and what is queued are the packets given to    *)
(* SendPacket, in order.                                                   *)
SentInOrder == ~broken => wire \o inHand \o SendPacketQueue = outbox

(* Whatever the server has answered by then and whatever the level sends,  *)
(* the first packet the connection carries is C_LOGIN (ConnectServer       *)
(* starts the threads before it queues it).                                *)
LoginFirst == wire # <<>> => wire[1] = C_LOGIN

(* Both directions of the session are packet channels.  The incoming one   *)
(* carries what RecvPacket returned in step: what was handled, but for     *)
(* what was made of other bytes after a dropped header.  After that header *)
(* it delivers nothing more, and after a failed Send the outgoing one does *)
(* not: neither ever skips a packet.                                       *)
HandledInStep ==
  IF Len(handled) <= nRead THEN handled ELSE SubSeq(handled, 1, nRead)

Incoming == INSTANCE PacketChannel
              WITH Packet <- ServerPacket, written <- fromServer,
                   queued <- HandledInStep
Outgoing == INSTANCE PacketChannel
              WITH Packet <- ClientPacket, written <- outbox, queued <- wire
IncomingIsChannel == Incoming!Spec
OutgoingIsChannel == Outgoing!Spec

(* A packet that has arrived is handled by a later tick, unless the game   *)
(* ends first or RecvPacket drops a header: that packet and the ones       *)
(* behind it are then never handled.                                       *)
EveryArrivalHandled ==
  \A k \in 1..MaxServer :
    nArrived >= k ~> (Len(handled) >= k \/ main \in Shutdown \/ dropped)

(* A packet queued is sent, unless the server is gone, the game ends or a  *)
(* dropped header may have crashed it.                                     *)
EveryPacketSent ==
  \A k \in 1..MaxOut :
    Len(outbox) >= k ~>
      (Len(wire) >= k \/ broken \/ main \in Shutdown \/ dropped)

(* Deinitialize does not hang in WaitForThread: the threads see Running    *)
(* false, the receiving one once the packet it is reading has arrived or   *)
(* the connection has ended.  After a dropped header it may hang.          *)
DeinitializeEnds == main = "stopRecv" ~> (main = "done" \/ dropped)
=============================================================================
