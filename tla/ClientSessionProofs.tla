------------------------ MODULE ClientSessionProofs ------------------------
(***************************************************************************)
(* Theorems about ClientSession, for any number of packets, pieces and     *)
(* kinds of packets.  First safety and the two channels, then progress.    *)
(***************************************************************************)
EXTENDS ClientSession, SequenceTheorems, TLAPS

-----------------------------------------------------------------------------
(* Facts about queues cut in pieces *)

(* Queueing an element behind the last piece is queueing it behind the     *)
(* whole (PacketSession::SendPacket, RecvWorker::Run's Enqueue).           *)
LEMMA QueueBehind ==
  ASSUME NEW S, NEW s \in Seq(S), NEW t \in Seq(S), NEW e \in S
  PROVE  s \o Append(t, e) = Append(s \o t, e)
<1>1. <<e>> \in Seq(S)
  OBVIOUS
<1>2. s \o Append(t, e) = s \o (t \o <<e>>)
  BY AppendIsConcat
<1>3. s \o (t \o <<e>>) = (s \o t) \o <<e>>
  BY <1>1, ConcatAssociative
<1>4. (s \o t) \o <<e>> = Append(s \o t, e)
  BY AppendIsConcat, ConcatProperties
<1> QED BY <1>2, <1>3, <1>4

(* Moving the head of a queue to the end of the piece before it changes    *)
(* nothing of the whole (a Dequeue).                                       *)
LEMMA QueueMove ==
  ASSUME NEW S, NEW s \in Seq(S), NEW t \in Seq(S), t # <<>>
  PROVE  /\ Append(s, Head(t)) \o Tail(t) = s \o t
         /\ (s \o <<Head(t)>>) \o Tail(t) = s \o t
<1>1. /\ Head(t) \in S /\ Tail(t) \in Seq(S) /\ <<Head(t)>> \in Seq(S)
  BY HeadTailProperties
<1>2. t = <<Head(t)>> \o Tail(t)
  <2> DEFINE u == <<Head(t)>> \o Tail(t)
  <2>1. /\ u \in Seq(S) /\ Len(u) = Len(t)
        /\ \A i \in 1..Len(t) : u[i] = t[i]
    BY <1>1, ConcatProperties, HeadTailProperties
  <2> QED BY <2>1, SeqEqual
<1>3. (s \o <<Head(t)>>) \o Tail(t) = s \o t
  BY <1>1, <1>2, ConcatAssociative
<1>4. Append(s, Head(t)) = s \o <<Head(t)>>
  BY <1>1, AppendIsConcat
<1> QED BY <1>3, <1>4

(* The head of the second piece of a prefix stands right behind the first. *)
LEMMA HeadOfRest ==
  ASSUME NEW S, NEW w \in Seq(S), NEW n \in 0..Len(w),
         NEW s \in Seq(S), NEW t \in Seq(S), NEW u \in Seq(S),
         t # <<>>, (s \o t) \o u = SubSeq(w, 1, n)
  PROVE  Len(s) < Len(w) /\ w[Len(s) + 1] = t[1]
<1>1. /\ s \o t \in Seq(S)
      /\ Len(s \o t) = Len(s) + Len(t)
      /\ \A i \in 1..Len(s) + Len(t) :
           (s \o t)[i] = IF i <= Len(s) THEN s[i] ELSE t[i - Len(s)]
  BY ConcatProperties
<1>2. /\ Len((s \o t) \o u) = Len(s \o t) + Len(u)
      /\ \A i \in 1..Len(s \o t) : ((s \o t) \o u)[i] = (s \o t)[i]
  BY <1>1, ConcatProperties
<1>3. Len(SubSeq(w, 1, n)) = n /\ \A i \in 1..n : SubSeq(w, 1, n)[i] = w[i]
  BY SubSeqProperties, ElementOfSeq
<1>4. Len(s) \in Nat /\ Len(t) \in Nat /\ Len(u) \in Nat /\ Len(t) > 0
  BY EmptySeq
<1>5. Len(s) + 1 \in 1..n /\ Len(s) + 1 \in 1..Len(s \o t)
  BY <1>1, <1>2, <1>3, <1>4
<1>6. (s \o t)[Len(s) + 1] = t[1]
  BY <1>1, <1>4
<1>7. w[Len(s) + 1] = ((s \o t) \o u)[Len(s) + 1]
  BY <1>3, <1>5
<1> QED BY <1>2, <1>4, <1>5, <1>6, <1>7

(* What has been read of a stream is not changed by what is written next.  *)
LEMMA PrefixOfAppend ==
  ASSUME NEW S, NEW w \in Seq(S), NEW n \in 0..Len(w), NEW e \in S
  PROVE  /\ SubSeq(Append(w, e), 1, n) = SubSeq(w, 1, n)
         /\ \A i \in 1..n : Append(w, e)[i] = w[i]
<1>1. /\ Append(w, e) \in Seq(S)
      /\ Len(Append(w, e)) = Len(w) + 1
      /\ \A i \in 1..Len(w) : Append(w, e)[i] = w[i]
  BY AppendProperties
<1>2. /\ SubSeq(w, 1, n) \in Seq(S) /\ Len(SubSeq(w, 1, n)) = n
      /\ \A i \in 1..n : SubSeq(w, 1, n)[i] = w[i]
  BY SubSeqProperties, ElementOfSeq
<1>3. /\ SubSeq(Append(w, e), 1, n) \in Seq(S)
      /\ Len(SubSeq(Append(w, e), 1, n)) = n
      /\ \A i \in 1..n : SubSeq(Append(w, e), 1, n)[i] = w[i]
  BY <1>1, SubSeqProperties, ElementOfSeq
<1>4. SubSeq(Append(w, e), 1, n) = SubSeq(w, 1, n)
  BY <1>2, <1>3, SeqEqual
<1> QED BY <1>1, <1>4

-----------------------------------------------------------------------------
USE DEF managerVars, queueVars, readVars, recvVars, sendVars, serverVars, histVars

(* The type invariant, with what RecvEnqueue needs: a packet is held only  *)
(* after one has been read, and which branch of RecvPacket is taken when   *)
(* says whether the thread is in step.                                     *)
TypeInv ==
  /\ TypeOK
  /\ recvPc = "enqueue" => nRead > 0 \/ foreign # <<>>
  /\ recvPc = "reading" => ~dropped
  /\ recvPc = "foreign" \/ foreign # <<>> => dropped

(* The initial state is well typed. *)
LEMMA TypeInit == Init => TypeInv
<1>1. \A S : <<>> \in Seq(S) /\ Len(<<>>) = 0
  BY EmptySeq
<1>2. 0 \in 0..Pieces /\ 0 \in 0..0
  BY SessionAssumption
<1> QED
  BY <1>1, <1>2 DEF Init, TypeInv, TypeOK

(* What RecvPacket has returned is a sequence of packets, and there is a   *)
(* last one when RecvEnqueue takes it.                                     *)
LEMMA ReturnedLast ==
  ASSUME TypeInv
  PROVE  /\ fromServer \in Seq(ReadPacket)
         /\ SubSeq(fromServer, 1, nRead) \in Seq(ReadPacket)
         /\ Returned \in Seq(ReadPacket)
         /\ Len(Returned) = nRead + Len(foreign)
         /\ recvPc = "enqueue" => Returned[Len(Returned)] \in ReadPacket
<1>1. /\ fromServer \in Seq(ServerPacket) /\ foreign \in Seq(ReadPacket)
      /\ nRead \in 0..Len(fromServer)
      /\ recvPc = "enqueue" => nRead > 0 \/ foreign # <<>>
  BY DEF TypeInv, TypeOK
<1>2. fromServer \in Seq(ReadPacket)
  <2>1. \A i \in 1..Len(fromServer) : fromServer[i] \in ReadPacket
    BY <1>1, ElementOfSeq DEF ReadPacket
  <2>2. /\ Len(fromServer) \in Nat
        /\ fromServer = [i \in 1..Len(fromServer) |-> fromServer[i]]
    BY <1>1, SeqDef
  <2>3. [i \in 1..Len(fromServer) |-> fromServer[i]]
          \in [1..Len(fromServer) -> ReadPacket]
    BY <2>1
  <2> QED BY <2>2, <2>3, SeqDef
<1>3. /\ SubSeq(fromServer, 1, nRead) \in Seq(ReadPacket)
      /\ Len(SubSeq(fromServer, 1, nRead)) = nRead
  BY <1>1, <1>2, SubSeqProperties
<1>4. /\ Returned \in Seq(ReadPacket)
      /\ Len(Returned) = nRead + Len(foreign)
  BY <1>1, <1>3, ConcatProperties DEF Returned
<1>5. ASSUME recvPc = "enqueue" PROVE Returned[Len(Returned)] \in ReadPacket
  <2>1. Len(Returned) \in 1..Len(Returned)
    BY <1>1, <1>4, <1>5, EmptySeq
  <2> QED BY <1>4, <2>1, ElementOfSeq
<1> QED BY <1>2, <1>3, <1>4, <1>5

(* No step of the game thread, of a worker or of the server leaves the     *)
(* types.                                                                  *)
LEMMA TypeStep == TypeInv /\ [Next]_vars => TypeInv'
<1> SUFFICES ASSUME TypeInv, [Next]_vars PROVE TypeInv'
  OBVIOUS
<1>0. /\ C_LOGIN \in ClientPacket /\ C_ENTER_GAME \in ClientPacket
      /\ C_LEAVE_GAME \in ClientPacket /\ C_PLAY \in ClientPacket
      /\ \A p \in ClientPacket : /\ Append(SendPacketQueue, p) \in Seq(ClientPacket)
                                 /\ Append(outbox, p) \in Seq(ClientPacket)
  BY AppendProperties DEF ClientPacket, TypeInv, TypeOK
<1> USE DEF TypeInv, TypeOK, Shutdown, SendPacket
<1>1. CASE ConnectServer      BY <1>1 DEF ConnectServer
<1>2. CASE StartSendWorker    BY <1>2 DEF StartSendWorker
<1>3. CASE SendLogin          BY <1>0, <1>3 DEF SendLogin
<1>4. CASE ConnectFails       BY <1>4 DEF ConnectFails
<1>5. CASE HandleRecvPackets  BY <1>5 DEF HandleRecvPackets
<1>6. CASE HandlePacket       
  <2>1. /\ Head(RecvPacketQueue) \in ReadPacket
        /\ Tail(RecvPacketQueue) \in Seq(ReadPacket)
    BY <1>6 DEF HandlePacket
  <2>2. /\ handled' \in Seq(ReadPacket)
        /\ RecvPacketQueue' \in Seq(ReadPacket)
    BY <1>6, <2>1 DEF HandlePacket
  <2>3. /\ SendPacketQueue' \in Seq(ClientPacket)
        /\ outbox' \in Seq(ClientPacket)
    <3>1. \/ SendPacket(C_ENTER_GAME)
          \/ UNCHANGED <<SendPacketQueue, outbox>>
      BY <1>6, Zenon DEF HandlePacket
    <3> QED BY <1>0, <3>1
  <2> QED
    BY <1>6, <2>2, <2>3 DEF HandlePacket
<1>7. CASE HandledAll         BY <1>7 DEF HandledAll
<1>8. ASSUME NEW p \in {C_PLAY, C_LEAVE_GAME}, GameSends(p) PROVE TypeInv'
  BY <1>0, <1>8 DEF GameSends
<1>9. CASE Deinitialize       
  <2>1. /\ main' \in {"stopRecv", "destroySocket"}
        /\ \/ SendPacket(C_LEAVE_GAME)
           \/ UNCHANGED <<SendPacketQueue, outbox>>
        /\ UNCHANGED <<Socket, ClientSession, RecvPacketQueue, recvVars,
                       sendVars, workers, serverVars, handled>>
    BY <1>9, Zenon DEF Deinitialize
  <2>2. SendPacketQueue' \in Seq(ClientPacket) /\ outbox' \in Seq(ClientPacket)
    BY <1>0, <2>1
  <2> QED BY <2>1, <2>2
<1>10. CASE Ending
  <2>1. CASE StopRecvWorker
    <3>1. recvRunning' \in BOOLEAN BY <2>1, Zenon DEF StopRecvWorker
    <3> QED BY <2>1, <3>1 DEF StopRecvWorker
  <2>2. CASE StopSendWorker
    <3>1. sendRunning' \in BOOLEAN BY <2>2, Zenon DEF StopSendWorker
    <3> QED BY <2>2, <3>1 DEF StopSendWorker
  <2>3. CASE WaitForRecv      BY <2>3 DEF WaitForRecv
  <2>4. CASE WaitForSend      BY <2>4 DEF WaitForSend
  <2>5. CASE DestroyThread
    <3>1. workers' \in BOOLEAN BY <2>5, Zenon DEF DestroyThread
    <3> QED BY <2>5, <3>1 DEF DestroyThread
  <2>6. CASE DestroySocket    BY <2>6 DEF DestroySocket
  <2> QED BY <1>10, <2>1, <2>2, <2>3, <2>4, <2>5, <2>6 DEF Ending
<1>11. CASE RecvTest          BY <1>11 DEF RecvTest
<1>12. CASE RecvPoll          BY <1>12 DEF RecvPoll
<1>13. CASE RecvDone          BY <1>13 DEF RecvDone
<1>14. CASE RecvFails \/ RecvDrops \/ ForeignEnds
  BY <1>14 DEF RecvFails, RecvDrops, ForeignEnds
<1>25. ASSUME NEW p \in ReadPacket, ForeignPacket(p) PROVE TypeInv'
  <2>1. foreign' \in Seq(ReadPacket) /\ foreign' # <<>>
    BY <1>25, AppendProperties DEF ForeignPacket
  <2> QED BY <1>25, <2>1 DEF ForeignPacket
<1>15. CASE RecvEnqueue
  <2>1. Returned[Len(Returned)] \in ReadPacket
    BY <1>15, ReturnedLast DEF RecvEnqueue
  <2>2. RecvPacketQueue' \in Seq(ReadPacket)
    BY <1>15, <2>1, AppendProperties DEF RecvEnqueue
  <2> QED BY <1>15, <2>2 DEF RecvEnqueue
<1>16. CASE SendTest          BY <1>16 DEF SendTest
<1>17. CASE SendNothing       BY <1>17 DEF SendNothing
<1>18. CASE SendDequeue
  BY <1>18, SessionAssumption DEF SendDequeue
<1>19. ASSUME NEW n \in 1..left, SendPieces(n) PROVE TypeInv'
  <2>1. left' \in 0..Pieces
    BY <1>19, SessionAssumption DEF SendPieces
  <2>2. wire \o inHand \in Seq(ClientPacket) /\ <<>> \in Seq(ClientPacket)
    BY ConcatProperties, EmptySeq
  <2>3. CASE n = left
    <3>1. wire' = wire \o inHand /\ inHand' = <<>> /\ sendPc' = "test"
      BY <1>19, <2>3, Zenon DEF SendPieces
    <3>2. wire' \in Seq(ClientPacket) /\ inHand' \in Seq(ClientPacket)
      BY <2>2, <3>1
    <3> QED BY <1>19, <2>1, <3>1, <3>2 DEF SendPieces
  <2>4. CASE n # left    BY <1>19, <2>1, <2>4 DEF SendPieces
  <2> QED BY <2>3, <2>4
<1>20. CASE SendFails
  BY <1>20, SessionAssumption DEF SendFails
<1>21. ASSUME NEW p \in ServerPacket, ServerSends(p) PROVE TypeInv'
  BY <1>21 DEF ServerSends
<1>22. CASE PacketArrives     BY <1>22 DEF PacketArrives
<1>23. CASE ServerCloses      BY <1>23 DEF ServerCloses
<1>24. CASE UNCHANGED vars    BY <1>24 DEF vars
<1> QED
  BY <1>1, <1>2, <1>3, <1>4, <1>5, <1>6, <1>7, <1>8, <1>9, <1>10, <1>11,
     <1>12, <1>13, <1>14, <1>15, <1>16, <1>17, <1>18, <1>19, <1>20, <1>21,
     <1>22, <1>23, <1>24, <1>25
     DEF Next, Game, Connecting, Ticking, Recv, Send, SocketSends, Server

(* Every variable keeps its type, whatever the threads do. *)
THEOREM TypeCorrect == Spec => []TypeOK
<1>1. TypeInv => TypeOK BY DEF TypeInv
<1> QED BY TypeInit, TypeStep, <1>1, PTL DEF Spec

-----------------------------------------------------------------------------
(* Freeing.  The invariant follows the game thread through Deinitialize:   *)
(* a thread runs only in a session and only until it has been joined, and  *)
(* a session has its workers and an open socket until the game thread is   *)
(* past DestroyThread.                                                     *)

RecvAlive == recvPc \notin {"none", "exited"}
SendAlive == sendPc \notin {"none", "exited"}

Lifetimes ==
  /\ RecvAlive => main \notin {"waitSend", "destroyThread", "destroySocket",
                               "done"}
  /\ SendAlive => main \notin {"destroyThread", "destroySocket", "done"}
  /\ main = "startSend" => ~SendAlive
  /\ RecvAlive \/ SendAlive \/ main = "startSend" => ClientSession
  /\ ClientSession /\ main \notin {"destroySocket", "done"} =>
       workers /\ Socket = "open"
  /\ Socket = "destroyed" => main = "done"

(* No thread runs and nothing is freed in the initial state. *)
LEMMA LifetimesInit == Init => Lifetimes
BY DEF Init, Lifetimes, RecvAlive, SendAlive

(* A step of a worker keeps its thread inside Run or ends it, and touches  *)
(* nothing of the session's life.                                          *)
LEMMA WorkerSteps ==
  ASSUME Recv \/ Send
  PROVE  /\ RecvAlive' => RecvAlive
         /\ SendAlive' => SendAlive
         /\ UNCHANGED <<main, Socket, ClientSession, workers>>
<1>1. CASE Recv
  BY <1>1 DEF Recv, RecvTest, RecvPoll, RecvDone, RecvFails, RecvDrops,
              ForeignPacket, ForeignEnds, RecvEnqueue, RecvAlive, SendAlive
<1>2. CASE Send
  <2>1. ASSUME NEW n \in 1..left, SendPieces(n)
        PROVE  /\ SendAlive
               /\ UNCHANGED <<main, Socket, ClientSession, workers, recvPc>>
    BY <2>1 DEF SendPieces, SendAlive
  <2> QED
    BY <1>2, <2>1 DEF Send, SendTest, SendNothing, SendDequeue, SocketSends,
                      SendFails, RecvAlive, SendAlive
<1> QED BY <1>1, <1>2

(* Every step keeps the order of starting, joining and freeing. *)
LEMMA LifetimesStep == Lifetimes /\ [Next]_vars => Lifetimes'
<1> SUFFICES ASSUME Lifetimes, [Next]_vars PROVE Lifetimes'
  OBVIOUS
<1> USE DEF Lifetimes
<1>1. CASE Connecting
  BY <1>1 DEF Connecting, ConnectServer, StartSendWorker, SendLogin,
              ConnectFails, SendPacket, RecvAlive, SendAlive
<1>2. CASE Ticking
  BY <1>2 DEF Ticking, HandleRecvPackets, HandlePacket, HandledAll,
              RecvAlive, SendAlive
<1>3. ASSUME NEW p \in {C_PLAY, C_LEAVE_GAME}, GameSends(p) PROVE Lifetimes'
  BY <1>3 DEF GameSends, RecvAlive, SendAlive
<1>4. CASE Deinitialize
  BY <1>4 DEF Deinitialize, RecvAlive, SendAlive
<1>5. CASE Ending
  BY <1>5 DEF Ending, StopRecvWorker, StopSendWorker, WaitForRecv,
              WaitForSend, DestroyThread, DestroySocket, RecvAlive, SendAlive
<1>6. CASE Recv \/ Send
  BY <1>6, WorkerSteps
<1>7. ASSUME Server PROVE Lifetimes'
  BY <1>7 DEF Server, ServerSends, PacketArrives, ServerCloses,
              RecvAlive, SendAlive
<1>8. CASE UNCHANGED vars
  BY <1>8 DEF vars, RecvAlive, SendAlive
<1> QED
  BY <1>1, <1>2, <1>3, <1>4, <1>5, <1>6, <1>7, <1>8 DEF Next, Game

(* While a thread runs, neither its worker nor the socket has been freed.  *)
THEOREM NeverUsedAfterFree == Spec => []NoUseAfterFree
<1>1. Lifetimes => NoUseAfterFree
  BY DEF Lifetimes, NoUseAfterFree, RecvAlive, SendAlive
<1> QED BY LifetimesInit, LifetimesStep, <1>1, PTL DEF Spec

-----------------------------------------------------------------------------
(* The way in.  What was handled, what is queued and what the thread is    *)
(* about to queue are the packets read.                                    *)

(* Nothing has been read in the initial state. *)
LEMMA ReceivedInit == Init => ReceivedInOrder
<1>1. SubSeq(<<>>, 1, 0) = <<>> /\ <<>> \o <<>> = <<>>
  BY EmptySeq, ConcatEmptySeq, SubSeqEmpty
<1> QED BY <1>1 DEF Init, ReceivedInOrder, InFlight, Returned

(* RecvPacket returns one more packet, in step or out of it. *)
RecvReturns == RecvDone \/ \E p \in ReadPacket : ForeignPacket(p)

LEMMA OneMoreReturned ==
  ASSUME TypeInv, RecvReturns
  PROVE  /\ \E e \in ReadPacket : Returned' = Append(Returned, e)
         /\ recvPc # "enqueue" /\ recvPc' = "enqueue"
         /\ UNCHANGED <<handled, RecvPacketQueue, fromServer>>
<1>1. /\ fromServer \in Seq(ServerPacket) /\ foreign \in Seq(ReadPacket)
      /\ nRead \in Nat /\ nArrived \in Nat
      /\ nRead <= nArrived /\ nArrived <= Len(fromServer)
  BY DEF TypeInv, TypeOK
<1> DEFINE read == SubSeq(fromServer, 1, nRead)
<1>2. read \in Seq(ReadPacket)
  BY ReturnedLast
<1>3. ASSUME RecvDone
      PROVE  \E e \in ReadPacket : Returned' = Append(Returned, e)
  <2>1. /\ nRead' = nRead + 1 /\ nRead < Len(fromServer)
        /\ UNCHANGED <<fromServer, foreign>> /\ foreign = <<>>
    BY <1>1, <1>3 DEF RecvDone, TypeInv
  <2>2. nRead + 1 \in 1..Len(fromServer) /\ 1 \in 1..Len(fromServer)
    BY <1>1, <2>1
  <2>3. SubSeq(fromServer, 1, nRead + 1)
          = SubSeq(fromServer, 1, (nRead + 1) - 1) \o <<fromServer[nRead + 1]>>
    BY <1>1, <2>2, SubSeqRecursiveSecond
  <2>4. fromServer[nRead + 1] \in ReadPacket
    BY <1>1, <2>2, ElementOfSeq DEF ReadPacket
  <2>5. /\ (nRead + 1) - 1 = nRead
        /\ Append(read, fromServer[nRead + 1])
             = read \o <<fromServer[nRead + 1]>>
        /\ Append(read, fromServer[nRead + 1]) \in Seq(ReadPacket)
    BY <1>1, <1>2, <2>4, AppendIsConcat, AppendProperties
  <2>6. /\ Returned = read
        /\ Returned' = Append(read, fromServer[nRead + 1])
    BY <1>2, <2>1, <2>3, <2>5, ConcatEmptySeq DEF Returned
  <2> QED BY <2>4, <2>6
<1>4. ASSUME NEW p \in ReadPacket, ForeignPacket(p)
      PROVE  \E e \in ReadPacket : Returned' = Append(Returned, e)
  <2>1. foreign' = Append(foreign, p) /\ UNCHANGED <<fromServer, nRead>>
    BY <1>4 DEF ForeignPacket
  <2>2. \A s \in Seq(ReadPacket) : s \o Append(foreign, p) = Append(s \o foreign, p)
    BY <1>1, <1>4, QueueBehind
  <2>3. Returned' = Append(Returned, p)
    BY <1>2, <2>1, <2>2 DEF Returned
  <2> QED BY <2>3
<1>5. /\ recvPc # "enqueue" /\ recvPc' = "enqueue"
      /\ UNCHANGED <<handled, RecvPacketQueue, fromServer>>
  BY DEF RecvReturns, RecvDone, ForeignPacket
<1> QED BY <1>3, <1>4, <1>5 DEF RecvReturns

(* Of all steps only HandlePacket, RecvPacket's return, RecvEnqueue and    *)
(* ServerSends touch the pieces; ConnectServer does not, because no thread *)
(* is holding a packet when it starts one.                                 *)
LEMMA ReceivedOthers ==
  ASSUME Lifetimes, [Next]_vars
  PROVE  \/ HandlePacket \/ RecvReturns \/ RecvEnqueue
         \/ \E p \in ServerPacket : ServerSends(p)
         \/ /\ UNCHANGED <<handled, RecvPacketQueue, fromServer, nRead, foreign>>
            /\ recvPc' = "enqueue" <=> recvPc = "enqueue"
<1> DEFINE Same ==
      /\ UNCHANGED <<handled, RecvPacketQueue, fromServer, nRead, foreign>>
      /\ recvPc' = "enqueue" <=> recvPc = "enqueue"
<1>1. Connecting => Same
  BY DEF Connecting, ConnectServer, StartSendWorker, SendLogin, ConnectFails,
         SendPacket, Lifetimes, RecvAlive
<1>2. HandleRecvPackets \/ HandledAll \/ Deinitialize => Same
  BY DEF HandleRecvPackets, HandledAll, Deinitialize
<1>3. ASSUME NEW p \in {C_PLAY, C_LEAVE_GAME}, GameSends(p) PROVE Same
  BY <1>3 DEF GameSends
<1>4. Ending => Same
  BY DEF Ending, StopRecvWorker, StopSendWorker, WaitForRecv, WaitForSend,
         DestroyThread, DestroySocket
<1>5. RecvTest \/ RecvPoll \/ RecvFails \/ RecvDrops \/ ForeignEnds => Same
  BY DEF RecvTest, RecvPoll, RecvFails, RecvDrops, ForeignEnds
<1>6. ASSUME Send PROVE Same
  BY <1>6 DEF Send, SendTest, SendNothing, SendDequeue, SocketSends,
              SendFails, SendPieces
<1>7. PacketArrives \/ ServerCloses => Same
  BY DEF PacketArrives, ServerCloses
<1>8. UNCHANGED vars => Same
  BY DEF vars
<1> QED
  BY <1>1, <1>2, <1>3, <1>4, <1>5, <1>6, <1>7, <1>8
     DEF Next, Game, Ticking, Recv, RecvReturns, Server

(* Every step moves packets along without losing or doubling one.          *)
LEMMA ReceivedStep ==
  TypeInv /\ Lifetimes /\ ReceivedInOrder /\ [Next]_vars => ReceivedInOrder'
<1> SUFFICES ASSUME TypeInv, Lifetimes, ReceivedInOrder, [Next]_vars
             PROVE  ReceivedInOrder'
  OBVIOUS
<1>1. /\ handled \in Seq(ReadPacket) /\ RecvPacketQueue \in Seq(ReadPacket)
      /\ fromServer \in Seq(ServerPacket) /\ nRead \in 0..Len(fromServer)
  BY DEF TypeInv, TypeOK
<1> DEFINE through == handled \o RecvPacketQueue
<1>2. through \in Seq(ReadPacket)
  BY <1>1, ConcatProperties
<1>3. CASE HandlePacket
  <2>1. InFlight' = InFlight /\ Returned' = Returned
    BY <1>3 DEF HandlePacket, InFlight, Returned
  <2>2. /\ handled' = Append(handled, Head(RecvPacketQueue))
        /\ RecvPacketQueue' = Tail(RecvPacketQueue)
        /\ RecvPacketQueue # <<>>
    BY <1>3 DEF HandlePacket
  <2>3. handled' \o RecvPacketQueue' = through
    BY <1>1, <2>2, QueueMove
  <2> QED BY <2>1, <2>3 DEF ReceivedInOrder
<1>4. CASE RecvReturns
  <2>1. /\ recvPc # "enqueue" /\ recvPc' = "enqueue"
        /\ UNCHANGED <<handled, RecvPacketQueue>>
    BY <1>4, OneMoreReturned
  <2>2. PICK e \in ReadPacket : Returned' = Append(Returned, e)
    BY <1>4, OneMoreReturned
  <2>3. Returned = through
    BY <1>2, <2>1, ConcatEmptySeq DEF ReceivedInOrder, InFlight
  <2>4. /\ Append(through, e)[Len(Append(through, e))] = e
        /\ Append(through, e) = through \o <<e>>
    BY <1>2, AppendProperties, AppendIsConcat
  <2>5. InFlight' = <<e>>
    BY <2>1, <2>2, <2>3, <2>4 DEF InFlight
  <2> QED BY <2>1, <2>2, <2>3, <2>4, <2>5 DEF ReceivedInOrder
<1>5. CASE RecvEnqueue
  <2> DEFINE e == Returned[Len(Returned)]
  <2>1. /\ InFlight = <<e>> /\ InFlight' = <<>> /\ Returned' = Returned
        /\ RecvPacketQueue' = Append(RecvPacketQueue, e)
        /\ UNCHANGED handled
    BY <1>5 DEF RecvEnqueue, InFlight, Returned
  <2>2. e \in ReadPacket
    BY <1>5, ReturnedLast DEF RecvEnqueue
  <2> HIDE DEF e
  <2>3. handled \o Append(RecvPacketQueue, e) = Append(through, e)
    BY <1>1, <2>2, QueueBehind
  <2>4. Append(through, e) = through \o <<e>>
    BY <1>2, <2>2, AppendIsConcat
  <2>5. Append(through, e) \o <<>> = Append(through, e)
    BY <1>2, <2>2, AppendProperties, ConcatEmptySeq
  <2> QED BY <2>1, <2>3, <2>4, <2>5 DEF ReceivedInOrder
<1>6. ASSUME NEW p \in ServerPacket, ServerSends(p) PROVE ReceivedInOrder'
  <2>1. /\ fromServer' = Append(fromServer, p)
        /\ UNCHANGED <<handled, RecvPacketQueue, nRead, foreign, recvPc>>
    BY <1>6 DEF ServerSends
  <2>2. SubSeq(fromServer', 1, nRead) = SubSeq(fromServer, 1, nRead)
    BY <1>1, <2>1, PrefixOfAppend
  <2>3. Returned' = Returned
    BY <2>1, <2>2 DEF Returned
  <2>4. InFlight' = InFlight
    BY <2>1, <2>3 DEF InFlight
  <2> QED BY <2>1, <2>3, <2>4 DEF ReceivedInOrder
<1>7. CASE /\ UNCHANGED <<handled, RecvPacketQueue, fromServer, nRead, foreign>>
           /\ recvPc' = "enqueue" <=> recvPc = "enqueue"
  <2>1. InFlight' = InFlight /\ Returned' = Returned
    BY <1>7 DEF InFlight, Returned
  <2> QED BY <1>7, <2>1 DEF ReceivedInOrder
<1> QED BY <1>3, <1>4, <1>5, <1>6, <1>7, ReceivedOthers

(* The game thread handles the server's packets in order, none lost and    *)
(* none twice, without a lock around the queue.                            *)
THEOREM AlwaysReceivedInOrder == Spec => []ReceivedInOrder
BY TypeInit, TypeStep, LifetimesInit, LifetimesStep, ReceivedInit,
   ReceivedStep, PTL DEF Spec

-----------------------------------------------------------------------------
(* The way out.  What the connection took, what is in hand and what is     *)
(* queued are the packets given to SendPacket.                             *)

(* The sending thread holds a packet exactly while it is sending it. *)
Holding == IF sendPc = "sending" THEN \E p \in ClientPacket : inHand = <<p>>
                                 ELSE inHand = <<>>

SentInv == SentInOrder /\ Holding

(* Nothing has been queued in the initial state. *)
LEMMA SentInit == Init => SentInv
<1>1. <<>> \o <<>> \o <<>> = <<>>
  BY EmptySeq, ConcatEmptySeq
<1> QED BY <1>1 DEF Init, SentInv, SentInOrder, Holding

(* A step queues one packet, or moves the sending thread on, or changes    *)
(* nothing of the way out.                                                 *)
OutgoingSame == UNCHANGED <<SendPacketQueue, outbox>>
SenderSame   == UNCHANGED <<wire, inHand, broken, sendPc = "sending">>

LEMMA SentOthers ==
  ASSUME Lifetimes, [Next]_vars
  PROVE  \/ (\E p \in ClientPacket : SendPacket(p)) /\ SenderSame
         \/ OutgoingSame /\ SenderSame
         \/ SendDequeue \/ SendFails \/ \E n \in 1..left : SendPieces(n)
<1> DEFINE Sends == (\E p \in ClientPacket : SendPacket(p)) /\ SenderSame
           Same  == OutgoingSame /\ SenderSame
<1>0. /\ C_LOGIN \in ClientPacket /\ C_ENTER_GAME \in ClientPacket
      /\ C_LEAVE_GAME \in ClientPacket /\ C_PLAY \in ClientPacket
  BY DEF ClientPacket
<1>1. ConnectServer \/ ConnectFails \/ StartSendWorker => Same
  BY DEF ConnectServer, ConnectFails, StartSendWorker, OutgoingSame,
         SenderSame, Lifetimes, SendAlive
<1>2. SendLogin => Sends
  BY <1>0 DEF SendLogin, SenderSame
<1>3. HandleRecvPackets \/ HandledAll => Same
  BY DEF HandleRecvPackets, HandledAll, OutgoingSame, SenderSame
<1>4. HandlePacket => Sends \/ Same
  BY <1>0, Zenon DEF HandlePacket, OutgoingSame, SenderSame, sendVars
<1>5. ASSUME NEW p \in {C_PLAY, C_LEAVE_GAME}, GameSends(p) PROVE Sends
  BY <1>0, <1>5 DEF GameSends, SenderSame
<1>6. Deinitialize => Sends \/ Same
  BY <1>0, Zenon DEF Deinitialize, OutgoingSame, SenderSame, sendVars
<1>7. Ending => Same
  BY DEF Ending, StopRecvWorker, StopSendWorker, WaitForRecv, WaitForSend,
         DestroyThread, DestroySocket, OutgoingSame, SenderSame
<1>8. ASSUME Recv PROVE Same
  BY <1>8 DEF Recv, RecvTest, RecvPoll, RecvDone, RecvFails, RecvDrops,
              ForeignPacket, ForeignEnds, RecvEnqueue, OutgoingSame, SenderSame
<1>9. SendTest \/ SendNothing => Same
  BY DEF SendTest, SendNothing, OutgoingSame, SenderSame
<1>10. ASSUME Server PROVE Same
  BY <1>10 DEF Server, ServerSends, PacketArrives, ServerCloses,
               OutgoingSame, SenderSame
<1>11. UNCHANGED vars => Same
  BY DEF vars, OutgoingSame, SenderSame
<1> QED
  BY <1>1, <1>2, <1>3, <1>4, <1>5, <1>6, <1>7, <1>8, <1>9, <1>10, <1>11
     DEF Next, Game, Connecting, Ticking, Send, SocketSends

(* Every step keeps the packets of the way out together and in order.      *)
LEMMA SentStep ==
  TypeInv /\ Lifetimes /\ SentInv /\ [Next]_vars => SentInv'
<1> SUFFICES ASSUME TypeInv, Lifetimes, SentInv, [Next]_vars
             PROVE  SentInv'
  OBVIOUS
<1>1. /\ wire \in Seq(ClientPacket) /\ inHand \in Seq(ClientPacket)
      /\ SendPacketQueue \in Seq(ClientPacket) /\ outbox \in Seq(ClientPacket)
  BY DEF TypeInv, TypeOK
<1>2. wire \o inHand \in Seq(ClientPacket)
  BY <1>1, ConcatProperties
<1>3. ASSUME NEW p \in ClientPacket, SendPacket(p), SenderSame PROVE SentInv'
  <2>1. (wire \o inHand) \o Append(SendPacketQueue, p)
          = Append((wire \o inHand) \o SendPacketQueue, p)
    BY <1>1, <1>2, QueueBehind
  <2>2. SentInOrder'
    BY <1>3, <2>1 DEF SentInv, SentInOrder, SendPacket, SenderSame
  <2>3. Holding'
    BY <1>3 DEF SentInv, Holding, SenderSame
  <2> QED BY <2>2, <2>3 DEF SentInv
<1>4. ASSUME OutgoingSame, SenderSame PROVE SentInv'
  BY <1>4 DEF OutgoingSame, SenderSame, SentInv, SentInOrder, Holding
<1>5. CASE SendDequeue
  <2>1. /\ SendPacketQueue # <<>> /\ SendPacketQueue' = Tail(SendPacketQueue)
        /\ inHand' = <<Head(SendPacketQueue)>> /\ sendPc' = "sending"
        /\ sendPc = "dequeue" /\ UNCHANGED <<wire, broken, outbox>>
    BY <1>5 DEF SendDequeue
  <2>2. Head(SendPacketQueue) \in ClientPacket
    BY <1>1, <2>1, HeadTailProperties
  <2>3. wire \o inHand = wire
    BY <1>1, <2>1, ConcatEmptySeq DEF SentInv, Holding
  <2>4. (wire \o <<Head(SendPacketQueue)>>) \o Tail(SendPacketQueue)
          = wire \o SendPacketQueue
    BY <1>1, <2>1, QueueMove
  <2> QED BY <2>1, <2>2, <2>3, <2>4 DEF SentInv, SentInOrder, Holding
<1>6. CASE SendFails
  BY <1>6 DEF SendFails, SentInv, SentInOrder, Holding
<1>7. ASSUME NEW n \in 1..left, SendPieces(n) PROVE SentInv'
  <2>1. CASE n = left
    <3>1. /\ wire' = wire \o inHand /\ inHand' = <<>> /\ sendPc' = "test"
          /\ UNCHANGED <<SendPacketQueue, outbox, broken>>
      BY <1>7, <2>1, Zenon DEF SendPieces, queueVars, histVars
    <3>2. (wire \o inHand) \o <<>> = wire \o inHand
      BY <1>2, ConcatEmptySeq
    <3> QED BY <3>1, <3>2 DEF SentInv, SentInOrder, Holding
  <2>2. CASE n # left
    BY <1>7, <2>2 DEF SendPieces, SentInv, SentInOrder, Holding
  <2> QED BY <2>1, <2>2
<1> QED BY <1>3, <1>4, <1>5, <1>6, <1>7, SentOthers

(* Until a Send fails, no packet the game has queued is lost, doubled or   *)
(* overtaken on its way to the connection.                                 *)
THEOREM AlwaysSentInOrder == Spec => []SentInOrder
<1>1. SentInv => SentInOrder BY DEF SentInv
<1> QED
  BY TypeInit, TypeStep, LifetimesInit, LifetimesStep, SentInit, SentStep,
     <1>1, PTL DEF Spec

-----------------------------------------------------------------------------
(* The login goes first.  A session past ConnectServer has queued C_LOGIN  *)
(* before anything else; the connection carries what was queued, in order. *)

LoginInv ==
  /\ IF ClientSession /\ main \notin {"startSend", "login"}
       THEN outbox # <<>> /\ outbox[1] = C_LOGIN
       ELSE outbox = <<>>
  /\ main \in {"startSend", "login", "drain"} => ClientSession
  /\ LoginFirst

(* Nothing is queued in the initial state. *)
LEMMA LoginInit == Init => LoginInv
BY DEF Init, LoginInv, LoginFirst

(* No step puts a packet before C_LOGIN. *)
LEMMA LoginStep ==
  TypeInv /\ Lifetimes /\ SentInv /\ LoginInv /\ [Next]_vars => LoginInv'
<1> SUFFICES ASSUME TypeInv, Lifetimes, SentInv, LoginInv, [Next]_vars
             PROVE  LoginInv'
  OBVIOUS
<1> USE DEF LoginInv, LoginFirst
<1>1. outbox \in Seq(ClientPacket)
  BY DEF TypeInv, TypeOK
<1>2. /\ C_LOGIN \in ClientPacket /\ C_ENTER_GAME \in ClientPacket
      /\ C_LEAVE_GAME \in ClientPacket /\ C_PLAY \in ClientPacket
  BY DEF ClientPacket
<1>3. ASSUME NEW p \in ClientPacket, outbox # <<>>
      PROVE  Append(outbox, p) # <<>> /\ Append(outbox, p)[1] = outbox[1]
  BY <1>1, <1>3, AppendProperties, EmptySeq
<1>4. CASE ConnectServer \/ StartSendWorker \/ ConnectFails
  BY <1>4 DEF ConnectServer, StartSendWorker, ConnectFails
<1>5. CASE SendLogin
  <2>1. outbox = <<>> /\ outbox' = <<C_LOGIN>>
    BY <1>5 DEF SendLogin, SendPacket
  <2> QED BY <1>5, <2>1 DEF SendLogin
<1>6. CASE HandleRecvPackets \/ HandledAll
  BY <1>6 DEF HandleRecvPackets, HandledAll
<1>7. CASE HandlePacket
  <2>1. outbox' = Append(outbox, C_ENTER_GAME) \/ outbox' = outbox
    BY <1>7, Zenon DEF HandlePacket, SendPacket
  <2>2. main = "drain" /\ UNCHANGED <<main, ClientSession, wire>>
    BY <1>7 DEF HandlePacket
  <2> QED BY <1>2, <1>3, <2>1, <2>2
<1>8. ASSUME NEW p \in {C_PLAY, C_LEAVE_GAME}, GameSends(p) PROVE LoginInv'
  BY <1>2, <1>3, <1>8 DEF GameSends, SendPacket
<1>9. CASE Deinitialize
  <2>1. CASE ClientSession
    <3>1. outbox' = Append(outbox, C_LEAVE_GAME) /\ main' = "stopRecv"
      BY <1>9, <2>1, Zenon DEF Deinitialize, SendPacket
    <3>2. outbox # <<>> /\ UNCHANGED <<ClientSession, wire>>
      BY <1>9, <2>1 DEF Deinitialize
    <3> QED BY <1>2, <1>3, <2>1, <3>1, <3>2
  <2>2. CASE ~ClientSession
    BY <1>9, <2>2, Zenon DEF Deinitialize, sendVars
  <2> QED BY <2>1, <2>2
<1>10. CASE Ending
  BY <1>10 DEF Ending, StopRecvWorker, StopSendWorker, WaitForRecv,
               WaitForSend, DestroyThread, DestroySocket
<1>11. CASE Recv
  BY <1>11 DEF Recv, RecvTest, RecvPoll, RecvDone, RecvFails, RecvDrops,
               ForeignPacket, ForeignEnds, RecvEnqueue
<1>12. CASE SendTest \/ SendNothing \/ SendDequeue \/ SendFails
  BY <1>12 DEF SendTest, SendNothing, SendDequeue, SendFails
<1>13. ASSUME NEW n \in 1..left, SendPieces(n) PROVE LoginInv'
  <2>1. UNCHANGED <<main, ClientSession, outbox, broken>> /\ ~broken
    BY <1>13 DEF SendPieces
  <2>2. SentInv'
    BY <1>13, SentStep DEF Next, Send, SocketSends
  <2>3. (wire' \o inHand') \o SendPacketQueue' = outbox
    BY <2>1, <2>2 DEF SentInv, SentInOrder
  <2>4. /\ wire' \in Seq(ClientPacket) /\ inHand' \in Seq(ClientPacket)
        /\ SendPacketQueue' \in Seq(ClientPacket)
    BY <1>13, TypeStep DEF Next, Send, SocketSends, TypeInv, TypeOK
  <2>5. ASSUME wire' # <<>> PROVE outbox # <<>> /\ wire'[1] = outbox[1]
    BY <2>3, <2>4, <2>5, ConcatProperties, EmptySeq
  <2> QED BY <2>1, <2>5
<1>14. CASE Server
  BY <1>14 DEF Server, ServerSends, PacketArrives, ServerCloses
<1>15. CASE UNCHANGED vars
  BY <1>15 DEF vars
<1> QED
  BY <1>4, <1>5, <1>6, <1>7, <1>8, <1>9, <1>10, <1>11, <1>12, <1>13, <1>14,
     <1>15 DEF Next, Game, Connecting, Ticking, Send, SocketSends

(* Although both threads run before ConnectServer queues it, C_LOGIN is    *)
(* the first packet the connection carries.                                *)
THEOREM LoginAlwaysFirst == Spec => []LoginFirst
<1>1. LoginInv => LoginFirst BY DEF LoginInv
<1> QED
  BY TypeInit, TypeStep, LifetimesInit, LifetimesStep, SentInit, SentStep,
     LoginInit, LoginStep, <1>1, PTL DEF Spec

-----------------------------------------------------------------------------
(* Both directions implement PacketChannel.                                *)

(* Counting the packets read: those handled, those queued and the one the  *)
(* receiving thread is about to queue.                                     *)
LEMMA ReadCount ==
  ASSUME TypeInv, ReceivedInOrder
  PROVE  /\ nRead + Len(foreign)
              = Len(handled) + Len(RecvPacketQueue)
                  + (IF recvPc = "enqueue" THEN 1 ELSE 0)
         /\ InFlight \in Seq(ReadPacket)
<1>1. handled \in Seq(ReadPacket) /\ RecvPacketQueue \in Seq(ReadPacket)
  BY DEF TypeInv, TypeOK
<1>2. /\ InFlight \in Seq(ReadPacket)
      /\ Len(InFlight) = IF recvPc = "enqueue" THEN 1 ELSE 0
  <2>1. CASE recvPc = "enqueue"
    <3>1. InFlight = <<Returned[Len(Returned)]>>
      BY <2>1 DEF InFlight
    <3>2. Returned[Len(Returned)] \in ReadPacket
      BY <2>1, ReturnedLast
    <3> QED BY <2>1, <3>1, <3>2
  <2>2. CASE recvPc # "enqueue"
    BY <2>2, EmptySeq DEF InFlight
  <2> QED BY <2>1, <2>2
<1>3. /\ handled \o RecvPacketQueue \in Seq(ReadPacket)
      /\ Len(handled \o RecvPacketQueue) = Len(handled) + Len(RecvPacketQueue)
  BY <1>1, ConcatProperties
<1>4. Len((handled \o RecvPacketQueue) \o InFlight)
        = Len(handled \o RecvPacketQueue) + Len(InFlight)
  BY <1>2, <1>3, ConcatProperties
<1>5. Len(Returned) = nRead + Len(foreign)
  BY ReturnedLast
<1> QED BY <1>2, <1>3, <1>4, <1>5 DEF ReceivedInOrder

(* In step, no packet is handled that has not been read of the stream.     *)
LEMMA InStepCount ==
  ASSUME TypeInv, ReceivedInOrder, ~dropped
  PROVE  Len(handled) <= nRead
<1>1. /\ handled \in Seq(ReadPacket) /\ RecvPacketQueue \in Seq(ReadPacket)
      /\ nRead \in Nat /\ foreign = <<>>
  BY DEF TypeInv, TypeOK
<1>2. /\ Len(handled) \in Nat /\ Len(RecvPacketQueue) \in Nat
      /\ Len(foreign) = 0
  BY <1>1, EmptySeq
<1> QED BY <1>1, <1>2, ReadCount

(* Taking the head of the receive queue delivers the channel's next packet,*)
(* if that packet was read in step, and otherwise nothing of the channel.  *)
LEMMA DeliverIn ==
  ASSUME TypeInv, ReceivedInOrder, HandlePacket
  PROVE  /\ Len(handled) < nRead => Incoming!Deliver
         /\ Len(handled) >= nRead => UNCHANGED <<fromServer, HandledInStep>>
<1>1. /\ handled \in Seq(ReadPacket) /\ RecvPacketQueue \in Seq(ReadPacket)
      /\ fromServer \in Seq(ServerPacket) /\ nRead \in 0..Len(fromServer)
      /\ foreign \in Seq(ReadPacket)
  BY DEF TypeInv, TypeOK
<1>2. /\ RecvPacketQueue # <<>> /\ UNCHANGED <<fromServer, nRead>>
      /\ handled' = Append(handled, Head(RecvPacketQueue))
  BY DEF HandlePacket
<1>3. /\ Head(RecvPacketQueue) = RecvPacketQueue[1]
      /\ Head(RecvPacketQueue) \in ReadPacket
  BY <1>1, <1>2, HeadTailProperties
<1>4. Len(handled') = Len(handled) + 1 /\ Len(handled) \in Nat
  BY <1>1, <1>2, <1>3, AppendProperties
<1>5. ASSUME Len(handled) < nRead PROVE Incoming!Deliver
  <2> DEFINE read == SubSeq(fromServer, 1, nRead)
  <2>1. /\ Len(read) = nRead
        /\ \A i \in 1..nRead : read[i] = fromServer[i]
    BY <1>1, SubSeqProperties, ElementOfSeq
  <2>2. read \in Seq(ReadPacket) /\ Returned \in Seq(ReadPacket)
    BY ReturnedLast
  <2>3. \A i \in 1..nRead : Returned[i] = read[i]
    BY <1>1, <2>1, <2>2, ConcatProperties DEF Returned
  <2>4. Returned = SubSeq(Returned, 1, Len(Returned))
    BY <2>2, SubSeqFull
  <2>5. InFlight \in Seq(ReadPacket) /\ Len(Returned) \in 0..Len(Returned)
    BY <2>2, ReadCount
  <2>6. Returned[Len(handled) + 1] = RecvPacketQueue[1]
    <3>1. \A w \in Seq(ReadPacket) : \A n \in 0..Len(w) :
            (handled \o RecvPacketQueue) \o InFlight = SubSeq(w, 1, n)
              => w[Len(handled) + 1] = RecvPacketQueue[1]
      BY <1>1, <1>2, <2>5, HeadOfRest
    <3> QED BY <2>2, <2>4, <2>5, <3>1 DEF ReceivedInOrder
  <2>7. Len(handled) + 1 \in 1..nRead
    BY <1>1, <1>4, <1>5
  <2>8. fromServer[Len(handled) + 1] = Head(RecvPacketQueue)
    BY <1>3, <2>1, <2>3, <2>6, <2>7
  <2>9. HandledInStep = handled /\ HandledInStep' = handled'
    BY <1>1, <1>2, <1>4, <1>5 DEF HandledInStep
  <2> QED BY <1>1, <1>2, <1>5, <2>8, <2>9 DEF Incoming!Deliver
<1>6. ASSUME Len(handled) >= nRead PROVE UNCHANGED <<fromServer, HandledInStep>>
  <2>1. nRead \in 0..Len(handled)
    BY <1>1, <1>4, <1>6
  <2>2. HandledInStep = SubSeq(handled, 1, nRead)
    BY <1>1, <1>4, <1>6, SubSeqFull DEF HandledInStep
  <2>3. HandledInStep' = SubSeq(handled', 1, nRead)
    BY <1>1, <1>2, <1>4, <1>6 DEF HandledInStep
  <2>4. SubSeq(handled', 1, nRead) = SubSeq(handled, 1, nRead)
    BY <1>1, <1>2, <1>3, <2>1, PrefixOfAppend
  <2> QED BY <1>2, <2>2, <2>3, <2>4
<1> QED BY <1>5, <1>6

(* Every other step writes to the channel or leaves it alone.              *)
LEMMA IncomingStep ==
  ASSUME TypeInv, Lifetimes, ReceivedInOrder, [Next]_vars
  PROVE  [Incoming!Next]_<<fromServer, HandledInStep>>
<1>1. CASE HandlePacket
  <2>1. Len(handled) \in Nat /\ nRead \in Nat
    BY DEF TypeInv, TypeOK
  <2> QED BY <1>1, <2>1, DeliverIn DEF Incoming!Next
<1>2. CASE RecvReturns
  <2>1. CASE RecvDone
    <3>1. /\ ~dropped /\ nRead' = nRead + 1
          /\ UNCHANGED <<fromServer, handled>>
      BY <2>1 DEF RecvDone, TypeInv
    <3>2. Len(handled) \in Nat /\ nRead \in Nat
      BY DEF TypeInv, TypeOK
    <3>3. Len(handled) <= nRead /\ Len(handled) <= nRead + 1
      BY <3>1, <3>2, InStepCount
    <3> QED BY <3>1, <3>3 DEF HandledInStep
  <2>2. ASSUME NEW p \in ReadPacket, ForeignPacket(p)
        PROVE  UNCHANGED <<fromServer, HandledInStep>>
    BY <2>2 DEF ForeignPacket, HandledInStep
  <2> QED BY <1>2, <2>1, <2>2 DEF RecvReturns
<1>3. CASE RecvEnqueue
  BY <1>3 DEF RecvEnqueue, HandledInStep
<1>4. ASSUME NEW p \in ServerPacket, ServerSends(p) PROVE Incoming!Write
  <2>1. /\ fromServer' = Append(fromServer, p)
        /\ UNCHANGED <<handled, nRead>>
    BY <1>4 DEF ServerSends
  <2>2. /\ Len(fromServer') = Len(fromServer) + 1
        /\ fromServer'[Len(fromServer')] = p
    BY <2>1, AppendProperties DEF TypeInv, TypeOK
  <2> QED BY <2>1, <2>2 DEF Incoming!Write, HandledInStep
<1>5. CASE UNCHANGED <<handled, fromServer, nRead>>
  BY <1>5 DEF HandledInStep
<1> QED BY <1>1, <1>2, <1>3, <1>4, <1>5, ReceivedOthers DEF Incoming!Next

(* From the server's send to ServerPacketHandler::HandlePacket the session *)
(* is a packet channel for what RecvPacket returns in step; a dropped      *)
(* header stops it, and what is read after one is not of the channel.      *)
THEOREM IncomingImplementsChannel == Spec => IncomingIsChannel
<1>1. Init => Incoming!Init
  BY EmptySeq DEF Init, Incoming!Init, HandledInStep
<1>2. TypeInv /\ Lifetimes /\ ReceivedInOrder /\ [Next]_vars
        => [Incoming!Next]_<<fromServer, HandledInStep>>
  BY IncomingStep
<1> QED
  BY TypeInit, TypeStep, LifetimesInit, LifetimesStep, ReceivedInit,
     ReceivedStep, <1>1, <1>2, PTL
     DEF Spec, IncomingIsChannel, Incoming!Spec, Incoming!channelVars

(* The last piece of a packet delivers the next one of the channel.        *)
LEMMA DeliverOut ==
  ASSUME TypeInv, SentInv, NEW n \in 1..left, SendPieces(n), n = left
  PROVE  Outgoing!Deliver
<1>1. /\ wire \in Seq(ClientPacket) /\ inHand \in Seq(ClientPacket)
      /\ SendPacketQueue \in Seq(ClientPacket) /\ outbox \in Seq(ClientPacket)
  BY DEF TypeInv, TypeOK
<1>2. /\ wire' = wire \o inHand /\ UNCHANGED outbox
      /\ ~broken /\ sendPc = "sending"
  BY Zenon DEF SendPieces
<1>3. PICK p \in ClientPacket : inHand = <<p>>
  BY <1>2 DEF SentInv, Holding
<1>4. PICK m \in 0..Len(outbox) :
        (wire \o inHand) \o SendPacketQueue = SubSeq(outbox, 1, m)
  BY <1>1, <1>2, SubSeqFull, Len(outbox) \in 0..Len(outbox)
     DEF SentInv, SentInOrder
<1>5. inHand # <<>>
  BY <1>3
<1>6. Len(wire) < Len(outbox) /\ outbox[Len(wire) + 1] = inHand[1]
  BY <1>1, <1>4, <1>5, HeadOfRest
<1>7. wire' = Append(wire, p) /\ inHand[1] = p
  BY <1>1, <1>2, <1>3, AppendIsConcat
<1> QED BY <1>2, <1>6, <1>7 DEF Outgoing!Deliver

(* Every step sends, queues or leaves the way out alone. *)
LEMMA OutgoingStep ==
  ASSUME TypeInv, Lifetimes, SentInv, [Next]_vars
  PROVE  [Outgoing!Next]_<<outbox, wire>>
<1>1. ASSUME NEW p \in ClientPacket, SendPacket(p), SenderSame
      PROVE  Outgoing!Write
  <2>1. outbox' = Append(outbox, p) /\ UNCHANGED wire
    BY <1>1 DEF SendPacket, SenderSame
  <2>2. Len(outbox') = Len(outbox) + 1 /\ outbox'[Len(outbox')] = p
    BY <2>1, AppendProperties DEF TypeInv, TypeOK
  <2> QED BY <2>1, <2>2 DEF Outgoing!Write
<1>2. ASSUME OutgoingSame, SenderSame PROVE UNCHANGED <<outbox, wire>>
  BY <1>2 DEF OutgoingSame, SenderSame
<1>3. CASE SendDequeue \/ SendFails
  BY <1>3 DEF SendDequeue, SendFails
<1>4. ASSUME NEW n \in 1..left, SendPieces(n)
      PROVE  Outgoing!Deliver \/ UNCHANGED <<outbox, wire>>
  <2>1. CASE n = left  BY <1>4, <2>1, DeliverOut
  <2>2. CASE n # left  BY <1>4, <2>2 DEF SendPieces
  <2> QED BY <2>1, <2>2
<1> QED BY <1>1, <1>2, <1>3, <1>4, SentOthers DEF Outgoing!Next

(* From UNetworkManager::SendPacket to the connection the session is a     *)
(* packet channel that stops at the first failed Send.                     *)
THEOREM OutgoingImplementsChannel == Spec => OutgoingIsChannel
<1>1. Init => Outgoing!Init
  BY DEF Init, Outgoing!Init
<1>2. TypeInv /\ Lifetimes /\ SentInv /\ [Next]_vars
        => [Outgoing!Next]_<<outbox, wire>>
  BY OutgoingStep
<1> QED
  BY TypeInit, TypeStep, LifetimesInit, LifetimesStep, SentInit, SentStep,
     <1>1, <1>2, PTL
     DEF Spec, OutgoingIsChannel, Outgoing!Spec, Outgoing!channelVars

-----------------------------------------------------------------------------
(* Getting on, in step.  What follows is about LiveSpec, which asks for    *)
(* nothing once RecvPacket has dropped a header, so each claim is up to    *)
(* then.  That an action the game, a thread or the network can take is     *)
(* enabled is a hypothesis, SessionCanStep, and so is that the loop of     *)
(* Socket->Send calls for one packet ends, SendLoopEnds: theorem           *)
(* SendLoopRunsDown shows that it falls.                                   *)

InGame == {"startSend", "login", "idle", "drain"}

(* What the game thread's place says of the two threads: each is started   *)
(* once, told to stop once and leaves Run only when it has been told to.   *)
Joins ==
  /\ ClientSession <=> recvPc # "none"
  /\ recvRunning <=> ClientSession /\ main \in InGame \cup {"stopRecv"}
  /\ sendPc # "none" <=> ClientSession /\ main # "startSend"
  /\ sendRunning <=>
       /\ ClientSession
       /\ main \in {"login", "idle", "drain", "stopRecv", "stopSend"}
  /\ ~ClientSession => main \in {"idle", "destroySocket", "done"}
  /\ recvPc = "reading" => nRead < Len(fromServer)
  /\ recvPc = "exited" => ~recvRunning
  /\ sendPc = "exited" => ~sendRunning
  /\ sendPc = "sending" => left > 0
  /\ broken => closed
  /\ fromServer # <<>> => ClientSession

(* There is no session in the initial state. *)
LEMMA JoinsInit == Init => Joins
BY DEF Init, Joins, InGame

(* Every step keeps the order of starting, stopping and joining. *)
LEMMA JoinsStep == TypeInv /\ Joins /\ [Next]_vars => Joins'
<1> SUFFICES ASSUME TypeInv, Joins, [Next]_vars PROVE Joins'
  OBVIOUS
<1> USE DEF Joins, InGame
<1>1. CASE Connecting
  <2>1. CASE ConnectServer   BY <2>1 DEF ConnectServer
  <2>2. CASE StartSendWorker BY <2>2 DEF StartSendWorker
  <2>3. CASE SendLogin       BY <2>3 DEF SendLogin
  <2>4. CASE ConnectFails    BY <2>4 DEF ConnectFails
  <2> QED BY <1>1, <2>1, <2>2, <2>3, <2>4 DEF Connecting
<1>2. CASE Ticking
  BY <1>2 DEF Ticking, HandleRecvPackets, HandlePacket, HandledAll
<1>3. ASSUME NEW p \in {C_PLAY, C_LEAVE_GAME}, GameSends(p) PROVE Joins'
  BY <1>3 DEF GameSends
<1>4. CASE Deinitialize
  BY <1>4 DEF Deinitialize
<1>5. CASE Ending
  <2>1. CASE StopRecvWorker   BY <2>1 DEF StopRecvWorker
  <2>2. CASE StopSendWorker   BY <2>2 DEF StopSendWorker
  <2>3. CASE WaitForRecv      BY <2>3 DEF WaitForRecv
  <2>4. CASE WaitForSend      BY <2>4 DEF WaitForSend
  <2>5. CASE DestroyThread    BY <2>5 DEF DestroyThread
  <2>6. CASE DestroySocket    BY <2>6 DEF DestroySocket
  <2> QED BY <1>5, <2>1, <2>2, <2>3, <2>4, <2>5, <2>6 DEF Ending
<1>6. CASE Recv
  BY <1>6 DEF Recv, RecvTest, RecvPoll, RecvDone, RecvFails, RecvDrops,
              ForeignPacket, ForeignEnds, RecvEnqueue, TypeInv, TypeOK
<1>7. CASE Send
  <2>1. ASSUME NEW n \in 1..left, SendPieces(n) PROVE Joins'
    BY <2>1, SessionAssumption DEF SendPieces, TypeInv, TypeOK
  <2>2. CASE SendDequeue
    BY <2>2, SessionAssumption DEF SendDequeue
  <2> QED
    BY <1>7, <2>1, <2>2 DEF Send, SocketSends, SendTest, SendNothing, SendFails
<1>8. CASE Server
  <2>1. ASSUME NEW p \in ServerPacket, ServerSends(p) PROVE Joins'
    BY <2>1 DEF ServerSends, TypeInv, TypeOK
  <2>2. CASE PacketArrives BY <2>2 DEF PacketArrives
  <2>3. CASE ServerCloses  BY <2>3 DEF ServerCloses
  <2> QED BY <1>8, <2>1, <2>2, <2>3 DEF Server
<1>9. CASE UNCHANGED vars
  BY <1>9 DEF vars
<1> QED
  BY <1>1, <1>2, <1>3, <1>4, <1>5, <1>6, <1>7, <1>8, <1>9 DEF Next, Game

SessionInv ==
  TypeInv /\ Lifetimes /\ Joins /\ ReceivedInOrder /\ SentInv /\ LoginInv

LEMMA SessionInit == Init => SessionInv
BY TypeInit, LifetimesInit, JoinsInit, ReceivedInit, SentInit, LoginInit
   DEF SessionInv

LEMMA SessionStep == SessionInv /\ [Next]_vars => SessionInv'
BY TypeStep, LifetimesStep, JoinsStep, ReceivedStep, SentStep, LoginStep
   DEF SessionInv

(* A step of the receiving thread goes on to the next place in Run: what   *)
(* it reads next is what HasPendingData saw.                               *)
LEMMA RecvMoves ==
  ASSUME SessionInv, Recv
  PROVE  /\ recvPc = "test" => recvPc' = IF recvRunning THEN "poll" ELSE "exited"
         /\ recvPc = "poll" /\ ~dropped =>
              \/ recvPc' = "reading"
              \/ recvPc' = "test" /\ nRead = nArrived
         /\ recvPc = "reading" =>
              \/ recvPc' = "enqueue" /\ nRead < nArrived
              \/ recvPc' = "test" /\ nRead = nArrived /\ (closed \/ dropped')
         /\ recvPc = "enqueue" => recvPc' = "test"
         /\ dropped => dropped'
         /\ recvPc \in {"test", "poll", "reading", "foreign", "enqueue"}
         /\ UNCHANGED <<managerVars, recvRunning, sendVars, serverVars,
                        handled, SendPacketQueue>>
<1>1. dropped => dropped'
  BY Zenon DEF Recv, RecvTest, RecvPoll, RecvDone, RecvFails, RecvDrops,
               ForeignPacket, ForeignEnds, RecvEnqueue
<1>2. CASE RecvDrops
  BY <1>1, <1>2 DEF RecvDrops
<1>3. CASE RecvPoll
  <2>1. ASSUME ~dropped
        PROVE  \/ recvPc' = "reading"
               \/ recvPc' = "test" /\ nRead = nArrived
    BY <1>3, <2>1 DEF RecvPoll
  <2> QED BY <1>1, <1>3, <2>1 DEF RecvPoll
<1>4. CASE RecvTest \/ RecvDone \/ RecvFails
  BY <1>1, <1>4 DEF RecvTest, RecvDone, RecvFails
<1>5. ASSUME NEW p \in ReadPacket, ForeignPacket(p)
      PROVE  /\ recvPc = "foreign"
             /\ UNCHANGED <<managerVars, recvRunning, sendVars, serverVars,
                            handled, SendPacketQueue>>
  BY <1>5 DEF ForeignPacket
<1>6. CASE ForeignEnds \/ RecvEnqueue
  BY <1>1, <1>6 DEF ForeignEnds, RecvEnqueue
<1> QED
  BY <1>1, <1>2, <1>3, <1>4, <1>5, <1>6 DEF Recv

(* The others leave the receiving thread where it is, and what has arrived *)
(* or has ended stays so.                                                  *)
LEMMA OthersLeaveRecv ==
  ASSUME SessionInv, [Next]_vars, ~Recv, ClientSession
  PROVE  /\ UNCHANGED <<recvPc, readVars>>
         /\ nArrived' \in Nat /\ nArrived <= nArrived'
         /\ closed => closed'
<1> USE DEF SessionInv, TypeInv, TypeOK
<1>1. CASE Game
  <2>1. UNCHANGED <<recvPc, readVars, serverVars>>
    BY <1>1 DEF Game, Connecting, ConnectServer, StartSendWorker, SendLogin,
                ConnectFails, Ticking, HandleRecvPackets, HandlePacket,
                HandledAll, Deinitialize, Ending, StopRecvWorker,
                StopSendWorker, WaitForRecv, WaitForSend, DestroyThread,
                DestroySocket, GameSends, recvVars
  <2> QED BY <2>1 DEF serverVars
<1>2. CASE Send
  <2>1. ASSUME NEW n \in 1..left, SendPieces(n)
        PROVE  UNCHANGED <<recvVars, serverVars>>
    BY <2>1 DEF SendPieces
  <2>2. UNCHANGED <<recvVars, serverVars>>
    BY <1>2, <2>1 DEF Send, SocketSends, SendTest, SendNothing, SendDequeue,
                      SendFails
  <2> QED BY <2>2 DEF recvVars, serverVars
<1>3. CASE Server
  <2>1. ASSUME NEW p \in ServerPacket, ServerSends(p)
        PROVE  UNCHANGED <<recvVars, nArrived, closed>>
    BY <2>1 DEF ServerSends
  <2>2. UNCHANGED recvVars /\ nArrived' \in {nArrived, nArrived + 1}
          /\ (closed => closed')
    BY <1>3, <2>1 DEF Server, PacketArrives, ServerCloses, serverVars
  <2> QED BY <2>2 DEF recvVars
<1>4. CASE UNCHANGED vars
  BY <1>4 DEF vars, recvVars, serverVars
<1> QED BY <1>1, <1>2, <1>3, <1>4 DEF Next

(* The sending thread's step, likewise: with a packet waiting it takes     *)
(* one, and leaves it only sent whole or given up.                         *)
LEMMA SendMoves ==
  ASSUME SessionInv, Send
  PROVE  /\ sendPc = "test" => sendPc' = IF sendRunning THEN "dequeue" ELSE "exited"
         /\ sendPc = "dequeue" => \/ sendPc' = "sending"
                                  \/ sendPc' = "test" /\ SendPacketQueue = <<>>
         /\ sendPc = "sending" =>
              \/ sendPc' = "sending" /\ left' < left
              \/ sendPc' = "test" /\ (broken' \/ wire' = wire \o inHand)
         /\ sendPc # "sending" => UNCHANGED <<wire, broken>>
         /\ sendPc' = "sending" => UNCHANGED <<wire, broken>>
         /\ broken => broken'
         /\ sendPc \in {"test", "dequeue", "sending"}
         /\ UNCHANGED <<managerVars, recvVars, sendRunning, outbox, handled>>
<1>1. CASE SendTest    BY <1>1 DEF SendTest, histVars, SessionInv, Joins
<1>2. CASE SendNothing BY <1>2 DEF SendNothing, histVars
<1>3. CASE SendDequeue BY <1>3 DEF SendDequeue, histVars
<1>4. CASE SendFails   BY <1>4 DEF SendFails, histVars
<1>5. ASSUME NEW n \in 1..left, SendPieces(n)
      PROVE  /\ sendPc = "sending"
             /\ \/ sendPc' = "sending" /\ left' < left /\ UNCHANGED wire
                \/ sendPc' = "test" /\ wire' = wire \o inHand
             /\ UNCHANGED <<managerVars, recvVars, sendRunning, broken, outbox, handled>>
  <2>1. left' = left - n /\ left \in Nat
    BY <1>5, SessionAssumption DEF SendPieces, SessionInv, TypeInv, TypeOK
  <2>2. left' < left
    BY <2>1
  <2>3. CASE n = left
    BY <1>5, <2>3, Zenon DEF SendPieces, histVars
  <2>4. CASE n # left
    BY <1>5, <2>2, <2>4 DEF SendPieces, histVars
  <2> QED BY <1>5, <2>3, <2>4 DEF SendPieces, histVars
<1> QED
  <2>1. CASE \E n \in 1..left : SendPieces(n)
    BY <2>1, <1>5
  <2> QED BY <1>1, <1>2, <1>3, <1>4, <2>1 DEF Send, SocketSends

(* A session is never given up and its threads are started once. *)
LEMMA SessionStays ==
  ASSUME SessionInv, [Next]_vars, ClientSession
  PROVE  /\ ClientSession'
         /\ recvRunning' => recvRunning
         /\ main # "startSend" => main' # "startSend" /\ (sendRunning' => sendRunning)
         /\ main \in Shutdown => main' \in Shutdown
<1> USE DEF Shutdown
<1>1. CASE Game
  <2>1. CASE Connecting
    <3>1. CASE ConnectServer   BY <3>1 DEF ConnectServer
    <3>2. CASE StartSendWorker BY <3>2 DEF StartSendWorker, recvVars
    <3>3. CASE SendLogin       BY <3>3 DEF SendLogin, recvVars, sendVars
    <3>4. CASE ConnectFails    BY <3>4 DEF ConnectFails, recvVars, sendVars
    <3> QED BY <2>1, <3>1, <3>2, <3>3, <3>4 DEF Connecting
  <2>2. CASE Ticking
    <3>1. CASE HandleRecvPackets
      BY <3>1 DEF HandleRecvPackets, recvVars, sendVars
    <3>2. CASE HandlePacket
      BY <3>2, Zenon DEF HandlePacket, managerVars, recvVars, sendVars
    <3>3. CASE HandledAll      BY <3>3 DEF HandledAll, recvVars, sendVars
    <3> QED BY <2>2, <3>1, <3>2, <3>3 DEF Ticking
  <2>3. CASE Deinitialize
    BY <2>3 DEF Deinitialize, recvVars, sendVars
  <2>4. CASE Ending
    <3>1. CASE StopRecvWorker  BY <3>1 DEF StopRecvWorker, sendVars
    <3>2. CASE StopSendWorker  BY <3>2 DEF StopSendWorker, recvVars
    <3>3. CASE WaitForRecv     BY <3>3 DEF WaitForRecv, recvVars, sendVars
    <3>4. CASE WaitForSend     BY <3>4 DEF WaitForSend, recvVars, sendVars
    <3>5. CASE DestroyThread   BY <3>5 DEF DestroyThread, recvVars, sendVars
    <3>6. CASE DestroySocket   BY <3>6 DEF DestroySocket, recvVars, sendVars
    <3> QED BY <2>4, <3>1, <3>2, <3>3, <3>4, <3>5, <3>6 DEF Ending
  <2>5. ASSUME NEW p \in {C_PLAY, C_LEAVE_GAME}, GameSends(p)
        PROVE  UNCHANGED <<managerVars, recvVars, sendVars>>
    BY <2>5 DEF GameSends
  <2> QED
    BY <1>1, <2>1, <2>2, <2>3, <2>4, <2>5
       DEF Game, managerVars, recvVars, sendVars
<1>2. CASE Recv
  BY <1>2, RecvMoves DEF managerVars, sendVars
<1>3. CASE Send
  BY <1>3, SendMoves DEF managerVars, recvVars
<1>4. CASE Server
  <2>1. ASSUME NEW p \in ServerPacket, ServerSends(p)
        PROVE  UNCHANGED <<managerVars, recvVars, sendVars>>
    BY <2>1 DEF ServerSends
  <2>2. UNCHANGED <<managerVars, recvVars, sendVars>>
    BY <1>4, <2>1 DEF Server, PacketArrives, ServerCloses
  <2> QED BY <2>2 DEF managerVars, recvVars, sendVars
<1>5. CASE UNCHANGED vars
  BY <1>5 DEF vars, recvVars, managerVars, sendVars
<1> QED BY <1>1, <1>2, <1>3, <1>4, <1>5 DEF Next

(* ... and the others leave the sending thread where it is. *)
LEMMA OthersLeaveSend ==
  ASSUME SessionInv, [Next]_vars, ~Send, ClientSession, main # "startSend"
  PROVE  UNCHANGED <<sendPc, wire, broken, inHand, left>>
<1>1. CASE Game
  <2>1. CASE Connecting
    BY <2>1 DEF Connecting, ConnectServer, StartSendWorker, SendLogin,
                ConnectFails, sendVars
  <2>2. CASE Ticking
    BY <2>2, Zenon DEF Ticking, HandleRecvPackets, HandlePacket, HandledAll,
                       sendVars
  <2>3. CASE Deinitialize
    BY <2>3 DEF Deinitialize, sendVars
  <2>4. CASE Ending
    BY <2>4 DEF Ending, StopRecvWorker, StopSendWorker, WaitForRecv,
                WaitForSend, DestroyThread, DestroySocket, sendVars
  <2>5. ASSUME NEW p \in {C_PLAY, C_LEAVE_GAME}, GameSends(p)
        PROVE  UNCHANGED sendVars
    BY <2>5 DEF GameSends
  <2> QED BY <1>1, <2>1, <2>2, <2>3, <2>4, <2>5 DEF Game, sendVars
<1>2. CASE Recv
  BY <1>2, RecvMoves DEF sendVars
<1>3. CASE Server
  <2>1. ASSUME NEW p \in ServerPacket, ServerSends(p)
        PROVE  UNCHANGED sendVars
    BY <2>1 DEF ServerSends
  <2>2. UNCHANGED sendVars
    BY <1>3, <2>1 DEF Server, PacketArrives, ServerCloses
  <2> QED BY <2>2 DEF sendVars
<1>4. CASE UNCHANGED vars
  BY <1>4 DEF vars, sendVars
<1> QED BY <1>1, <1>2, <1>3, <1>4 DEF Next

(* The game thread's own step through Deinitialize; nobody else moves it.  *)
LEMMA MainMoves ==
  ASSUME SessionInv, [Next]_vars, ClientSession, main \in Shutdown
  PROVE  /\ StartSendWorker \/ SendLogin \/ Ending =>
              \/ main = "stopRecv" /\ main' = "stopSend"
              \/ main = "stopSend" /\ main' = "waitRecv"
              \/ main = "waitRecv" /\ main' = "waitSend"
              \/ main = "waitSend" /\ main' = "destroyThread"
              \/ main = "destroyThread" /\ main' = "destroySocket"
              \/ main = "destroySocket" /\ main' = "done"
         /\ ~(StartSendWorker \/ SendLogin \/ Ending) => main' = main
<1> USE DEF Shutdown
<1>1. CASE StartSendWorker \/ SendLogin
  BY <1>1 DEF StartSendWorker, SendLogin
<1>2. CASE Ending
  BY <1>2 DEF Ending, StopRecvWorker, StopSendWorker, WaitForRecv,
              WaitForSend, DestroyThread, DestroySocket
<1>3. ASSUME ~(StartSendWorker \/ SendLogin \/ Ending) PROVE main' = main
  <2>1. CASE Game
    <3>1. CASE ConnectServer \/ ConnectFails
      BY <3>1 DEF ConnectServer, ConnectFails
    <3>2. CASE Ticking
      BY <3>2 DEF Ticking, HandleRecvPackets, HandlePacket, HandledAll,
                  managerVars
    <3>3. CASE Deinitialize
      BY <3>3 DEF Deinitialize
    <3>4. ASSUME NEW p \in {C_PLAY, C_LEAVE_GAME}, GameSends(p)
          PROVE  UNCHANGED managerVars
      BY <3>4 DEF GameSends
    <3> QED
      BY <1>3, <2>1, <3>1, <3>2, <3>3, <3>4 DEF Game, Connecting, managerVars
  <2>2. CASE Recv
    BY <2>2, RecvMoves DEF managerVars
  <2>3. CASE Send
    BY <2>3, SendMoves DEF managerVars
  <2>4. CASE Server
    <3>1. ASSUME NEW p \in ServerPacket, ServerSends(p)
          PROVE  UNCHANGED managerVars
      BY <3>1 DEF ServerSends
    <3> QED
      BY <2>4, <3>1 DEF Server, PacketArrives, ServerCloses, managerVars
  <2>5. CASE UNCHANGED vars
    BY <2>5 DEF vars, managerVars
  <2> QED BY <2>1, <2>2, <2>3, <2>4, <2>5 DEF Next
<1> QED BY <1>1, <1>2, <1>3

-----------------------------------------------------------------------------
(* What WF gives only for enabled actions.  Each guard below is that of    *)
(* one of the actions it names.                                            *)

RecvReady ==
  \/ recvPc \in {"test", "poll", "enqueue"}
  \/ recvPc = "reading" /\ (nRead < nArrived \/ closed)

MainReady ==
  \/ main \in {"startSend", "login", "stopRecv", "stopSend", "destroyThread",
               "destroySocket"}
  \/ main = "waitRecv" /\ recvPc = "exited"
  \/ main = "waitSend" /\ sendPc = "exited"

TickReady == ClientSession /\ main \in {"idle", "drain"}

OnTheWay == ~closed /\ nArrived < Len(fromServer)

Sending == sendPc = "sending"

SessionCanStep ==
  /\ ~dropped /\ RecvReady => ENABLED <<~dropped /\ Recv>>_vars
  /\ ~dropped /\ SendAlive /\ ~Sending =>
       ENABLED <<~dropped /\ (SendTest \/ SendNothing \/ SendDequeue)>>_vars
  /\ ~dropped /\ Sending => ENABLED <<~dropped /\ SocketSends>>_vars
  /\ ~dropped /\ MainReady =>
       ENABLED <<~dropped /\ (StartSendWorker \/ SendLogin \/ Ending)>>_vars
  /\ ~dropped /\ TickReady => ENABLED <<~dropped /\ Ticking>>_vars
  /\ OnTheWay => ENABLED <<PacketArrives>>_vars

(* The receiving thread at place p, told to stop. *)
RecvStops(p) == ClientSession /\ ~recvRunning /\ recvPc = p
ReadStops    == RecvStops("reading") /\ RecvReady
WaitStops    == RecvStops("reading") /\ ~RecvReady
RecvStopped  == ClientSession /\ ~recvRunning

(* A thread told to stop goes on with the packet it is reading, at most,   *)
(* unless it drops a header.                                               *)
LEMMA StoppingRecv ==
  ASSUME SessionInv, [Next]_vars, ~dropped, ~dropped'
  PROVE  /\ RecvStops("test") =>
              \/ ~Recv /\ RecvStops("test")'
              \/ RecvStops("exited")'
         /\ RecvStops("enqueue") =>
              \/ ~Recv /\ RecvStops("enqueue")'
              \/ RecvStops("test")'
         /\ ReadStops =>
              \/ ~Recv /\ ReadStops'
              \/ RecvStops("enqueue")' \/ RecvStops("test")'
         /\ WaitStops => WaitStops' \/ ReadStops'
         /\ WaitStops /\ PacketArrives => ReadStops'
         /\ RecvStops("poll") =>
              \/ ~Recv /\ RecvStops("poll")'
              \/ ReadStops' \/ WaitStops' \/ RecvStops("test")'
         /\ RecvStops("exited") => ~Recv /\ RecvStops("exited")'
<1> SUFFICES ASSUME RecvStopped
             PROVE  /\ RecvStops("test") =>
                         \/ ~Recv /\ RecvStops("test")'
                         \/ RecvStops("exited")'
                    /\ RecvStops("enqueue") =>
                         \/ ~Recv /\ RecvStops("enqueue")'
                         \/ RecvStops("test")'
                    /\ ReadStops =>
                         \/ ~Recv /\ ReadStops'
                         \/ RecvStops("enqueue")' \/ RecvStops("test")'
                    /\ WaitStops => WaitStops' \/ ReadStops'
                    /\ WaitStops /\ PacketArrives => ReadStops'
                    /\ RecvStops("poll") =>
                         \/ ~Recv /\ RecvStops("poll")'
                         \/ ReadStops' \/ WaitStops' \/ RecvStops("test")'
                    /\ RecvStops("exited") => ~Recv /\ RecvStops("exited")'
  BY DEF RecvStopped, RecvStops, ReadStops, WaitStops
<1>1. RecvStopped'
  BY SessionStays DEF RecvStopped
<1>2. /\ nRead \in Nat /\ nArrived \in Nat /\ nRead <= nArrived
      /\ closed \in BOOLEAN /\ closed' \in BOOLEAN
  BY TypeStep DEF SessionInv, TypeInv, TypeOK
<1> USE DEF RecvStopped, RecvStops, ReadStops, WaitStops, RecvReady
<1>3. CASE Recv
  <2>1. ~PacketArrives
    BY <1>2, <1>3, RecvMoves DEF PacketArrives, serverVars
  <2> QED BY <1>1, <1>2, <1>3, <2>1, RecvMoves DEF serverVars
<1>4. CASE ~Recv
  <2>1. PacketArrives => nRead < nArrived'
    BY <1>2 DEF PacketArrives
  <2> QED BY <1>1, <1>2, <1>4, <2>1, OthersLeaveRecv
<1> QED BY <1>3, <1>4

(* The receiving thread told to stop leaves Run, once the packet it is     *)
(* reading has arrived or the connection has ended, unless it is out of    *)
(* step with the stream.                                                   *)
THEOREM RecvThreadEnds ==
  LiveSpec /\ []SessionCanStep
    => (RecvStopped ~> recvPc = "exited" \/ dropped)
<1>1. SessionInv /\ WaitStops => OnTheWay
  BY DEF SessionInv, TypeInv, TypeOK, Joins, WaitStops, RecvStops, RecvReady,
         OnTheWay
<1>2. RecvStops("test") \/ RecvStops("enqueue") \/ RecvStops("poll") => RecvReady
  BY DEF RecvStops, RecvReady
<1>3. ReadStops => RecvReady
  BY DEF ReadStops
<1>4. SessionInv /\ ~dropped /\ RecvStopped =>
        \/ RecvStops("test") \/ RecvStops("enqueue") \/ ReadStops
        \/ WaitStops \/ RecvStops("poll") \/ RecvStops("exited")
  BY DEF SessionInv, TypeInv, TypeOK, Joins, RecvStopped, RecvStops,
         ReadStops, WaitStops
<1>5. RecvStops("exited") => recvPc = "exited"
  BY DEF RecvStops
<1> QED
  BY <1>1, <1>2, <1>3, <1>4, <1>5, StoppingRecv, SessionInit, SessionStep, PTL
     DEF LiveSpec, Spec, SessionCanStep

-----------------------------------------------------------------------------
(* The sending thread's loop of Socket->Send calls *)

(* SendDesiredBytes does not send for ever (NetworkWorker.cpp:148-158). *)
SendLoopEnds == Sending ~> ~Sending \/ dropped

(* While a packet is being sent, each step of the sending thread leaves    *)
(* less of it to send, or is done with it; no step of another thread makes *)
(* it more.  A packet falls into finitely many pieces, so SendLoopEnds.    *)
THEOREM SendLoopRunsDown ==
  Spec => [][Sending /\ Sending' =>
               IF Send THEN left' < left ELSE left' = left]_vars
<1>1. SessionInv /\ [Next]_vars =>
        [Sending /\ Sending' =>
           IF Send THEN left' < left ELSE left' = left]_vars
  <2> SUFFICES ASSUME SessionInv, [Next]_vars, Sending, Sending'
               PROVE  IF Send THEN left' < left ELSE left' = left
    OBVIOUS
  <2>1. ClientSession /\ main # "startSend"
    BY DEF SessionInv, Joins, Sending
  <2>2. CASE Send
    BY <2>2, SendMoves DEF Sending
  <2>3. CASE ~Send
    BY <2>1, <2>3, OthersLeaveSend
  <2> QED BY <2>2, <2>3
<1> QED BY <1>1, SessionInit, SessionStep, PTL DEF Spec

SendingAt(n)  == Sending /\ left = n
SentBeyond(n) == ~Sending \/ left < n

(* One turn of that loop is always taken, as long as Socket->Send returns: *)
(* with n pieces left, for every n, there are fewer later on, or the       *)
(* packet is done with.                                                    *)
THEOREM SendLoopGetsOn ==
  ASSUME NEW n \in Nat
  PROVE  LiveSpec /\ []SessionCanStep
           => (SendingAt(n) ~> SentBeyond(n) \/ dropped)
<1>1. SessionInv /\ [Next]_vars /\ SendingAt(n)
        => (~Send /\ SendingAt(n)') \/ SentBeyond(n)'
  <2> SUFFICES ASSUME SessionInv, [Next]_vars, Sending, left = n
               PROVE  (~Send /\ SendingAt(n)') \/ SentBeyond(n)'
    BY DEF SendingAt
  <2>1. ClientSession /\ main # "startSend"
    BY DEF SessionInv, Joins, Sending
  <2>2. CASE Send
    BY <2>2, SendMoves DEF Sending, SentBeyond
  <2>3. CASE ~Send
    BY <2>1, <2>3, OthersLeaveSend DEF Sending, SendingAt
  <2> QED BY <2>2, <2>3
<1>2. SendingAt(n) => Sending
  BY DEF SendingAt
<1>3. SocketSends => Send
  BY DEF Send
<1> QED
  BY <1>1, <1>2, <1>3, SessionInit, SessionStep, PTL
     DEF LiveSpec, Spec, SessionCanStep

(* The sending thread at place p, told to stop. *)
SendStopped  == ClientSession /\ main # "startSend" /\ ~sendRunning
SendStops(p) == SendStopped /\ sendPc = p

LEMMA StoppingSend ==
  ASSUME SessionInv, [Next]_vars
  PROVE  /\ SendStops("test") =>
              (~Send /\ SendStops("test")') \/ SendStops("exited")'
         /\ SendStops("dequeue") =>
              \/ ~Send /\ SendStops("dequeue")'
              \/ SendStops("sending")' \/ SendStops("test")'
         /\ SendStops("sending") => SendStops("sending")' \/ SendStops("test")'
         /\ SendStops("exited") => ~Send /\ SendStops("exited")'
<1> SUFFICES ASSUME SendStopped
             PROVE  /\ SendStops("test") =>
                         (~Send /\ SendStops("test")') \/ SendStops("exited")'
                    /\ SendStops("dequeue") =>
                         \/ ~Send /\ SendStops("dequeue")'
                         \/ SendStops("sending")' \/ SendStops("test")'
                    /\ SendStops("sending") =>
                         SendStops("sending")' \/ SendStops("test")'
                    /\ SendStops("exited") => ~Send /\ SendStops("exited")'
  BY DEF SendStops
<1>1. SendStopped'
  BY SessionStays DEF SendStopped
<1> USE DEF SendStopped, SendStops
<1>2. CASE Send
  BY <1>1, <1>2, SendMoves
<1>3. CASE ~Send
  BY <1>1, <1>3, OthersLeaveSend
<1> QED BY <1>2, <1>3

(* The sending thread told to stop leaves Run with the packet it holds,    *)
(* if the loop that sends a packet ends, unless a dropped header may have  *)
(* crashed the game.                                                       *)
THEOREM SendThreadEnds ==
  LiveSpec /\ []SessionCanStep /\ SendLoopEnds
    => (SendStopped ~> sendPc = "exited" \/ dropped)
<1>1. SendStops("test") \/ SendStops("dequeue") => SendAlive /\ ~Sending
  BY DEF SendStops, SendAlive, Sending
<1>2. SendStops("sending") => Sending
  BY DEF SendStops, Sending
<1>3. SendStops("test") \/ SendStops("exited") \/ SendStops("dequeue") => ~Sending
  BY DEF SendStops, Sending
<1>4. SessionInv /\ SendStopped =>
        \/ SendStops("test") \/ SendStops("dequeue")
        \/ SendStops("sending") \/ SendStops("exited")
  BY DEF SessionInv, TypeInv, TypeOK, Joins, SendStopped, SendStops
<1>5. SendStops("exited") => sendPc = "exited"
  BY DEF SendStops
<1>6. SendTest \/ SendNothing \/ SendDequeue => Send
  BY DEF Send
<1> QED
  BY <1>1, <1>2, <1>3, <1>4, <1>5, <1>6, StoppingSend, SessionInit, SessionStep, PTL
     DEF LiveSpec, Spec, SessionCanStep, SendLoopEnds

-----------------------------------------------------------------------------
(* Deinitialize *)

(* The game thread at place p of Deinitialize. *)
EndsAt(p)  == ClientSession /\ main = p
RecvEnded  == recvPc = "exited"
SendEnded  == sendPc = "exited"

(* The game thread goes from one step of Deinitialize to the next, and a   *)
(* thread that has left Run does not come back.                            *)
LEMMA EndingMoves ==
  ASSUME SessionInv, [Next]_vars
  PROVE  /\ EndsAt("stopRecv") =>
              \/ ~(StartSendWorker \/ SendLogin \/ Ending) /\ EndsAt("stopRecv")'
              \/ EndsAt("stopSend")'
         /\ EndsAt("stopSend") =>
              \/ ~(StartSendWorker \/ SendLogin \/ Ending) /\ EndsAt("stopSend")'
              \/ EndsAt("waitRecv")'
         /\ EndsAt("waitRecv") =>
              \/ ~(StartSendWorker \/ SendLogin \/ Ending) /\ EndsAt("waitRecv")'
              \/ EndsAt("waitSend")'
         /\ EndsAt("waitSend") =>
              \/ ~(StartSendWorker \/ SendLogin \/ Ending) /\ EndsAt("waitSend")'
              \/ EndsAt("destroyThread")'
         /\ EndsAt("destroyThread") =>
              \/ /\ ~(StartSendWorker \/ SendLogin \/ Ending)
                 /\ EndsAt("destroyThread")'
              \/ EndsAt("destroySocket")'
         /\ EndsAt("destroySocket") =>
              \/ /\ ~(StartSendWorker \/ SendLogin \/ Ending)
                 /\ EndsAt("destroySocket")'
              \/ EndsAt("done")'
         /\ EndsAt("waitRecv") => RecvStopped
         /\ EndsAt("waitSend") => SendStopped
         /\ RecvEnded => RecvEnded'
         /\ SendEnded => SendEnded'
<1>1. ClientSession /\ main \in Shutdown => ClientSession'
  BY SessionStays
<1>2. RecvEnded => RecvEnded'
  <2> SUFFICES ASSUME RecvEnded PROVE RecvEnded'
    OBVIOUS
  <2>1. ClientSession
    BY DEF SessionInv, Joins, RecvEnded
  <2>2. ~Recv
    BY RecvMoves DEF RecvEnded
  <2> QED BY <2>1, <2>2, OthersLeaveRecv DEF RecvEnded
<1>3. SendEnded => SendEnded'
  <2> SUFFICES ASSUME SendEnded PROVE SendEnded'
    OBVIOUS
  <2>1. ClientSession /\ main # "startSend"
    BY DEF SessionInv, Joins, SendEnded
  <2>2. ~Send
    BY SendMoves DEF SendEnded
  <2> QED BY <2>1, <2>2, OthersLeaveSend DEF SendEnded
<1>4. /\ EndsAt("waitRecv") => RecvStopped
      /\ EndsAt("waitSend") => SendStopped
  BY DEF EndsAt, RecvStopped, SendStopped, SessionInv, Joins, InGame
<1> QED BY <1>1, <1>2, <1>3, <1>4, MainMoves DEF EndsAt, Shutdown

(* Deinitialize does not hang in WaitForThread: under the fairness LiveSpec*)
(* asks for, it goes from its first step to its last, unless RecvPacket    *)
(* drops a header: out of step the thread may block for ever in Recv, and  *)
(* Deinitialize with it.                                                   *)
THEOREM DeinitializeAlwaysEnds ==
  LiveSpec /\ []SessionCanStep /\ SendLoopEnds => DeinitializeEnds
<1>1. /\ EndsAt("stopRecv") \/ EndsAt("stopSend") => MainReady
      /\ EndsAt("destroyThread") \/ EndsAt("destroySocket") => MainReady
      /\ EndsAt("waitRecv") /\ RecvEnded => MainReady
      /\ EndsAt("waitSend") /\ SendEnded => MainReady
  BY DEF EndsAt, MainReady, RecvEnded, SendEnded
<1>2. LiveSpec /\ []SessionCanStep => (RecvStopped ~> RecvEnded \/ dropped)
  BY RecvThreadEnds DEF RecvEnded
<1>3. LiveSpec /\ []SessionCanStep /\ SendLoopEnds
        => (SendStopped ~> SendEnded \/ dropped)
  BY SendThreadEnds DEF SendEnded
<1>4. LiveSpec => []SessionInv
  BY SessionInit, SessionStep, PTL DEF LiveSpec, Spec
<1>5. LiveSpec /\ []SessionCanStep /\ SendLoopEnds
        => (EndsAt("stopRecv") ~> EndsAt("waitRecv") \/ dropped)
  BY <1>1, <1>4, EndingMoves, PTL DEF LiveSpec, Spec, SessionCanStep
<1>6. LiveSpec /\ []SessionCanStep /\ SendLoopEnds
        => (EndsAt("waitRecv") ~> EndsAt("waitSend") \/ dropped)
  BY <1>1, <1>2, <1>4, EndingMoves, PTL DEF LiveSpec, Spec, SessionCanStep
<1>7. LiveSpec /\ []SessionCanStep /\ SendLoopEnds
        => (EndsAt("waitSend") ~> EndsAt("destroyThread") \/ dropped)
  BY <1>1, <1>3, <1>4, EndingMoves, PTL DEF LiveSpec, Spec, SessionCanStep
<1>8. LiveSpec /\ []SessionCanStep /\ SendLoopEnds
        => (EndsAt("destroyThread") ~> EndsAt("done") \/ dropped)
  BY <1>1, <1>4, EndingMoves, PTL DEF LiveSpec, Spec, SessionCanStep
<1>9. SessionInv /\ main = "stopRecv" => EndsAt("stopRecv")
  BY DEF SessionInv, Joins, EndsAt
<1>10. EndsAt("done") => main = "done"
  BY DEF EndsAt
<1> QED
  BY <1>4, <1>5, <1>6, <1>7, <1>8, <1>9, <1>10, PTL DEF DeinitializeEnds

-----------------------------------------------------------------------------
(* The way in: a packet that has arrived is handled *)

(* In a game going on, one step of the tick takes the game thread nearer   *)
(* to the next packet, and nobody else takes it away.                      *)
LEMMA TickMoves ==
  ASSUME SessionInv, [Next]_vars, ClientSession, RecvPacketQueue # <<>>,
         main \in InGame, main' \in InGame
  PROVE  \/ main = "drain" /\ Ticking /\ Len(handled') = Len(handled) + 1
         \/ /\ handled' = handled /\ RecvPacketQueue' # <<>>
            /\ main = "startSend" =>
                 IF StartSendWorker \/ SendLogin \/ Ending
                   THEN main' = "login" ELSE main' = "startSend"
            /\ main = "login" =>
                 IF StartSendWorker \/ SendLogin \/ Ending
                   THEN main' = "idle" ELSE main' = "login"
            /\ main = "idle" =>
                 IF Ticking THEN main' = "drain" ELSE main' = "idle"
            /\ main = "drain" => ~Ticking /\ main' = "drain"
<1> DEFINE Untouched == UNCHANGED <<main, handled, RecvPacketQueue>>
<1> USE DEF InGame
<1>1. CASE StartSendWorker \/ SendLogin \/ Ending
  <2>1. ~Ending
    BY DEF Ending, StopRecvWorker, StopSendWorker, WaitForRecv, WaitForSend,
           DestroyThread, DestroySocket
  <2>2. CASE StartSendWorker
    BY <2>2 DEF StartSendWorker, queueVars, histVars
  <2>3. CASE SendLogin
    BY <2>3 DEF SendLogin
  <2> QED BY <1>1, <2>1, <2>2, <2>3
<1>2. CASE Ticking
  <2>1. CASE HandleRecvPackets
    BY <1>2, <2>1 DEF HandleRecvPackets, queueVars, histVars
  <2>2. CASE HandlePacket
    <3>1. handled' = Append(handled, Head(RecvPacketQueue)) /\ main = "drain"
      BY <2>2 DEF HandlePacket
    <3>2. handled \in Seq(ReadPacket) /\ RecvPacketQueue \in Seq(ReadPacket)
      BY DEF SessionInv, TypeInv, TypeOK
    <3> QED
      BY <1>2, <3>1, <3>2, HeadTailProperties, AppendProperties
  <2>3. CASE HandledAll
    BY <2>3 DEF HandledAll
  <2> QED BY <1>2, <2>1, <2>2, <2>3 DEF Ticking
<1>3. ASSUME ~Ticking, ~(StartSendWorker \/ SendLogin \/ Ending)
      PROVE  UNCHANGED <<main, handled>> /\ RecvPacketQueue' # <<>>
  <2>1. CASE ConnectServer \/ ConnectFails
    BY <2>1 DEF ConnectServer, ConnectFails, queueVars, histVars
  <2>2. CASE Deinitialize
    BY <2>2 DEF Deinitialize
  <2>3. ASSUME NEW p \in {C_PLAY, C_LEAVE_GAME}, GameSends(p)
        PROVE  Untouched
    BY <2>3 DEF GameSends, managerVars
  <2>4. CASE Recv
    <3>1. RecvPacketQueue \in Seq(ReadPacket)
      BY DEF SessionInv, TypeInv, TypeOK
    <3>2. CASE RecvEnqueue
      <4>1. Returned[Len(Returned)] \in ReadPacket
        BY <3>2, ReturnedLast DEF RecvEnqueue, SessionInv
      <4>2. Append(RecvPacketQueue, Returned[Len(Returned)]) # <<>>
        BY <3>1, <4>1, AppendProperties, EmptySeq
      <4> QED BY <3>2, <4>2 DEF RecvEnqueue
    <3>3. CASE ~RecvEnqueue
      BY <2>4, <3>3 DEF Recv, RecvTest, RecvPoll, RecvDone, RecvFails,
                        RecvDrops, ForeignPacket, ForeignEnds
    <3> QED BY <3>2, <3>3
  <2>5. CASE Send
    <3>1. ASSUME NEW n \in 1..left, SendPieces(n) PROVE Untouched
      BY <3>1 DEF SendPieces, managerVars, queueVars, histVars
    <3> QED
      BY <2>5, <3>1 DEF Send, SocketSends, SendTest, SendNothing,
                        SendDequeue, SendFails
  <2>6. CASE Server
    <3>1. ASSUME NEW p \in ServerPacket, ServerSends(p) PROVE Untouched
      BY <3>1 DEF ServerSends, managerVars, queueVars, histVars
    <3> QED
      BY <2>6, <3>1 DEF Server, PacketArrives, ServerCloses, managerVars,
                        queueVars, histVars
  <2>7. CASE UNCHANGED vars
    BY <2>7 DEF vars, managerVars, queueVars, histVars
  <2> QED
    BY <1>3, <2>1, <2>2, <2>3, <2>4, <2>5, <2>6, <2>7
       DEF Next, Game, Connecting
<1> QED BY <1>1, <1>2, <1>3

(* The packet number m + 1 has arrived and has not been handled yet; while *)
(* no packet is queued the receiving thread has yet to read it.            *)
Unhandled(m) ==
  ClientSession /\ main \in InGame /\ nArrived > m /\ Len(handled) = m
HandledOrEnds(m) == Len(handled) > m \/ main \in Shutdown \/ dropped
ReadAt(m, p)     == Unhandled(m) /\ RecvPacketQueue = <<>> /\ recvPc = p
Queued(m)        == Unhandled(m) /\ RecvPacketQueue # <<>>
QueuedAt(m, p)   == Queued(m) /\ main = p

(* The receiving thread brings the packet into the queue. *)
LEMMA ReadMoves ==
  ASSUME NEW m \in Nat, SessionInv, [Next]_vars
  PROVE  /\ ReadAt(m, "test") =>
              \/ ~Recv /\ ReadAt(m, "test")'
              \/ ReadAt(m, "poll")' \/ HandledOrEnds(m)'
         /\ ReadAt(m, "poll") =>
              \/ ~Recv /\ ReadAt(m, "poll")'
              \/ ReadAt(m, "reading")' \/ HandledOrEnds(m)'
         /\ ReadAt(m, "reading") =>
              \/ ~Recv /\ ReadAt(m, "reading")'
              \/ ReadAt(m, "enqueue")' \/ HandledOrEnds(m)'
         /\ ReadAt(m, "enqueue") =>
              \/ ~Recv /\ ReadAt(m, "enqueue")'
              \/ Queued(m)' \/ HandledOrEnds(m)'
<1> SUFFICES ASSUME Unhandled(m), RecvPacketQueue = <<>>, main' \in InGame,
                    ~dropped'
             PROVE  /\ ~Recv => /\ Unhandled(m)' /\ RecvPacketQueue' = <<>>
                                /\ recvPc' = recvPc
                    /\ Recv => /\ Unhandled(m)'
                               /\ recvPc = "enqueue" => RecvPacketQueue' # <<>>
                               /\ recvPc # "enqueue" => RecvPacketQueue' = <<>>
                               /\ recvPc = "test" => recvPc' = "poll"
                               /\ recvPc = "poll" => recvPc' = "reading"
                               /\ recvPc = "reading" => recvPc' = "enqueue"
  <2>1. main' \in InGame \cup Shutdown
    BY TypeStep DEF SessionInv, TypeInv, TypeOK, InGame
  <2> QED
    BY <2>1 DEF ReadAt, Queued, HandledOrEnds
<1>0. ~dropped
  <2>1. Recv => ~dropped
    BY RecvMoves
  <2>2. ~Recv => ~dropped
    BY OthersLeaveRecv DEF Unhandled
  <2> QED BY <2>1, <2>2
<1>1. /\ nRead \in Nat /\ nArrived \in Nat /\ nRead <= nArrived
      /\ recvPc # "enqueue" => nRead = m
      /\ nArrived > m /\ Len(handled) = m /\ recvRunning
      /\ RecvPacketQueue \in Seq(ReadPacket)
  <2>1. foreign = <<>> /\ Len(foreign) = 0 /\ Len(RecvPacketQueue) = 0
    BY <1>0, EmptySeq DEF SessionInv, TypeInv
  <2> QED
    BY <2>1, ReadCount DEF Unhandled, SessionInv, TypeInv, TypeOK, Joins
<1>2. ClientSession'
  BY SessionStays DEF Unhandled
<1>3. CASE Recv
  <2>1. Unhandled(m)'
    BY <1>1, <1>2, <1>3, RecvMoves DEF Unhandled, serverVars
  <2>2. recvPc = "enqueue" => RecvPacketQueue' # <<>>
    <3> SUFFICES ASSUME recvPc = "enqueue" PROVE RecvPacketQueue' # <<>>
      OBVIOUS
    <3>1. RecvPacketQueue' = Append(RecvPacketQueue, Returned[Len(Returned)])
      BY <1>3 DEF Recv, RecvTest, RecvPoll, RecvDone, RecvFails, RecvDrops,
                  ForeignPacket, ForeignEnds, RecvEnqueue
    <3>2. Returned[Len(Returned)] \in ReadPacket
      BY ReturnedLast DEF SessionInv
    <3> QED BY <1>1, <3>1, <3>2, AppendProperties, EmptySeq
  <2>3. recvPc # "enqueue" => RecvPacketQueue' = <<>>
    BY <1>3 DEF Recv, RecvTest, RecvPoll, RecvDone, RecvFails, RecvDrops,
                ForeignPacket, ForeignEnds, RecvEnqueue
  <2> QED BY <1>0, <1>1, <1>3, <2>1, <2>2, <2>3, RecvMoves
<1>4. CASE ~Recv
  <2>1. RecvPacketQueue' = <<>> /\ handled' = handled
    <3>1. ~HandlePacket
      BY DEF HandlePacket
    <3>2. ~RecvReturns /\ ~RecvEnqueue
      BY <1>4 DEF Recv, RecvReturns
    <3>3. ASSUME NEW p \in ServerPacket, ServerSends(p)
          PROVE  UNCHANGED <<RecvPacketQueue, handled>>
      BY <3>3 DEF ServerSends, queueVars, histVars
    <3> QED BY <3>1, <3>2, <3>3, ReceivedOthers DEF SessionInv
  <2>2. recvPc' = recvPc /\ nArrived' \in Nat /\ nArrived <= nArrived'
    BY <1>4, OthersLeaveRecv DEF Unhandled
  <2>3. Unhandled(m)'
    BY <1>1, <1>2, <2>1, <2>2 DEF Unhandled
  <2> QED BY <1>4, <2>1, <2>2, <2>3
<1> QED BY <1>3, <1>4

(* The level's tick brings it to ServerPacketHandler. *)
LEMMA TickBrings ==
  ASSUME NEW m \in Nat, SessionInv, [Next]_vars
  PROVE  /\ QueuedAt(m, "startSend") =>
              \/ /\ ~(StartSendWorker \/ SendLogin \/ Ending)
                 /\ QueuedAt(m, "startSend")'
              \/ QueuedAt(m, "login")' \/ HandledOrEnds(m)'
         /\ QueuedAt(m, "login") =>
              \/ /\ ~(StartSendWorker \/ SendLogin \/ Ending)
                 /\ QueuedAt(m, "login")'
              \/ QueuedAt(m, "idle")' \/ HandledOrEnds(m)'
         /\ QueuedAt(m, "idle") =>
              \/ ~Ticking /\ QueuedAt(m, "idle")'
              \/ QueuedAt(m, "drain")' \/ HandledOrEnds(m)'
         /\ QueuedAt(m, "drain") =>
              (~Ticking /\ QueuedAt(m, "drain")') \/ HandledOrEnds(m)'
<1> SUFFICES ASSUME Queued(m), main' \in InGame
             PROVE  /\ main = "startSend" =>
                         \/ /\ ~(StartSendWorker \/ SendLogin \/ Ending)
                            /\ Queued(m)' /\ main' = "startSend"
                         \/ Queued(m)' /\ main' = "login"
                    /\ main = "login" =>
                         \/ /\ ~(StartSendWorker \/ SendLogin \/ Ending)
                            /\ Queued(m)' /\ main' = "login"
                         \/ Queued(m)' /\ main' = "idle"
                    /\ main = "idle" =>
                         \/ ~Ticking /\ Queued(m)' /\ main' = "idle"
                         \/ Queued(m)' /\ main' = "drain"
                    /\ main = "drain" =>
                         \/ ~Ticking /\ Queued(m)' /\ main' = "drain"
                         \/ HandledOrEnds(m)'
  <2>1. main' \in InGame \cup Shutdown
    BY TypeStep DEF SessionInv, TypeInv, TypeOK, InGame
  <2> QED
    BY <2>1 DEF QueuedAt, HandledOrEnds
<1>1. ClientSession' /\ nArrived' > m
  <2>1. nArrived \in Nat /\ nArrived > m /\ ClientSession
    BY DEF Queued, Unhandled, SessionInv, TypeInv, TypeOK
  <2>2. nArrived' \in Nat /\ nArrived <= nArrived'
    <3>1. CASE Recv
      BY <2>1, <3>1, RecvMoves DEF serverVars
    <3>2. CASE ~Recv
      BY <2>1, <3>2, OthersLeaveRecv
    <3> QED BY <3>1, <3>2
  <2> QED BY <2>1, <2>2, SessionStays
<1>2. handled' = handled /\ RecvPacketQueue' # <<>> => Queued(m)'
  BY <1>1 DEF Queued, Unhandled
<1>3. Len(handled') = Len(handled) + 1 => HandledOrEnds(m)'
  BY DEF Queued, Unhandled, HandledOrEnds
<1> QED BY <1>2, <1>3, TickMoves, Zenon DEF Queued, Unhandled

(* The next packet to be handled, once it has arrived, is handled by a     *)
(* later tick unless the game ends first or RecvPacket drops a header: for *)
(* every m, whatever gameplay and the server do meanwhile                  *)
(* (EveryArrivalHandled, one packet at a time).                            *)
THEOREM NextArrivalHandled ==
  ASSUME NEW m \in Nat
  PROVE  LiveSpec /\ []SessionCanStep
           => (nArrived > m /\ Len(handled) = m ~> HandledOrEnds(m))
<1>1. SessionInv /\ nArrived > m /\ Len(handled) = m
        => Unhandled(m) \/ HandledOrEnds(m)
  BY DEF SessionInv, TypeInv, TypeOK, Joins, Unhandled, HandledOrEnds, InGame
<1>2. SessionInv /\ ~dropped /\ Unhandled(m)
        => \/ ReadAt(m, "test") \/ ReadAt(m, "poll") \/ ReadAt(m, "reading")
           \/ ReadAt(m, "enqueue") \/ Queued(m)
  BY DEF SessionInv, TypeInv, TypeOK, Joins, Unhandled, Queued, ReadAt, InGame
<1>3. Queued(m) => \/ QueuedAt(m, "startSend") \/ QueuedAt(m, "login")
                   \/ QueuedAt(m, "idle") \/ QueuedAt(m, "drain")
  BY DEF Queued, QueuedAt, Unhandled, InGame
<1>4. ReadAt(m, "test") \/ ReadAt(m, "poll") \/ ReadAt(m, "enqueue")
        => RecvReady
  BY DEF ReadAt, RecvReady
<1>5. SessionInv /\ ReadAt(m, "reading") => RecvReady
  <2> SUFFICES ASSUME SessionInv, ReadAt(m, "reading") PROVE nRead < nArrived
    BY DEF ReadAt, RecvReady
  <2>1. foreign = <<>> /\ Len(foreign) = 0 /\ Len(RecvPacketQueue) = 0
    BY EmptySeq DEF SessionInv, TypeInv, ReadAt
  <2> QED
    BY <2>1, ReadCount DEF ReadAt, Unhandled, SessionInv, TypeInv, TypeOK
<1>11. dropped => HandledOrEnds(m)
  BY DEF HandledOrEnds
<1>6. QueuedAt(m, "startSend") \/ QueuedAt(m, "login") => MainReady
  BY DEF QueuedAt, MainReady
<1>7. QueuedAt(m, "idle") \/ QueuedAt(m, "drain") => TickReady
  BY DEF QueuedAt, Queued, Unhandled, TickReady
<1>8. LiveSpec => []SessionInv
  BY SessionInit, SessionStep, PTL DEF LiveSpec, Spec
<1>9. LiveSpec /\ []SessionCanStep => (Queued(m) ~> HandledOrEnds(m))
  BY <1>3, <1>6, <1>7, <1>8, <1>11, TickBrings, PTL
     DEF LiveSpec, Spec, SessionCanStep
<1>10. LiveSpec /\ []SessionCanStep
         => (Unhandled(m) ~> Queued(m) \/ HandledOrEnds(m))
  BY <1>2, <1>4, <1>5, <1>8, <1>11, ReadMoves, PTL
     DEF LiveSpec, Spec, SessionCanStep
<1> QED BY <1>1, <1>8, <1>9, <1>10, PTL

-----------------------------------------------------------------------------
(* The way out: a packet queued is sent *)

(* The packet number m + 1 was given to SendPacket and is not on the       *)
(* connection yet; the sending thread is at p.                             *)
Unsent(m) == main \in InGame /\ ~broken /\ Len(outbox) > m /\ Len(wire) = m
SentOrEnds(m) ==
  Len(wire) > m \/ broken \/ main \in Shutdown \/ dropped
UnsentAt(m, p) == Unsent(m) /\ sendPc = p

(* Counting the packets queued: those sent, the one in hand, the rest.     *)
LEMMA SentCount ==
  ASSUME SessionInv, ~broken
  PROVE  /\ Len(outbox) = Len(wire) + (IF Sending THEN 1 ELSE 0)
                            + Len(SendPacketQueue)
         /\ Sending => Len(wire \o inHand) = Len(wire) + 1
<1>1. /\ wire \in Seq(ClientPacket) /\ inHand \in Seq(ClientPacket)
      /\ SendPacketQueue \in Seq(ClientPacket)
  BY DEF SessionInv, TypeInv, TypeOK
<1>2. Len(inHand) = IF Sending THEN 1 ELSE 0
  BY DEF SessionInv, SentInv, Holding, Sending
<1>3. /\ wire \o inHand \in Seq(ClientPacket)
      /\ Len(wire \o inHand) = Len(wire) + Len(inHand)
  BY <1>1, ConcatProperties
<1>4. Len((wire \o inHand) \o SendPacketQueue)
        = Len(wire \o inHand) + Len(SendPacketQueue)
  BY <1>1, <1>3, ConcatProperties
<1> QED BY <1>1, <1>2, <1>3, <1>4 DEF SessionInv, SentInv, SentInOrder

(* The sending thread takes the packet and sends it. *)
LEMMA UnsentMoves ==
  ASSUME NEW m \in Nat, SessionInv, [Next]_vars
  PROVE  /\ UnsentAt(m, "test") =>
              \/ ~Send /\ UnsentAt(m, "test")'
              \/ UnsentAt(m, "dequeue")' \/ SentOrEnds(m)'
         /\ UnsentAt(m, "dequeue") =>
              \/ ~Send /\ UnsentAt(m, "dequeue")'
              \/ UnsentAt(m, "sending")' \/ SentOrEnds(m)'
         /\ UnsentAt(m, "sending") =>
              UnsentAt(m, "sending")' \/ SentOrEnds(m)'
<1> SUFFICES ASSUME Unsent(m), main' \in InGame, ~broken'
             PROVE  /\ ~Send => Unsent(m)' /\ sendPc' = sendPc
                    /\ Send => \/ Len(wire') > m
                               \/ /\ Unsent(m)'
                                  /\ sendPc = "test" => sendPc' = "dequeue"
                                  /\ sendPc = "dequeue" => sendPc' = "sending"
                                  /\ sendPc = "sending" => sendPc' = "sending"
  <2>1. main' \in InGame \cup Shutdown
    BY TypeStep DEF SessionInv, TypeInv, TypeOK, InGame
  <2> QED
    BY <2>1 DEF UnsentAt, SentOrEnds
<1>1. /\ wire \in Seq(ClientPacket) /\ outbox \in Seq(ClientPacket)
      /\ Len(outbox) > m /\ Len(wire) = m
  BY DEF Unsent, SessionInv, TypeInv, TypeOK
<1>2. /\ ClientSession /\ main # "startSend" /\ sendRunning
  BY <1>1 DEF Unsent, SessionInv, LoginInv, Joins, InGame
<1>3. ~Sending => SendPacketQueue # <<>>
  BY <1>1, SentCount DEF Unsent
<1>4. CASE Send
  <2>1. Len(outbox') > m
    BY <1>1, <1>4, SendMoves
  <2>2. sendPc = "sending" => \/ sendPc' = "sending" /\ wire' = wire
                              \/ Len(wire') = m + 1
    BY <1>1, <1>4, SendMoves, SentCount DEF Sending, Unsent
  <2>3. sendPc # "sending" => wire' = wire
    BY <1>4, SendMoves
  <2>4. /\ sendPc = "test" => sendPc' = "dequeue"
        /\ sendPc = "dequeue" => sendPc' = "sending"
    BY <1>2, <1>3, <1>4, SendMoves DEF Sending
  <2> QED BY <1>1, <1>4, <2>1, <2>2, <2>3, <2>4 DEF Unsent
<1>5. CASE ~Send
  <2>1. UNCHANGED <<sendPc, wire>>
    BY <1>2, <1>5, OthersLeaveSend
  <2>2. Len(outbox') > m
    <3>1. ASSUME NEW p \in ClientPacket, SendPacket(p) PROVE Len(outbox') > m
      BY <1>1, <3>1, AppendProperties DEF SendPacket
    <3>2. ASSUME OutgoingSame PROVE Len(outbox') > m
      BY <1>1, <3>2 DEF OutgoingSame
    <3> QED
      BY <1>5, <3>1, <3>2, SentOthers DEF SessionInv, Send, SocketSends
  <2> QED BY <1>1, <1>5, <2>1, <2>2 DEF Unsent
<1> QED BY <1>4, <1>5

(* The next packet of the way out, once SendPacket has it, is sent whole   *)
(* unless the connection breaks, the game ends or a dropped header may     *)
(* have crashed it: for every m, if the loop that sends a packet ends      *)
(* (EveryPacketSent, one packet at a time).                                *)
THEOREM NextPacketSent ==
  ASSUME NEW m \in Nat
  PROVE  LiveSpec /\ []SessionCanStep /\ SendLoopEnds
           => (Len(outbox) > m /\ Len(wire) = m ~> SentOrEnds(m))
<1>1. SessionInv /\ Len(outbox) > m /\ Len(wire) = m
        => Unsent(m) \/ SentOrEnds(m)
  BY DEF SessionInv, TypeInv, TypeOK, Unsent, SentOrEnds, InGame
<1>2. SessionInv /\ Unsent(m)
        => UnsentAt(m, "test") \/ UnsentAt(m, "dequeue") \/ UnsentAt(m, "sending")
  <2> SUFFICES ASSUME SessionInv, Unsent(m)
               PROVE  sendPc \in {"test", "dequeue", "sending"}
    BY DEF UnsentAt
  <2>1. outbox \in Seq(ClientPacket) /\ Len(outbox) > m
    BY DEF SessionInv, TypeInv, TypeOK, Unsent
  <2>2. ClientSession /\ main # "startSend"
    BY <2>1 DEF SessionInv, LoginInv
  <2> QED BY <2>2 DEF SessionInv, TypeInv, TypeOK, Joins, Unsent, InGame
<1>3. UnsentAt(m, "test") \/ UnsentAt(m, "dequeue") => SendAlive /\ ~Sending
  BY DEF UnsentAt, SendAlive, Sending
<1>4. UnsentAt(m, "sending") => Sending
  BY DEF UnsentAt, Sending
<1>5. SendTest \/ SendNothing \/ SendDequeue => Send
  BY DEF Send
<1>6. dropped => SentOrEnds(m)
  BY DEF SentOrEnds
<1> QED
  BY <1>1, <1>2, <1>3, <1>4, <1>5, <1>6, UnsentMoves, SessionInit, SessionStep, PTL
     DEF LiveSpec, Spec, SessionCanStep, SendLoopEnds

-----------------------------------------------------------------------------
(* What came out of a channel is the beginning of what went in. *)

Begins(s, t) == Len(s) <= Len(t) /\ \A i \in 1..Len(s) : s[i] = t[i]

LEMMA ChannelKeepsOrder ==
  ASSUME NEW S, NEW w \in Seq(S), NEW q \in Seq(S), Begins(q, w),
         NEW w2, NEW q2,
         \/ q2 = q /\ w2 = w
         \/ q2 = q /\ \E e \in S : w2 = Append(w, e)
         \/ Len(q) < Len(w) /\ q2 = Append(q, w[Len(q) + 1]) /\ w2 = w
  PROVE  Begins(q2, w2)
<1>1. Len(q) \in Nat /\ Len(w) \in Nat
  OBVIOUS
<1>2. ASSUME NEW e \in S PROVE Begins(q, Append(w, e))
  BY <1>1, AppendProperties DEF Begins
<1>3. ASSUME Len(q) < Len(w) PROVE Begins(Append(q, w[Len(q) + 1]), w)
  <2>1. w[Len(q) + 1] \in S
    BY <1>1, <1>3
  <2>2. /\ Len(Append(q, w[Len(q) + 1])) = Len(q) + 1
        /\ \A i \in 1..Len(q) : Append(q, w[Len(q) + 1])[i] = q[i]
        /\ Append(q, w[Len(q) + 1])[Len(q) + 1] = w[Len(q) + 1]
    BY <2>1, AppendProperties
  <2>3. \A i \in 1..Len(q) + 1 : i \in 1..Len(q) \/ i = Len(q) + 1
    BY <1>1
  <2> QED BY <1>1, <1>3, <2>2, <2>3 DEF Begins
<1> QED BY <1>2, <1>3

(* What the game has handled of the packets read in step is the beginning  *)
(* of what the server has sent, and as long as no header has been dropped  *)
(* that is all it has handled.  What the connection has taken is the       *)
(* beginning of what was given to SendPacket: also after a failed Send,    *)
(* when packets are lost.                                                  *)
THEOREM NothingOvertaken ==
  Spec => [](/\ Begins(HandledInStep, fromServer)
             /\ ~dropped => HandledInStep = handled
             /\ Begins(wire, outbox))
<1> DEFINE Order == Begins(HandledInStep, fromServer) /\ Begins(wire, outbox)
<1>1. Init => Order
  BY EmptySeq DEF Init, Begins, HandledInStep
<1>2. SessionInv /\ Order /\ [Next]_vars => Order'
  <2> SUFFICES ASSUME SessionInv, Order, [Next]_vars PROVE Order'
    OBVIOUS
  <2>1. /\ HandledInStep \in Seq(ReadPacket) /\ fromServer \in Seq(ReadPacket)
        /\ wire \in Seq(ClientPacket) /\ outbox \in Seq(ClientPacket)
    <3>1. handled \in Seq(ReadPacket) /\ nRead \in Nat
      BY DEF SessionInv, TypeInv, TypeOK
    <3>2. nRead <= Len(handled) => SubSeq(handled, 1, nRead) \in Seq(ReadPacket)
      BY <3>1, SubSeqProperties, ElementOfSeq
    <3> QED
      BY <3>1, <3>2, ReturnedLast
         DEF HandledInStep, SessionInv, TypeInv, TypeOK
  <2>2. [Incoming!Next]_<<fromServer, HandledInStep>>
    BY IncomingStep DEF SessionInv
  <2>3. Begins(HandledInStep', fromServer')
    <3>1. ServerPacket \subseteq ReadPacket
      BY DEF ReadPacket
    <3> QED
      BY <2>1, <2>2, <3>1, ChannelKeepsOrder
         DEF Incoming!Next, Incoming!Write, Incoming!Deliver
  <2>4. [Outgoing!Next]_<<outbox, wire>>
    BY OutgoingStep DEF SessionInv
  <2>5. Begins(wire', outbox')
    BY <2>1, <2>4, ChannelKeepsOrder
       DEF Outgoing!Next, Outgoing!Write, Outgoing!Deliver
  <2> QED BY <2>3, <2>5 DEF Begins
<1>3. SessionInv /\ ~dropped => HandledInStep = handled
  BY InStepCount DEF SessionInv, HandledInStep
<1> QED BY <1>1, <1>2, <1>3, SessionInit, SessionStep, PTL DEF Spec
=============================================================================
