----------------------------- MODULE RecvWorker -----------------------------
(***************************************************************************)
(* The receiving thread of a session at the granularity of its socket      *)
(* calls: RecvWorker::Run, RecvPacket and RecvDesiredBytes in              *)
(* Network/NetworkWorker.cpp.                                              *)
(*                                                                         *)
(* The server's packets form one stream of bytes.  A byte is known by its  *)
(* offset, so a packet is the offset of its header and the size of its     *)
(* body; what a header says is what the packet at that offset says, and    *)
(* bytes taken for a header anywhere else say anything at all.             *)
(***************************************************************************)
EXTENDS Integers, Sequences

CONSTANTS
  HeaderSize,        \* sizeof(PacketHeader), 4 in the code
  BodySize,          \* the body sizes the server uses
  ForeignSize,       \* DataSize read from bytes that are not a header
  MaxPackets         \* bound on the packets the server writes

ASSUME RecvAssumption ==
  /\ HeaderSize \in Nat \ {0}
  /\ BodySize \subseteq Nat
  /\ ForeignSize \subseteq Int
  /\ MaxPackets \in Nat

VARIABLES
  stream,    \* the packets the server has written to the connection
  arrived,   \* bytes that have reached the client's socket so far
  closed,    \* the connection has ended: nothing more arrives
  running,   \* RecvWorker::Running
  pc,        \* where the thread is
  taken,     \* bytes the thread has read from the socket so far
  want,      \* RecvDesiredBytes: bytes still to read (Size)
  start,     \* offset of the bytes RecvPacket reads as its header
  size,      \* RecvPacket: DataSize
  queue,     \* every packet given to RecvPacketQueue.Enqueue, in order
  dropped    \* history: RecvPacket has dropped a header it had read

netVars  == <<stream, arrived, closed>>
readVars == <<taken, want, start, size>>
vars     == <<netVars, running, pc, readVars, queue, dropped>>

Packets == [at : Nat, body : BodySize]

Min2(a, b) == IF a < b THEN a ELSE b

(* Where a packet's body begins, and where the packet after it does. *)
BodyAt(p) == p.at + HeaderSize
EndOf(p)  == BodyAt(p) + p.body

StreamEnd == IF stream = <<>> THEN 0 ELSE EndOf(stream[Len(stream)])

(* The sizes a header at offset o announces: header.size - HeaderSize. *)
Announced(o) ==
  IF \E k \in DOMAIN stream : stream[k].at = o
    THEN {stream[k].body : k \in {j \in DOMAIN stream : stream[j].at = o}}
    ELSE ForeignSize

Init ==
  /\ stream = <<>> /\ arrived = 0 /\ closed = FALSE
  /\ running = TRUE /\ pc = "poll"
  /\ taken = 0 /\ want = 0 /\ start = 0 /\ size = 0
  /\ queue = <<>> /\ dropped = FALSE

-----------------------------------------------------------------------------
(* The server and the network, outside the repository. *)

ServerWrite(b) ==
  /\ ~closed
  /\ Len(stream) < MaxPackets
  /\ stream' = Append(stream, [at |-> StreamEnd, body |-> b])
  /\ UNCHANGED <<arrived, closed, running, pc, readVars, queue, dropped>>

(* More bytes reach the socket, up to any offset n: a delivery may end     *)
(* inside a header, inside a body, or between the two.                     *)
BytesArrive(n) ==
  /\ ~closed
  /\ n > arrived
  /\ arrived' = n
  /\ UNCHANGED <<stream, closed, running, pc, readVars, queue, dropped>>

ConnectionEnds ==
  /\ ~closed
  /\ closed' = TRUE
  /\ UNCHANGED <<stream, arrived, running, pc, readVars, queue, dropped>>

-----------------------------------------------------------------------------
(* Faults: definitions named ...Fault<X> are plausible mistakes in the      *)
(* definition that follows them.  No specification uses them.              *)

(* RecvWorker::Stop, called by the game thread. *)
Stop ==
  /\ running
  /\ running' = FALSE
  /\ UNCHANGED <<netVars, pc, readVars, queue, dropped>>

(* while (Running): the flag is read between packets only. *)
Exit ==
  /\ pc = "poll"
  /\ ~running
  /\ pc' = "exited"
  /\ UNCHANGED <<netVars, running, readVars, queue, dropped>>

(* A header is read only when more than a header is pending. *)
PollHeaderFaultMore ==
  /\ pc = "poll"
  /\ running
  /\ arrived > taken + HeaderSize
  /\ pc' = "header"
  /\ want' = HeaderSize
  /\ start' = taken
  /\ UNCHANGED <<netVars, running, taken, size, queue, dropped>>

(* RecvPacket: HasPendingData sees bytes and the header read begins.  With *)
(* nothing pending RecvPacket returns false and Run tries again.           *)
PollHeader ==
  /\ pc = "poll"
  /\ running
  /\ arrived > taken
  /\ pc' = "header"
  /\ want' = HeaderSize
  /\ start' = taken
  /\ UNCHANGED <<netVars, running, taken, size, queue, dropped>>

(* Session->RecvPacketQueue.Enqueue(Packet), and back to the loop. *)
Enqueue(bytes) ==
  /\ queue' = Append(queue, [at |-> start, body |-> bytes])
  /\ pc' = "poll"

(* Socket->Recv returns n of the bytes asked for. *)
RecvBytes(n) ==
  /\ n \in 1..Min2(want, arrived - taken)
  /\ taken' = taken + n
  /\ want' = want - n

HeaderPart(n) ==
  /\ pc = "header"
  /\ RecvBytes(n)
  /\ n < want
  /\ UNCHANGED <<netVars, running, pc, start, size, queue, dropped>>

(* One Recv is taken for the whole header, whatever it returned. *)
HeaderDoneFaultShort(d) ==
  /\ pc = "header"
  /\ arrived > taken
  /\ taken' = taken + Min2(want, arrived - taken)
  /\ d \in Announced(start)
  /\ size' = d
  /\ \/ d = 0 /\ Enqueue(0) /\ want' = 0
     \/ d > 0 /\ pc' = "bodyPoll" /\ want' = d /\ UNCHANGED queue
  /\ UNCHANGED <<netVars, running, start, dropped>>

(* The offset advances by the bytes asked for, not by the bytes read. *)
HeaderDoneFaultOver(d) ==
  /\ pc = "header"
  /\ arrived > taken
  /\ taken' = taken + want
  /\ d \in Announced(start)
  /\ size' = d
  /\ \/ d = 0 /\ Enqueue(0) /\ want' = 0
     \/ d > 0 /\ pc' = "bodyPoll" /\ want' = d /\ UNCHANGED queue
  /\ UNCHANGED <<netVars, running, start, dropped>>

(* The header is complete: DataSize is known.  AddZeroed of a negative     *)
(* DataSize clears memory past the buffer and takes the process down.      *)
HeaderDone(d) ==
  /\ pc = "header"
  /\ want \in 1..(arrived - taken)
  /\ taken' = taken + want
  /\ d \in Announced(start)
  /\ size' = d
  /\ \/ d = 0 /\ Enqueue(0) /\ want' = 0
     \/ d > 0 /\ pc' = "bodyPoll" /\ want' = d /\ UNCHANGED queue
     \/ d < 0 /\ pc' = "crashed" /\ want' = 0 /\ UNCHANGED queue
  /\ UNCHANGED <<netVars, running, start, dropped>>

(* RecvDesiredBytes for the body starts with the same HasPendingData test. *)
PollBody ==
  /\ pc = "bodyPoll"
  /\ arrived > taken
  /\ pc' = "body"
  /\ UNCHANGED <<netVars, running, readVars, queue, dropped>>

(* ... and when nothing is pending RecvPacket returns false: the header    *)
(* already read is dropped.                                                *)
DropHeader ==
  /\ pc = "bodyPoll"
  /\ arrived = taken
  /\ pc' = "poll"
  /\ want' = 0
  /\ dropped' = TRUE
  /\ UNCHANGED <<netVars, running, taken, start, size, queue>>

BodyPart(n) ==
  /\ pc = "body"
  /\ RecvBytes(n)
  /\ IF n < want THEN UNCHANGED <<pc, queue>> ELSE Enqueue(size)
  /\ UNCHANGED <<netVars, running, start, size, dropped>>

(* A Recv that reads nothing is tried again for ever. *)
RecvFailsFaultRetry ==
  /\ pc \in {"header", "body"}
  /\ closed
  /\ arrived = taken
  /\ UNCHANGED vars

(* Socket->Recv on an ended connection reads nothing: return false. *)
RecvFails ==
  /\ pc \in {"header", "body"}
  /\ closed
  /\ arrived = taken
  /\ pc' = "poll"
  /\ want' = 0
  /\ UNCHANGED <<netVars, running, taken, start, size, queue, dropped>>

-----------------------------------------------------------------------------
Thread ==
  \/ Exit \/ PollHeader \/ PollBody \/ DropHeader \/ RecvFails
  \/ \E n \in 1..HeaderSize : HeaderPart(n)
  \/ \E d \in Announced(start) : HeaderDone(d)
  \/ \E n \in 1..want : BodyPart(n)

Network ==
  \/ \E b \in BodySize : ServerWrite(b)
  \/ \E n \in 1..StreamEnd : BytesArrive(n)
  \/ ConnectionEnds

Next == Thread \/ Network \/ Stop

Spec == Init /\ [][Next]_vars

(* The operating system schedules the thread, and TCP delivers every byte  *)
(* of a connection that stays up.                                          *)
LiveSpec ==
  /\ Spec
  /\ WF_vars(Thread)
  /\ WF_vars(\E n \in 1..StreamEnd : BytesArrive(n))

-----------------------------------------------------------------------------
TypeOK ==
  /\ stream \in Seq(Packets) /\ arrived \in Nat /\ closed \in BOOLEAN
  /\ running \in BOOLEAN
  /\ pc \in {"poll", "header", "bodyPoll", "body", "exited", "crashed"}
  /\ taken \in 0..arrived /\ want \in Nat /\ start \in Nat /\ size \in Int
  /\ queue \in Seq([at : Nat, body : Nat]) /\ dropped \in BOOLEAN

(* The bytes RecvPacket parses as a PacketHeader (NetworkWorker.cpp:60-69) *)
(* are a header the server wrote, whatever the deliveries before it.       *)
HeaderAtPacketStart ==
  pc \in {"header", "bodyPoll", "body"} =>
    \E k \in DOMAIN stream : stream[k].at = start

(* The packets enqueued are the first packets written: whole, in order,    *)
(* none lost in the middle, none made up.                                  *)
QueueIsPrefix ==
  /\ Len(queue) <= Len(stream)
  /\ \A k \in DOMAIN queue : queue[k] = stream[k]

(* Dropping a header is the only way to lose step with the stream: until  *)
(* it happens the queue is a prefix and every header is a header, however  *)
(* the bytes were split (RecvDesiredBytes' loop, NetworkWorker.cpp:94-105).*)
InStepUntilDropped == ~dropped => QueueIsPrefix /\ HeaderAtPacketStart

(* A header is dropped for one reason only: everything delivered so far    *)
(* has been read and ends exactly between the header and the body of the   *)
(* packet being received (RecvDesiredBytes' test, NetworkWorker.cpp:89).   *)
DropOnlyAtSplit ==
  [][dropped' /\ ~dropped =>
       \E k \in DOMAIN stream :
         /\ k = Len(queue) + 1 /\ stream[k].body > 0
         /\ arrived = BodyAt(stream[k])]_vars

(* Every packet written to a connection that stays up is enqueued, unless  *)
(* the worker is stopped (RecvDesiredBytes blocks until all has come) or a *)
(* header has been dropped.                                                *)
EveryPacketQueued ==
  \A k \in 1..MaxPackets :
    Len(stream) >= k ~> (Len(queue) >= k \/ closed \/ ~running \/ dropped)

(* After Stop the thread leaves its loop, if the connection delivers what  *)
(* was begun or ends (WaitForThread depends on it).  A thread that has     *)
(* dropped a header may wait for ever for a body nobody sends.             *)
StopEndsThread == ~running ~> (pc = "exited" \/ dropped)

Channel == INSTANCE PacketChannel
             WITH Packet <- Packets, written <- stream, queued <- queue

(* Until a header is dropped the receive path is the abstract channel:     *)
(* RecvWorker::Run's Enqueue delivers the next packet of the stream, and   *)
(* nothing else moves one.                                                 *)
ChannelUntilDropped ==
  Channel!Init /\ [][~dropped' => Channel!Next]_<<stream, queue>>
=============================================================================
