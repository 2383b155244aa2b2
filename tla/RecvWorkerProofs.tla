-------------------------- MODULE RecvWorkerProofs --------------------------
(***************************************************************************)
(* Theorems about RecvWorker, for any sizes of headers and bodies and any  *)
(* number of packets.  The inductive invariant says where in the stream    *)
(* the thread is: at the end of the packets it has queued, or inside the   *)
(* packet after them.                                                      *)
(***************************************************************************)
EXTENDS RecvWorker, SequenceTheorems, TLAPS

(* The packets of the stream follow one another without gaps. *)
Contiguous ==
  /\ \A j \in 1..Len(stream) :
       stream[j].at = IF j = 1 THEN 0 ELSE EndOf(stream[j - 1])
  /\ \A j \in 1..Len(stream) : \A i \in 1..(j - 1) :
       EndOf(stream[i]) <= stream[j].at

(* The offset at which packet n + 1 begins, or will. *)
Offset(n) == IF n < Len(stream) THEN stream[n + 1].at ELSE StreamEnd

(* The packet being received. *)
Current == stream[Len(queue) + 1]

InPacket == Len(queue) < Len(stream) /\ start = Current.at

Between == \/ taken = Offset(Len(queue))
           \/ closed /\ arrived = taken

InHeader == /\ InPacket
            /\ want > 0 /\ taken + want = BodyAt(Current)

AtBody   == /\ InPacket
            /\ want > 0 /\ want = Current.body /\ size = Current.body
            /\ taken = BodyAt(Current)

InBody   == /\ InPacket
            /\ want > 0 /\ size = Current.body
            /\ taken + want = EndOf(Current)

InStep ==
  /\ QueueIsPrefix
  /\ pc \in {"poll", "exited"} => Between
  /\ pc = "header" => InHeader
  /\ pc = "bodyPoll" => AtBody
  /\ pc = "body" => InBody
  /\ pc # "crashed"

Stream == Contiguous /\ arrived <= StreamEnd

Types == TypeOK /\ (pc \in {"bodyPoll", "body"} => size \in Nat)

RecvInv ==
  /\ Types
  /\ Stream
  /\ ~dropped => InStep

-----------------------------------------------------------------------------
(* Facts about the stream *)

(* Offsets are natural numbers, and a body never precedes its header. *)
LEMMA StreamTypes ==
  ASSUME Types
  PROVE  /\ Len(stream) \in Nat /\ Len(queue) \in Nat
         /\ \A j \in 1..Len(stream) :
              /\ stream[j] \in Packets
              /\ stream[j].at \in Nat /\ stream[j].body \in Nat
              /\ stream[j].body \in BodySize
              /\ BodyAt(stream[j]) \in Nat /\ EndOf(stream[j]) \in Nat
         /\ StreamEnd \in Nat
<1>1. stream \in Seq(Packets) /\ Len(stream) \in Nat /\ Len(queue) \in Nat
  BY DEF Types, TypeOK
<1>2. \A j \in 1..Len(stream) :
        /\ stream[j] \in Packets
        /\ stream[j].at \in Nat /\ stream[j].body \in Nat
        /\ stream[j].body \in BodySize
        /\ BodyAt(stream[j]) \in Nat /\ EndOf(stream[j]) \in Nat
  <2> SUFFICES ASSUME NEW j \in 1..Len(stream)
               PROVE  /\ stream[j] \in Packets
                      /\ stream[j].at \in Nat /\ stream[j].body \in Nat
                      /\ stream[j].body \in BodySize
                      /\ BodyAt(stream[j]) \in Nat /\ EndOf(stream[j]) \in Nat
    OBVIOUS
  <2>1. stream[j] \in Packets
    BY <1>1, ElementOfSeq
  <2>2. /\ stream[j].at \in Nat /\ stream[j].body \in BodySize
        /\ stream[j].body \in Nat
    BY <2>1, RecvAssumption DEF Packets
  <2> QED BY <2>1, <2>2, RecvAssumption DEF BodyAt, EndOf
<1>3. StreamEnd \in Nat
  <2>1. CASE stream = <<>>  BY <2>1 DEF StreamEnd
  <2>2. CASE stream # <<>>
    <3>1. Len(stream) \in 1..Len(stream)
      BY <1>1, <2>2, EmptySeq
    <3> QED BY <1>2, <2>2, <3>1 DEF StreamEnd
  <2> QED BY <2>1, <2>2
<1> QED BY <1>1, <1>2, <1>3

(* The header at the start of the current packet announces its body. *)
LEMMA AnnouncedIsBody ==
  ASSUME Types, Stream, InPacket
  PROVE  Announced(start) = {Current.body}
<1> DEFINE n == Len(queue) + 1
<1>1. n \in 1..Len(stream) /\ DOMAIN stream = 1..Len(stream)
  BY StreamTypes DEF InPacket, Types, TypeOK
<1>2. \A j \in 1..Len(stream) : stream[j].at = start => j = n
  <2> SUFFICES ASSUME NEW j \in 1..Len(stream), stream[j].at = stream[n].at
               PROVE  j = n
    BY DEF InPacket, Current
  <2>1. \A i \in 1..Len(stream) : EndOf(stream[i]) > stream[i].at
    BY StreamTypes, RecvAssumption DEF EndOf, BodyAt
  <2>2. /\ j < n => EndOf(stream[j]) <= stream[n].at
        /\ n < j => EndOf(stream[n]) <= stream[j].at
    BY <1>1, StreamTypes DEF Stream, Contiguous
  <2> QED BY <1>1, <2>1, <2>2, StreamTypes
<1> QED BY <1>1, <1>2 DEF Announced, InPacket, Current

(* No packet ends behind the last one. *)
LEMMA EndBeforeStreamEnd ==
  ASSUME Types, Stream
  PROVE  \A j \in 1..Len(stream) : EndOf(stream[j]) <= StreamEnd
<1> SUFFICES ASSUME NEW j \in 1..Len(stream) PROVE EndOf(stream[j]) <= StreamEnd
  OBVIOUS
<1> DEFINE n == Len(stream)
<1>1. n \in 1..n /\ stream # <<>>
  BY StreamTypes
<1>2. StreamEnd = EndOf(stream[n]) /\ EndOf(stream[n]) \in Nat
  BY <1>1, StreamTypes DEF StreamEnd
<1>3. stream[n].at <= EndOf(stream[n]) /\ stream[n].at \in Nat
  BY <1>1, StreamTypes, RecvAssumption DEF EndOf, BodyAt
<1>4. CASE j < n
  <2>1. j \in 1..(n - 1)
    BY <1>1, <1>4
  <2>2. EndOf(stream[j]) <= stream[n].at
    BY <1>1, <2>1 DEF Stream, Contiguous
  <2>3. EndOf(stream[j]) \in Nat
    BY StreamTypes
  <2> QED BY <1>2, <1>3, <2>2, <2>3
<1>5. CASE j = n
  BY <1>2, <1>5
<1> QED BY <1>1, <1>4, <1>5

(* Where a packet ends, the next one begins. *)
LEMMA OffsetNext ==
  ASSUME Types, Stream, NEW n \in Nat, n < Len(stream)
  PROVE  Offset(n + 1) = EndOf(stream[n + 1])
<1>1. Len(stream) \in Nat /\ n + 1 \in 1..Len(stream)
  BY StreamTypes
<1>2. CASE n + 1 < Len(stream)
  <2>1. n + 2 \in 1..Len(stream) /\ n + 2 # 1 /\ (n + 2) - 1 = n + 1
        /\ (n + 1) + 1 = n + 2
    BY <1>1, <1>2
  <2>2. stream[n + 2].at = EndOf(stream[(n + 2) - 1])
    BY <2>1 DEF Stream, Contiguous
  <2> QED BY <1>2, <2>1, <2>2 DEF Offset
<1>3. CASE n + 1 = Len(stream)
  <2>1. stream # <<>>
    BY <1>1
  <2> QED BY <1>1, <1>3, <2>1 DEF Offset, StreamEnd
<1> QED BY <1>1, <1>2, <1>3

-----------------------------------------------------------------------------
(* The steps of the server and the network *)

(* A packet written is put behind all others; what was there stays. *)
LEMMA WriteAppends ==
  ASSUME Types, Stream, NEW b \in BodySize, ServerWrite(b)
  PROVE  /\ stream' \in Seq(Packets)
         /\ Len(stream') = Len(stream) + 1
         /\ \A j \in 1..Len(stream) : stream'[j] = stream[j]
         /\ stream'[Len(stream) + 1].at = StreamEnd
         /\ stream'[Len(stream) + 1].body = b
         /\ StreamEnd' = StreamEnd + HeaderSize + b
<1>1. [at |-> StreamEnd, body |-> b] \in Packets
  BY StreamTypes DEF Packets
<1>2. stream \in Seq(Packets)
  BY DEF Types, TypeOK
<1>3. stream' = Append(stream, [at |-> StreamEnd, body |-> b])
  BY DEF ServerWrite
<1>4. /\ stream' \in Seq(Packets) /\ stream' # <<>>
      /\ Len(stream') = Len(stream) + 1
      /\ \A j \in 1..Len(stream) : stream'[j] = stream[j]
      /\ stream'[Len(stream) + 1] = [at |-> StreamEnd, body |-> b]
  BY <1>1, <1>2, <1>3, AppendProperties
<1>5. StreamEnd' = StreamEnd + HeaderSize + b
  BY <1>4 DEF StreamEnd, EndOf, BodyAt
<1> QED BY <1>4, <1>5

(* ServerWrite keeps the invariant. *)
LEMMA WriteStep ==
  ASSUME RecvInv, NEW b \in BodySize, ServerWrite(b) PROVE RecvInv'
<1>1. Types /\ Stream /\ b \in Nat /\ HeaderSize \in Nat /\ HeaderSize > 0
  BY RecvAssumption DEF RecvInv
<1>2. /\ Len(stream) \in Nat /\ Len(queue) \in Nat /\ StreamEnd \in Nat
      /\ \A j \in 1..Len(stream) :
           /\ stream[j].at \in Nat /\ stream[j].body \in Nat
           /\ BodyAt(stream[j]) \in Nat /\ EndOf(stream[j]) \in Nat
  BY <1>1, StreamTypes
<1>3. /\ stream' \in Seq(Packets)
      /\ Len(stream') = Len(stream) + 1
      /\ \A j \in 1..Len(stream) : stream'[j] = stream[j]
      /\ stream'[Len(stream) + 1].at = StreamEnd
      /\ stream'[Len(stream) + 1].body = b
      /\ StreamEnd' = StreamEnd + HeaderSize + b
  BY <1>1, WriteAppends
<1>4. UNCHANGED <<arrived, closed, running, pc, taken, want, start, size, queue,
                  dropped>>
  BY DEF ServerWrite, readVars
<1>5. Types'
  BY <1>1, <1>3, <1>4 DEF Types, TypeOK
<1>6. \A j \in 1..Len(stream) : EndOf(stream[j]) <= StreamEnd
  BY <1>1, EndBeforeStreamEnd
<1>7. Contiguous'
  <2>1. ASSUME NEW j \in 1..Len(stream')
        PROVE  stream'[j].at = IF j = 1 THEN 0 ELSE EndOf(stream'[j - 1])
    <3>1. CASE j \in 1..Len(stream)
      <4>1. j # 1 => j - 1 \in 1..Len(stream)
        BY <1>2, <3>1
      <4> QED BY <1>1, <1>3, <3>1, <4>1 DEF Stream, Contiguous
    <3>2. CASE j = Len(stream) + 1
      <4>1. CASE stream = <<>>
        BY <1>3, <3>2, <4>1 DEF StreamEnd
      <4>2. CASE stream # <<>>
        <5>1. Len(stream) \in 1..Len(stream) /\ j # 1 /\ j - 1 = Len(stream)
          BY <1>1, <1>2, <3>2, <4>2, EmptySeq DEF Types, TypeOK
        <5> QED BY <1>3, <3>2, <4>2, <5>1 DEF StreamEnd
      <4> QED BY <4>1, <4>2
    <3> QED BY <1>2, <1>3, <2>1, <3>1, <3>2
  <2>2. ASSUME NEW j \in 1..Len(stream'), NEW i \in 1..(j - 1)
        PROVE  EndOf(stream'[i]) <= stream'[j].at
    <3>1. i \in 1..Len(stream) /\ stream'[i] = stream[i]
      BY <1>2, <1>3, <2>2
    <3>2. CASE j \in 1..Len(stream)
      BY <1>1, <1>3, <2>2, <3>1, <3>2 DEF Stream, Contiguous
    <3>3. CASE j = Len(stream) + 1
      BY <1>3, <1>6, <3>1, <3>3
    <3>4. j \in 1..Len(stream) \/ j = Len(stream) + 1
      BY <1>2, <1>3
    <3> QED BY <3>2, <3>3, <3>4
  <2> QED BY <2>1, <2>2 DEF Contiguous, EndOf, BodyAt
<1>8. Stream'
  <2>1. arrived <= StreamEnd /\ arrived \in Nat
    BY <1>1 DEF Stream, Types, TypeOK
  <2> QED BY <1>1, <1>2, <1>3, <1>4, <1>7, <2>1 DEF Stream
<1>9. InStep => InStep'
  <2> SUFFICES ASSUME InStep PROVE InStep'
    OBVIOUS
  <2>1. /\ Len(queue) <= Len(stream)
        /\ \A k \in DOMAIN queue : queue[k] = stream[k]
        /\ DOMAIN queue = 1..Len(queue)
    BY <1>1 DEF InStep, QueueIsPrefix, Types, TypeOK
  <2>2. QueueIsPrefix'
    <3>1. queue' = queue
      BY <1>4
    <3>2. ASSUME NEW k \in 1..Len(queue) PROVE queue[k] = stream'[k]
      <4>1. k \in 1..Len(stream)
        BY <1>2, <2>1
      <4> QED BY <1>3, <2>1, <4>1
    <3>3. Len(queue) <= Len(stream')
      BY <1>2, <1>3, <2>1
    <3> QED BY <2>1, <3>1, <3>2, <3>3 DEF QueueIsPrefix
  <2>3. Between => Between'
    <3>1. Offset(Len(queue))' = Offset(Len(queue))
      BY <1>2, <1>3, <1>4, <2>1 DEF Offset
    <3> QED BY <1>4, <3>1 DEF Between
  <2>4. InPacket => InPacket' /\ Current' = Current
    BY <1>2, <1>3, <1>4 DEF InPacket, Current
  <2>5. InHeader => InHeader'
    BY <1>4, <2>4 DEF InHeader, BodyAt
  <2>6. AtBody => AtBody'
    BY <1>4, <2>4 DEF AtBody, BodyAt
  <2>7. InBody => InBody'
    BY <1>4, <2>4 DEF InBody, EndOf, BodyAt
  <2> QED BY <1>4, <2>2, <2>3, <2>5, <2>6, <2>7 DEF InStep
<1> QED BY <1>4, <1>5, <1>8, <1>9 DEF RecvInv

(* A delivery, or the end of the connection, moves nobody. *)
LEMMA NetworkStep ==
  ASSUME RecvInv, (\E n \in 1..StreamEnd : BytesArrive(n)) \/ ConnectionEnds
  PROVE  RecvInv'
<1>1. /\ Types /\ Stream /\ arrived \in Nat /\ taken \in Nat /\ taken <= arrived
      /\ StreamEnd \in Nat
  BY StreamTypes DEF RecvInv, Types, TypeOK
<1>2. CASE ConnectionEnds
  <2>1. /\ UNCHANGED <<stream, arrived, running, pc, taken, want, start, size,
                       queue, dropped>>
        /\ closed' = TRUE /\ ~closed
    BY <1>2 DEF ConnectionEnds, readVars
  <2>2. Types' /\ Stream'
    BY <1>1, <2>1 DEF Types, TypeOK, Stream, Contiguous, StreamEnd
  <2>3. InStep => InStep'
    BY <2>1 DEF InStep, QueueIsPrefix, Between, InHeader, AtBody, InBody,
                InPacket, Current, Offset, StreamEnd
  <2> QED BY <2>1, <2>2, <2>3 DEF RecvInv
<1>3. ASSUME NEW n \in 1..StreamEnd, BytesArrive(n) PROVE RecvInv'
  <2>1. /\ UNCHANGED <<stream, closed, running, pc, taken, want, start, size,
                       queue, dropped>>
        /\ ~closed /\ arrived' = n /\ n > arrived
    BY <1>3 DEF BytesArrive, readVars
  <2>2. Types'
    BY <1>1, <2>1 DEF Types, TypeOK
  <2>3. Stream'
    BY <1>1, <2>1 DEF Stream, Contiguous, StreamEnd
  <2>4. InStep => InStep'
    BY <2>1 DEF InStep, QueueIsPrefix, Between, InHeader, AtBody, InBody,
                InPacket, Current, Offset, StreamEnd
  <2> QED BY <2>1, <2>2, <2>3, <2>4 DEF RecvInv
<1> QED BY <1>2, <1>3

-----------------------------------------------------------------------------
(* The steps of the thread *)

(* What every step of the thread leaves alone. *)
LEMMA ThreadLeaves ==
  ASSUME RecvInv, Thread \/ Stop
  PROVE  /\ UNCHANGED <<stream, arrived, closed>>
         /\ Stream'
<1>1. UNCHANGED <<stream, arrived, closed>>
  BY DEF Thread, Stop, Exit, PollHeader, PollBody, DropHeader, RecvFails,
         HeaderPart, HeaderDone, BodyPart, netVars
<1> QED
  BY <1>1 DEF RecvInv, Stream, Contiguous, StreamEnd

(* No step of the thread leaves the types. *)
LEMMA ThreadTypes ==
  ASSUME RecvInv, Thread \/ Stop PROVE Types'
<1>1. Types /\ RecvAssumption
  BY RecvAssumption DEF RecvInv
<1> USE DEF Types, TypeOK, netVars, readVars
<1>2. CASE Stop \/ Exit \/ PollBody \/ DropHeader \/ RecvFails
  <2>1. CASE Stop        BY <1>1, <2>1 DEF Stop
  <2>2. CASE Exit        BY <1>1, <2>2 DEF Exit
  <2>3. CASE PollBody    BY <1>1, <2>3 DEF PollBody
  <2>4. CASE DropHeader  BY <1>1, <2>4 DEF DropHeader
  <2>5. CASE RecvFails   BY <1>1, <2>5 DEF RecvFails
  <2> QED BY <1>2, <2>1, <2>2, <2>3, <2>4, <2>5
<1>3. CASE PollHeader
  BY <1>1, <1>3, RecvAssumption DEF PollHeader
<1>4. ASSUME NEW n \in 1..HeaderSize, HeaderPart(n) PROVE Types'
  BY <1>1, <1>4, RecvAssumption DEF HeaderPart, RecvBytes, Min2
<1>5. ASSUME NEW d \in Announced(start), HeaderDone(d) PROVE Types'
  <2>1. d \in Int
    <3>1. \A k \in DOMAIN stream : stream[k].body \in Int
      <4>1. \A k \in 1..Len(stream) : stream[k].body \in Nat
        BY <1>1, StreamTypes, Zenon
      <4>2. DOMAIN stream = 1..Len(stream)
        BY <1>1, LenProperties
      <4> QED BY <4>1, <4>2
    <3>2. d \in ForeignSize \/ \E k \in DOMAIN stream : d = stream[k].body
      BY DEF Announced
    <3> QED BY <3>1, <3>2, RecvAssumption
  <2>2. [at |-> start, body |-> 0] \in [at : Nat, body : Nat]
    BY <1>1
  <2>3. queue' \in Seq([at : Nat, body : Nat])
    <3>1. queue' = queue \/ queue' = Append(queue, [at |-> start, body |-> 0])
      BY <1>5 DEF HeaderDone, Enqueue
    <3>2. queue \in Seq([at : Nat, body : Nat])
      BY <1>1
    <3>3. Append(queue, [at |-> start, body |-> 0]) \in Seq([at : Nat, body : Nat])
      BY <2>2, <3>2, AppendProperties, Zenon
    <3> QED BY <3>1, <3>2, <3>3, Zenon
  <2>4. d = 0 \/ d > 0 \/ d < 0
    BY <2>1
  <2> QED BY <1>1, <1>5, <2>1, <2>3, <2>4 DEF HeaderDone, Enqueue
<1>6. ASSUME NEW n \in 1..want, BodyPart(n) PROVE Types'
  <2>1. size \in Nat /\ [at |-> start, body |-> size] \in [at : Nat, body : Nat]
    BY <1>1, <1>6 DEF BodyPart
  <2>2. queue' \in Seq([at : Nat, body : Nat])
    <3>1. queue' = queue \/ queue' = Append(queue, [at |-> start, body |-> size])
      BY <1>6 DEF BodyPart, Enqueue
    <3>2. queue \in Seq([at : Nat, body : Nat])
      BY <1>1
    <3>3. Append(queue, [at |-> start, body |-> size]) \in Seq([at : Nat, body : Nat])
      BY <2>1, <3>2, AppendProperties, Zenon
    <3> QED BY <3>1, <3>2, <3>3, Zenon
  <2> QED BY <1>1, <1>6, <2>1, <2>2 DEF BodyPart, RecvBytes, Enqueue, Min2
<1> QED BY <1>2, <1>3, <1>4, <1>5, <1>6 DEF Thread

(* Queueing the current packet leaves the thread before the next one.      *)
LEMMA EnqueueStep ==
  ASSUME RecvInv, InStep, InPacket, UNCHANGED stream,
         queue' = Append(queue, [at |-> start, body |-> Current.body])
  PROVE  /\ QueueIsPrefix'
         /\ Offset(Len(queue))' = EndOf(Current)
<1> DEFINE n == Len(queue)
<1>1. Types /\ Stream /\ n \in Nat /\ n < Len(stream)
  BY StreamTypes DEF RecvInv, InPacket
<1>2. n + 1 \in 1..Len(stream) /\ Len(stream) \in Nat
  BY <1>1, StreamTypes
<1>3. [at |-> start, body |-> Current.body] = stream[n + 1]
  BY <1>1, <1>2, StreamTypes DEF InPacket, Current, Packets
<1>4. /\ queue \in Seq([at : Nat, body : Nat])
      /\ stream[n + 1] \in [at : Nat, body : Nat]
  BY <1>1, <1>2, StreamTypes DEF Types, TypeOK, Packets
<1>5. /\ Len(queue') = n + 1 /\ DOMAIN queue' = 1..(n + 1)
      /\ \A k \in 1..n : queue'[k] = queue[k]
      /\ queue'[n + 1] = stream[n + 1]
  BY <1>3, <1>4, AppendProperties, LenProperties
<1>6. \A k \in 1..n : queue[k] = stream[k]
  BY <1>4 DEF InStep, QueueIsPrefix
<1>7. QueueIsPrefix'
  <2>1. ASSUME NEW k \in 1..(n + 1) PROVE queue'[k] = stream'[k]
    <3>1. CASE k = n + 1  BY <1>5, <3>1
    <3>2. CASE k \in 1..n  BY <1>5, <1>6, <3>2
    <3> QED BY <1>1, <3>1, <3>2
  <2> QED BY <1>1, <1>2, <1>5, <2>1 DEF QueueIsPrefix
<1>8. Offset(n + 1) = EndOf(stream[n + 1])
  BY <1>1, OffsetNext
<1> QED BY <1>5, <1>7, <1>8 DEF Offset, StreamEnd, EndOf, BodyAt, Current

(* A thread in step stays in step, unless it drops a header, and it drops  *)
(* none unless all that has arrived ends between a header and its body.    *)
LEMMA ThreadInStep ==
  ASSUME RecvInv, ~dropped, Thread \/ Stop
  PROVE  /\ ~dropped' => InStep'
         /\ dropped' => /\ InPacket /\ Current.body > 0
                        /\ arrived = BodyAt(Current)
<1>1. /\ Types /\ Stream /\ InStep
      /\ taken \in Nat /\ arrived \in Nat /\ want \in Nat /\ taken <= arrived
      /\ HeaderSize \in Nat /\ HeaderSize > 0
  BY RecvAssumption DEF RecvInv, Types, TypeOK
<1>2. /\ Len(queue) \in Nat /\ Len(stream) \in Nat /\ StreamEnd \in Nat
      /\ InPacket => /\ Current.at \in Nat /\ Current.body \in Nat
                     /\ BodyAt(Current) \in Nat /\ EndOf(Current) \in Nat
      /\ InPacket => EndOf(Current) = BodyAt(Current) + Current.body
      /\ InPacket => BodyAt(Current) = Current.at + HeaderSize
  BY <1>1, StreamTypes DEF InPacket, Current, EndOf, BodyAt
<1>3. UNCHANGED <<stream, arrived, closed>>
  BY ThreadLeaves
<1>4. CASE Stop \/ Exit
  <2>1. UNCHANGED <<taken, want, start, size, queue, dropped>> /\ (pc' = pc \/ (pc = "poll" /\ pc' = "exited"))
    BY <1>4 DEF Stop, Exit, readVars
  <2> QED
    BY <1>1, <1>3, <2>1 DEF InStep, QueueIsPrefix, Between, InHeader, AtBody,
       InBody, InPacket, Current, Offset, StreamEnd, BodyAt, EndOf
<1>5. CASE PollHeader
  <2>1. /\ pc = "poll" /\ arrived > taken /\ pc' = "header"
        /\ want' = HeaderSize /\ start' = taken
        /\ UNCHANGED <<taken, queue, dropped>>
    BY <1>5 DEF PollHeader
  <2>2. taken = Offset(Len(queue))
    BY <1>1, <2>1 DEF InStep, Between
  <2>3. Len(queue) < Len(stream)
    BY <1>1, <1>2, <2>1, <2>2 DEF Offset, Stream
  <2>4. InHeader'
    BY <1>1, <1>3, <2>1, <2>2, <2>3 DEF InHeader, InPacket, Current, Offset, BodyAt
  <2>5. QueueIsPrefix'
    BY <1>1, <1>3, <2>1 DEF InStep, QueueIsPrefix
  <2> QED BY <2>1, <2>4, <2>5 DEF InStep
<1>6. ASSUME NEW n \in 1..HeaderSize, HeaderPart(n)
      PROVE  InStep' /\ ~dropped'
  <2>1. /\ pc = "header" /\ n < want /\ taken' = taken + n /\ want' = want - n
        /\ UNCHANGED <<pc, start, size, queue, dropped>>
    BY <1>6 DEF HeaderPart, RecvBytes
  <2>2. InHeader
    BY <1>1, <2>1 DEF InStep
  <2>3. InHeader'
    BY <1>1, <1>2, <1>3, <2>1, <2>2 DEF InHeader, InPacket, Current, BodyAt
  <2>4. QueueIsPrefix'
    BY <1>1, <1>3, <2>1 DEF InStep, QueueIsPrefix
  <2> QED BY <2>1, <2>3, <2>4 DEF InStep
<1>7. ASSUME NEW d \in Announced(start), HeaderDone(d)
      PROVE  InStep' /\ ~dropped'
  <2>1. /\ pc = "header" /\ taken' = taken + want /\ size' = d
        /\ UNCHANGED <<start, dropped>>
    BY <1>7 DEF HeaderDone
  <2>2. InHeader /\ InPacket
    BY <1>1, <2>1 DEF InStep, InHeader
  <2>3. d = Current.body
    BY <1>1, <2>2, AnnouncedIsBody
  <2>4. taken' = BodyAt(Current)
    BY <2>1, <2>2 DEF InHeader
  <2>5. CASE d = 0
    <3>1. /\ queue' = Append(queue, [at |-> start, body |-> Current.body])
          /\ pc' = "poll"
      BY <1>7, <2>3, <2>5 DEF HeaderDone, Enqueue
    <3>2. QueueIsPrefix' /\ Offset(Len(queue))' = EndOf(Current)
      BY <1>1, <1>3, <2>2, <3>1, EnqueueStep
    <3>3. taken' = EndOf(Current)
      BY <1>2, <2>2, <2>3, <2>4, <2>5
    <3> QED BY <2>1, <3>1, <3>2, <3>3 DEF InStep, Between
  <2>6. CASE d > 0
    <3>1. pc' = "bodyPoll" /\ want' = d /\ UNCHANGED queue
      BY <1>2, <1>7, <2>2, <2>3, <2>6 DEF HeaderDone
    <3>2. AtBody'
      BY <1>3, <2>1, <2>2, <2>3, <2>4, <2>6, <3>1
         DEF AtBody, InPacket, Current, BodyAt
    <3>3. QueueIsPrefix'
      BY <1>1, <1>3, <3>1 DEF InStep, QueueIsPrefix
    <3> QED BY <2>1, <3>1, <3>2, <3>3 DEF InStep
  <2> QED BY <1>2, <2>2, <2>3, <2>5, <2>6
<1>8. CASE PollBody
  <2>1. /\ pc = "bodyPoll" /\ pc' = "body"
        /\ UNCHANGED <<taken, want, start, size, queue, dropped>>
    BY <1>8 DEF PollBody, readVars
  <2>2. AtBody
    BY <1>1, <2>1 DEF InStep
  <2>3. InBody'
    BY <1>2, <1>3, <2>1, <2>2 DEF AtBody, InBody, InPacket, Current, EndOf, BodyAt
  <2>4. QueueIsPrefix'
    BY <1>1, <1>3, <2>1 DEF InStep, QueueIsPrefix
  <2> QED BY <2>1, <2>3, <2>4 DEF InStep
<1>9. CASE DropHeader
  <2>1. pc = "bodyPoll" /\ arrived = taken /\ dropped'
    BY <1>9 DEF DropHeader
  <2>2. AtBody
    BY <1>1, <2>1 DEF InStep
  <2> QED BY <2>1, <2>2 DEF AtBody
<1>10. ASSUME NEW n \in 1..want, BodyPart(n)
       PROVE  InStep' /\ ~dropped'
  <2>1. /\ pc = "body" /\ taken' = taken + n /\ want' = want - n
        /\ n <= want /\ UNCHANGED <<start, size, dropped>>
    BY <1>1, <1>10 DEF BodyPart, RecvBytes
  <2>2. InBody /\ InPacket
    BY <1>1, <2>1 DEF InStep, InBody
  <2>3. CASE n < want
    <3>1. UNCHANGED <<pc, queue>>
      BY <1>10, <2>3 DEF BodyPart
    <3>2. InBody'
      BY <1>1, <1>2, <1>3, <2>1, <2>2, <2>3, <3>1
         DEF InBody, InPacket, Current, EndOf, BodyAt
    <3>3. QueueIsPrefix'
      BY <1>1, <1>3, <3>1 DEF InStep, QueueIsPrefix
    <3> QED BY <2>1, <3>1, <3>2, <3>3 DEF InStep
  <2>4. CASE n = want
    <3>1. /\ queue' = Append(queue, [at |-> start, body |-> Current.body])
          /\ pc' = "poll"
      BY <1>1, <1>10, <2>2, <2>4 DEF BodyPart, Enqueue, InBody
    <3>2. QueueIsPrefix' /\ Offset(Len(queue))' = EndOf(Current)
      BY <1>1, <1>3, <2>2, <3>1, EnqueueStep
    <3>3. taken' = EndOf(Current)
      BY <2>1, <2>2, <2>4 DEF InBody
    <3> QED BY <2>1, <3>1, <3>2, <3>3 DEF InStep, Between
  <2> QED BY <1>1, <2>1, <2>3, <2>4
<1>11. CASE RecvFails
  <2>1. /\ closed /\ arrived = taken /\ pc' = "poll"
        /\ UNCHANGED <<taken, queue, dropped>>
    BY <1>11 DEF RecvFails
  <2>2. QueueIsPrefix'
    BY <1>1, <1>3, <2>1 DEF InStep, QueueIsPrefix
  <2> QED BY <1>3, <2>1, <2>2 DEF InStep, Between
<1> QED
  BY <1>4, <1>5, <1>6, <1>7, <1>8, <1>9, <1>10, <1>11 DEF Thread

-----------------------------------------------------------------------------
(* The inductive invariant *)

(* The thread begins at the start of an empty stream. *)
LEMMA RecvInit == Init => RecvInv
<1> SUFFICES ASSUME Init PROVE RecvInv
  OBVIOUS
<1>1. stream = <<>> /\ queue = <<>> /\ Len(stream) = 0 /\ Len(queue) = 0
  BY EmptySeq DEF Init
<1>2. Types
  <2>1. <<>> \in Seq(Packets) /\ <<>> \in Seq([at : Nat, body : Nat])
    BY EmptySeq
  <2>2. 0 \in 0..0 /\ 0 \in Nat /\ 0 \in Int
    OBVIOUS
  <2> QED BY <2>1, <2>2 DEF Init, Types, TypeOK
<1>3. StreamEnd = 0 /\ Offset(0) = 0
  BY <1>1 DEF StreamEnd, Offset
<1>4. Stream
  BY <1>1, <1>3 DEF Init, Stream, Contiguous
<1>5. QueueIsPrefix
  BY <1>1 DEF QueueIsPrefix
<1>6. InStep
  BY <1>1, <1>3, <1>5 DEF Init, InStep, Between
<1> QED BY <1>2, <1>4, <1>6 DEF Init, RecvInv

(* Every step keeps the thread where the invariant says. *)
LEMMA RecvStep == RecvInv /\ [Next]_vars => RecvInv'
<1> SUFFICES ASSUME RecvInv, [Next]_vars PROVE RecvInv'
  OBVIOUS
<1>1. CASE Network
  BY <1>1, WriteStep, NetworkStep DEF Network
<1>2. CASE Thread \/ Stop
  <2>1. Types' /\ Stream'
    BY <1>2, ThreadTypes, ThreadLeaves
  <2>2. dropped => dropped'
    BY <1>2 DEF Thread, Stop, Exit, PollHeader, PollBody, DropHeader, RecvFails,
                HeaderPart, HeaderDone, BodyPart
  <2>3. CASE dropped
    BY <2>1, <2>2, <2>3 DEF RecvInv
  <2>4. CASE ~dropped
    BY <1>2, <2>1, <2>4, ThreadInStep DEF RecvInv
  <2> QED BY <2>3, <2>4
<1>3. CASE UNCHANGED vars
  <2>1. UNCHANGED <<stream, arrived, closed, running, pc, taken, want, start,
                    size, queue, dropped>>
    BY <1>3 DEF vars, netVars, readVars
  <2> QED
    BY <2>1 DEF RecvInv, Types, TypeOK, Stream, Contiguous, StreamEnd,
       InStep, QueueIsPrefix, Between, InHeader, AtBody, InBody, InPacket,
       Current, Offset, BodyAt, EndOf
<1> QED BY <1>1, <1>2, <1>3 DEF Next

(* Every variable keeps its type, however the bytes are split. *)
THEOREM RecvTypeCorrect == Spec => []TypeOK
<1>1. RecvInv => TypeOK BY DEF RecvInv, Types
<1> QED BY RecvInit, RecvStep, <1>1, PTL DEF Spec

(* A thread in step reads its headers where the server put them. *)
LEMMA InStepReadsHeaders ==
  ASSUME RecvInv, ~dropped PROVE QueueIsPrefix /\ HeaderAtPacketStart
<1>1. QueueIsPrefix /\ InStep
  BY DEF RecvInv, InStep
<1>2. ASSUME pc \in {"header", "bodyPoll", "body"} PROVE InPacket
  BY <1>1, <1>2 DEF InStep, InHeader, AtBody, InBody
<1>3. ASSUME InPacket PROVE \E k \in DOMAIN stream : stream[k].at = start
  <2>1. Len(queue) + 1 \in DOMAIN stream
    BY <1>3, StreamTypes DEF RecvInv, Types, TypeOK, InPacket
  <2> QED BY <1>3, <2>1 DEF InPacket, Current
<1> QED BY <1>1, <1>2, <1>3 DEF HeaderAtPacketStart

(* Until a header is dropped the queue is a prefix of the stream and every *)
(* header read is a header, however the network splits the bytes.          *)
THEOREM AlwaysInStepUntilDropped == Spec => []InStepUntilDropped
<1>1. RecvInv => InStepUntilDropped
  BY InStepReadsHeaders DEF InStepUntilDropped
<1> QED BY RecvInit, RecvStep, <1>1, PTL DEF Spec

(* The only step that loses the stream is a HasPendingData test that finds *)
(* all deliveries ending between a header and its body.                    *)
THEOREM DropsOnlyAtSplits == Spec => DropOnlyAtSplit
<1>1. ASSUME RecvInv, [Next]_vars, dropped', ~dropped
      PROVE  \E k \in DOMAIN stream :
               /\ k = Len(queue) + 1 /\ stream[k].body > 0
               /\ arrived = BodyAt(stream[k])
  <2>1. ~ Network /\ ~ UNCHANGED vars
    BY <1>1 DEF Network, ServerWrite, BytesArrive, ConnectionEnds, vars
  <2>2. InPacket /\ Current.body > 0 /\ arrived = BodyAt(Current)
    BY <1>1, <2>1, ThreadInStep DEF Next
  <2>3. Len(queue) + 1 \in DOMAIN stream
    BY <1>1, <2>2, StreamTypes DEF RecvInv, Types, TypeOK, InPacket
  <2> QED BY <2>2, <2>3 DEF Current
<1>2. RecvInv /\ [Next]_vars =>
        (dropped' /\ ~dropped =>
           \E k \in DOMAIN stream :
             /\ k = Len(queue) + 1 /\ stream[k].body > 0
             /\ arrived = BodyAt(stream[k]))
  BY <1>1
<1> QED BY RecvInit, RecvStep, <1>2, PTL DEF Spec, DropOnlyAtSplit

-----------------------------------------------------------------------------
(* Refinement *)

(* A step of a thread in step delivers the next packet or none.            *)
LEMMA ChannelStep ==
  ASSUME ~dropped', RecvInv, RecvInv', [Next]_vars
  PROVE  [Channel!Next]_<<stream, queue>>
<1>1. /\ ~dropped' /\ InStep' /\ Types /\ Types'
  BY DEF RecvInv
<1>2. ASSUME NEW b \in BodySize, ServerWrite(b) PROVE Channel!Write
  <2>1. /\ stream' = Append(stream, [at |-> StreamEnd, body |-> b])
        /\ UNCHANGED queue
    BY <1>2 DEF ServerWrite
  <2>2. stream \in Seq(Packets) /\ [at |-> StreamEnd, body |-> b] \in Packets
    BY <1>1, StreamTypes DEF Packets, Types, TypeOK
  <2>3. /\ Len(stream') = Len(stream) + 1
        /\ stream'[Len(stream')] = [at |-> StreamEnd, body |-> b]
    BY <2>1, <2>2, AppendProperties
  <2> QED BY <2>1, <2>2, <2>3 DEF Channel!Write
<1>3. ASSUME UNCHANGED stream, NEW r \in [at : Nat, body : Nat],
             queue' = Append(queue, r)
      PROVE  Channel!Deliver
  <2>1. queue \in Seq([at : Nat, body : Nat])
    BY <1>1 DEF Types, TypeOK
  <2>2. /\ Len(queue') = Len(queue) + 1 /\ queue'[Len(queue) + 1] = r
        /\ DOMAIN queue' = 1..(Len(queue) + 1) /\ Len(queue) \in Nat
    BY <1>3, <2>1, AppendProperties, LenProperties
  <2>3. /\ Len(queue') <= Len(stream)
        /\ \A k \in DOMAIN queue' : queue'[k] = stream[k]
    BY <1>1, <1>3 DEF InStep, QueueIsPrefix
  <2>4. r = stream[Len(queue) + 1] /\ Len(queue) < Len(stream)
    BY <1>1, <2>2, <2>3, StreamTypes
  <2> QED BY <1>3, <2>4 DEF Channel!Deliver
<1>4. ASSUME Thread \/ Stop
      PROVE  /\ UNCHANGED stream
             /\ \/ UNCHANGED queue
                \/ \E r \in [at : Nat, body : Nat] : queue' = Append(queue, r)
  <2>1. UNCHANGED stream
    BY <1>4, ThreadLeaves
  <2>2. ASSUME NEW d \in Announced(start), HeaderDone(d)
        PROVE  \/ UNCHANGED queue
               \/ queue' = Append(queue, [at |-> start, body |-> 0])
    BY <2>2 DEF HeaderDone, Enqueue
  <2>3. ASSUME NEW n \in 1..want, BodyPart(n)
        PROVE  \/ UNCHANGED queue
               \/ queue' = Append(queue, [at |-> start, body |-> size])
                  /\ size \in Nat
    BY <1>1, <2>3 DEF BodyPart, Enqueue, Types
  <2>4. start \in Nat
    BY <1>1 DEF Types, TypeOK
  <2>5. ASSUME Thread \/ Stop,
               ~ \E d \in Announced(start) : HeaderDone(d),
               ~ \E n \in 1..want : BodyPart(n)
        PROVE  UNCHANGED queue
    BY <2>5 DEF Thread, Stop, Exit, PollHeader, PollBody, DropHeader, RecvFails,
                HeaderPart, readVars
  <2> QED BY <1>4, <2>1, <2>2, <2>3, <2>4, <2>5
<1>5. (\E n \in 1..StreamEnd : BytesArrive(n)) \/ ConnectionEnds \/ UNCHANGED vars
        => UNCHANGED <<stream, queue>>
  BY DEF BytesArrive, ConnectionEnds, vars, netVars
<1> QED BY <1>2, <1>3, <1>4, <1>5 DEF Next, Network, Channel!Next

(* Until a header is dropped, the receive path implements the channel.     *)
THEOREM ReceiveImplementsChannel == Spec => ChannelUntilDropped
<1>1. Init => Channel!Init
  BY DEF Init, Channel!Init
<1>2. RecvInv /\ RecvInv' /\ [Next]_vars
        => [~dropped' => Channel!Next]_<<stream, queue>>
  BY ChannelStep
<1> QED
  BY RecvInit, RecvStep, <1>1, <1>2, PTL DEF Spec, ChannelUntilDropped

-----------------------------------------------------------------------------
(* What the thread cannot do *)

(* The thread has not asked for more than the packet it is in.             *)
StaysInPacket ==
  ~dropped /\ pc \in {"header", "bodyPoll", "body"} =>
    /\ Len(queue) < Len(stream)
    /\ taken + want <= EndOf(stream[Len(queue) + 1])

(* Until a header is dropped, RecvDesiredBytes never asks the socket for a *)
(* byte of the packet after the one it is in, so nothing is left to keep   *)
(* between two calls of RecvPacket.                                        *)
THEOREM NeverReadsFurther == Spec => []StaysInPacket
<1>1. ASSUME RecvInv, ~dropped, pc \in {"header", "bodyPoll", "body"}
      PROVE  /\ Len(queue) < Len(stream)
             /\ taken + want <= EndOf(stream[Len(queue) + 1])
  <2>1. /\ InStep /\ Types /\ InPacket
        /\ taken \in Nat /\ want \in Nat
    BY <1>1 DEF RecvInv, InStep, InHeader, AtBody, InBody, Types, TypeOK
  <2>2. Len(queue) + 1 \in 1..Len(stream)
    BY <2>1, StreamTypes DEF InPacket
  <2>3. /\ Current.body \in Nat /\ EndOf(Current) \in Nat
        /\ EndOf(Current) = BodyAt(Current) + Current.body
        /\ BodyAt(Current) \in Nat
    BY <2>1, <2>2, StreamTypes DEF Current, EndOf
  <2>4. taken + want <= EndOf(Current)
    BY <1>1, <2>1, <2>3 DEF InStep, InHeader, AtBody, InBody
  <2> QED BY <2>1, <2>4 DEF InPacket, Current
<1>2. RecvInv => StaysInPacket
  BY <1>1 DEF StaysInPacket
<1> QED BY RecvInit, RecvStep, <1>2, PTL DEF Spec

(* The body size that takes the process down (AddZeroed of a negative      *)
(* DataSize, NetworkWorker.cpp:69) is only ever read from bytes that are   *)
(* no header: a header must have been dropped before.                      *)
THEOREM CrashesOnlyAfterDrop == Spec => [](pc = "crashed" => dropped)
<1>1. RecvInv => (pc = "crashed" => dropped)
  BY DEF RecvInv, InStep
<1> QED BY RecvInit, RecvStep, <1>1, PTL DEF Spec

-----------------------------------------------------------------------------
(* How the thread gets on *)

(* One for each place where the thread looks for pending data, and nothing *)
(* for the reads that follow.                                              *)
Look == IF pc \in {"poll", "bodyPoll"} THEN 1 ELSE 0

(* What a stopped thread has still to do: the rest of its packet, and its  *)
(* way out of the loop.                                                    *)
PacketLeft ==
  IF pc = "exited" THEN 0
  ELSE IF pc = "poll" THEN 1
  ELSE 2 + 2 * (EndOf(Current) - taken) + Look

(* What it has still to do before packet k is queued.                      *)
StreamLeft(k) == 2 * (EndOf(stream[k]) - taken) + Look

(* A step of a thread in step reads on, starts to read, or is done with a  *)
(* packet.                                                                 *)
LEMMA ThreadAdvances ==
  ASSUME RecvInv, ~dropped, ~dropped', Thread
  PROVE  /\ UNCHANGED <<stream, running, closed, arrived>>
         /\ \/ /\ pc = "poll" /\ ~running /\ pc' = "exited"
               /\ UNCHANGED <<taken, queue>>
            \/ /\ pc = "poll" /\ running /\ pc' = "header"
               /\ UNCHANGED <<taken, queue>>
            \/ /\ pc = "bodyPoll" /\ pc' = "body"
               /\ UNCHANGED <<taken, queue>>
            \/ /\ pc \in {"header", "body"} /\ pc' \in {"header", "bodyPoll", "body"}
               /\ taken' > taken /\ UNCHANGED queue
            \/ /\ pc \in {"header", "body"} /\ pc' = "poll"
               /\ taken' > taken
            \/ /\ pc \in {"header", "body"} /\ pc' = "poll" /\ closed
               /\ UNCHANGED <<taken, queue>>
<1>1. /\ UNCHANGED <<stream, arrived, closed>>
      /\ taken \in Nat /\ want \in Nat /\ HeaderSize \in Nat
      /\ pc' # "crashed"
  BY ThreadLeaves, ThreadInStep, RecvAssumption DEF RecvInv, Types, TypeOK, InStep
<1>2. UNCHANGED running
  BY DEF Thread, Exit, PollHeader, PollBody, DropHeader, RecvFails, HeaderPart,
         HeaderDone, BodyPart
<1>3. CASE Exit \/ PollHeader \/ PollBody \/ DropHeader \/ RecvFails
  BY <1>1, <1>2, <1>3 DEF Exit, PollHeader, PollBody, DropHeader, RecvFails, readVars
<1>4. ASSUME NEW n \in 1..HeaderSize, HeaderPart(n)
      PROVE  /\ pc = "header" /\ pc' = "header"
             /\ taken' > taken /\ UNCHANGED queue
  BY <1>1, <1>4 DEF HeaderPart, RecvBytes
<1>5. ASSUME NEW d \in Announced(start), HeaderDone(d)
      PROVE  /\ pc = "header" /\ taken' > taken
             /\ pc' = "poll" \/ (pc' = "bodyPoll" /\ UNCHANGED queue)
  <2>1. pc = "header" /\ taken' = taken + want /\ want >= 1
    <3>1. want \in 1..(arrived - taken)
      BY <1>5 DEF HeaderDone
    <3> QED BY <1>1, <1>5, <3>1 DEF HeaderDone
  <2> QED BY <1>1, <1>5, <2>1 DEF HeaderDone, Enqueue
<1>6. ASSUME NEW n \in 1..want, BodyPart(n)
      PROVE  /\ pc = "body" /\ taken' > taken
             /\ pc' = "poll" \/ (pc' = "body" /\ UNCHANGED queue)
  BY <1>1, <1>6 DEF BodyPart, RecvBytes, Enqueue
<1> QED BY <1>1, <1>2, <1>3, <1>4, <1>5, <1>6 DEF Thread

(* Steps of the others move no thread, and take nothing from it.           *)
LEMMA OthersLeave ==
  ASSUME RecvInv, [Next]_vars, ~Thread
  PROVE  /\ UNCHANGED <<pc, taken, queue, dropped>>
         /\ running' => running
         /\ closed => closed'
         /\ arrived' >= arrived
         /\ Len(stream') >= Len(stream)
         /\ \A j \in 1..Len(stream) : stream'[j] = stream[j]
<1>1. Types /\ Stream /\ arrived \in Nat /\ Len(stream) \in Nat
  BY StreamTypes DEF RecvInv, Types, TypeOK
<1>2. ASSUME NEW b \in BodySize, ServerWrite(b)
      PROVE  /\ UNCHANGED <<pc, taken, queue, dropped, running, closed, arrived>>
             /\ Len(stream') >= Len(stream)
             /\ \A j \in 1..Len(stream) : stream'[j] = stream[j]
  BY <1>1, <1>2, WriteAppends DEF ServerWrite, readVars
<1>3. ASSUME NEW n \in 1..StreamEnd, BytesArrive(n)
      PROVE  /\ UNCHANGED <<pc, taken, queue, dropped, running, closed, stream>>
             /\ arrived' >= arrived
  <2>1. n \in Int
    BY <1>1, StreamTypes
  <2> QED BY <1>1, <1>3, <2>1 DEF BytesArrive, readVars
<1>4. CASE ConnectionEnds \/ Stop
  BY <1>1, <1>4 DEF ConnectionEnds, Stop, readVars, netVars
<1>5. CASE UNCHANGED vars
  BY <1>1, <1>5 DEF vars, readVars, netVars
<1> QED BY <1>1, <1>2, <1>3, <1>4, <1>5 DEF Next, Network

(* A header dropped stays dropped. *)
LEMMA DropsLast == ASSUME RecvInv, [Next]_vars, dropped PROVE dropped'
<1>1. CASE Thread
  BY <1>1 DEF Thread, Exit, PollHeader, PollBody, DropHeader, RecvFails, HeaderPart,
              HeaderDone, BodyPart
<1>2. CASE ~Thread
  BY <1>2, OthersLeave
<1> QED BY <1>1, <1>2

(* A thread inside a packet has some of it still to read.                  *)
LEMMA LeftTypes ==
  ASSUME RecvInv, ~dropped
  PROVE  /\ PacketLeft \in Nat
         /\ pc \in {"header", "bodyPoll", "body"}
              => InPacket /\ EndOf(Current) \in Nat /\ taken < EndOf(Current)
         /\ PacketLeft = 0 <=> pc = "exited"
<1>1. /\ Types /\ InStep /\ taken \in Nat /\ want \in Nat
      /\ pc \in {"poll", "header", "bodyPoll", "body", "exited"}
  BY DEF RecvInv, Types, TypeOK, InStep
<1>2. ASSUME pc \in {"header", "bodyPoll", "body"}
      PROVE  InPacket /\ EndOf(Current) \in Nat /\ taken < EndOf(Current)
  <2>1. InPacket
    BY <1>1, <1>2 DEF InStep, InHeader, AtBody, InBody
  <2>2. Len(queue) + 1 \in 1..Len(stream)
    BY <1>1, <2>1, StreamTypes DEF InPacket
  <2>3. /\ Current.body \in Nat /\ EndOf(Current) \in Nat
        /\ EndOf(Current) = BodyAt(Current) + Current.body
        /\ BodyAt(Current) \in Nat
    BY <1>1, <2>2, StreamTypes DEF Current, EndOf
  <2> QED BY <1>1, <1>2, <2>1, <2>3 DEF InStep, InHeader, AtBody, InBody
<1> QED BY <1>1, <1>2 DEF PacketLeft, Look

(* A stopped thread is nearer to its exit after every step it takes, and   *)
(* no farther after anybody else's.                                        *)
LEMMA PacketRuns ==
  ASSUME RecvInv, ~dropped', ~running, [Next]_vars
  PROVE  /\ Thread => PacketLeft' < PacketLeft
         /\ ~Thread => PacketLeft' = PacketLeft
<1>1. ~dropped /\ RecvInv'
  BY DropsLast, RecvStep
<1>2. taken \in Nat /\ taken' \in Nat
  BY <1>1 DEF RecvInv, Types, TypeOK
<1>3. CASE Thread
  <2>1. pc' \in {"header", "bodyPoll", "body"} /\ UNCHANGED <<stream, queue>>
          => EndOf(Current)' = EndOf(Current)
    BY DEF Current, EndOf, BodyAt
  <2>2. pc \in {"header", "bodyPoll", "body"}
          => EndOf(Current) \in Nat /\ taken < EndOf(Current)
    BY <1>1, LeftTypes
  <2>3. CASE pc \notin {"header", "bodyPoll", "body"}
    BY <1>1, <1>3, <2>3, ThreadAdvances DEF PacketLeft
  <2>4. CASE pc \in {"header", "bodyPoll", "body"} /\ pc' = "poll"
    <3>1. PacketLeft' = 1
      BY <2>4 DEF PacketLeft
    <3>2. PacketLeft = 2 + 2 * (EndOf(Current) - taken) + Look
      BY <2>4 DEF PacketLeft
    <3>3. Look \in 0..1
      BY DEF Look
    <3>4. \A e, t \in Nat : \A k \in 0..1 : t < e => 1 < 2 + 2 * (e - t) + k
      OBVIOUS
    <3> QED BY <1>3, <1>2, <2>2, <2>4, <3>1, <3>2, <3>3, <3>4, Zenon
  <2>5. CASE pc \in {"header", "bodyPoll", "body"}
             /\ pc' \in {"header", "bodyPoll", "body"}
    <3>1. /\ UNCHANGED <<stream, queue>>
          /\ taken' > taken \/ (taken' = taken /\ pc = "bodyPoll" /\ pc' = "body")
      BY <1>1, <1>3, <2>5, ThreadAdvances
    <3>2. EndOf(Current)' = EndOf(Current)
      BY <2>1, <2>5, <3>1
    <3>3. PacketLeft = 2 + 2 * (EndOf(Current) - taken) + Look
      BY <2>5 DEF PacketLeft
    <3>4. PacketLeft' = 2 + 2 * (EndOf(Current) - taken') + Look'
      BY <2>5, <3>2 DEF PacketLeft
    <3>5. Look \in 0..1 /\ Look' \in 0..1
          /\ (pc = "bodyPoll" /\ pc' = "body" => Look = 1 /\ Look' = 0)
      BY DEF Look
    <3>6. \A e \in Nat : \A a, b \in Nat : \A k, l \in 0..1 :
            b > a \/ (b = a /\ k = 1 /\ l = 0)
              => 2 + 2 * (e - b) + l < 2 + 2 * (e - a) + k
      OBVIOUS
    <3>7. 2 + 2 * (EndOf(Current) - taken') + Look'
            < 2 + 2 * (EndOf(Current) - taken) + Look
      <4>1. CASE taken' > taken
        BY <1>2, <2>2, <2>5, <3>5, <3>6, <4>1, Zenon
      <4>2. CASE taken' = taken /\ pc = "bodyPoll" /\ pc' = "body"
        BY <1>2, <2>2, <2>5, <3>5, <3>6, <4>2, Zenon
      <4> QED BY <3>1, <4>1, <4>2
    <3> QED BY <1>3, <3>3, <3>4, <3>7, Zenon
  <2> QED BY <1>1, <1>3, <2>3, <2>4, <2>5, ThreadAdvances
<1>4. CASE ~Thread
  <2>1. /\ UNCHANGED <<pc, taken, queue>>
        /\ \A j \in 1..Len(stream) : stream'[j] = stream[j]
    BY <1>4, OthersLeave
  <2>2. pc \in {"header", "bodyPoll", "body"} => Len(queue) + 1 \in 1..Len(stream)
    BY <1>1, LeftTypes, StreamTypes DEF RecvInv, InPacket
  <2>3. pc \in {"header", "bodyPoll", "body"} => EndOf(Current)' = EndOf(Current)
    BY <2>1, <2>2 DEF Current, EndOf, BodyAt
  <2>4. pc \in {"poll", "header", "bodyPoll", "body", "exited"}
    BY <1>1 DEF RecvInv, Types, TypeOK, InStep
  <2>5. Look' = Look
    BY <2>1 DEF Look
  <2>6. CASE pc \in {"poll", "exited"}
    BY <1>4, <2>1, <2>6 DEF PacketLeft
  <2>7. CASE pc \in {"header", "bodyPoll", "body"}
    <3>1. PacketLeft = 2 + 2 * (EndOf(Current) - taken) + Look
      BY <2>7 DEF PacketLeft
    <3>2. PacketLeft' = 2 + 2 * (EndOf(Current)' - taken') + Look'
      BY <2>1, <2>7 DEF PacketLeft
    <3> QED BY <1>4, <2>1, <2>3, <2>5, <2>7, <3>1, <3>2, Zenon
  <2> QED BY <1>4, <2>4, <2>6, <2>7
<1> QED BY <1>3, <1>4

(* What EveryPacketQueued waits for. *)
Settled(k) == Len(queue) >= k \/ closed \/ ~running \/ dropped

Awaits(k) == Len(stream) >= k /\ ~Settled(k)

(* A packet that is waited for ends behind what the thread has read.       *)
LEMMA AwaitedAhead ==
  ASSUME RecvInv, NEW k \in Nat \ {0}, Awaits(k)
  PROVE  /\ EndOf(stream[k]) \in Nat /\ taken <= EndOf(stream[k])
         /\ Len(queue) < Len(stream)
         /\ StreamLeft(k) \in Nat
<1>1. /\ Types /\ Stream /\ InStep /\ taken \in Nat /\ want \in Nat
      /\ Len(queue) \in Nat /\ Len(stream) \in Nat
      /\ Len(queue) < k /\ k <= Len(stream) /\ ~closed
  BY StreamTypes DEF RecvInv, Awaits, Settled, Types, TypeOK
<1>2. /\ k \in 1..Len(stream) /\ Len(queue) + 1 \in 1..Len(stream)
      /\ Len(queue) < Len(stream)
  BY <1>1
<1>3. /\ EndOf(stream[k]) \in Nat /\ stream[k].at \in Nat
      /\ stream[k].at <= EndOf(stream[k])
      /\ EndOf(Current) \in Nat /\ Current.at \in Nat /\ BodyAt(Current) \in Nat
      /\ Current.at <= EndOf(Current) /\ BodyAt(Current) <= EndOf(Current)
  <2>1. \A j \in 1..Len(stream) :
          /\ EndOf(stream[j]) \in Nat /\ stream[j].at \in Nat
          /\ stream[j].at <= EndOf(stream[j])
          /\ BodyAt(stream[j]) \in Nat /\ BodyAt(stream[j]) <= EndOf(stream[j])
    BY <1>1, StreamTypes, RecvAssumption DEF EndOf, BodyAt
  <2> QED BY <1>2, <2>1 DEF Current
<1>4. EndOf(Current) <= EndOf(stream[k])
  <2>1. CASE k = Len(queue) + 1
    BY <1>3, <2>1 DEF Current
  <2>2. CASE k # Len(queue) + 1
    <3>1. Len(queue) + 1 \in 1..(k - 1)
      BY <1>1, <2>2
    <3>2. EndOf(stream[Len(queue) + 1]) <= stream[k].at
      BY <1>1, <1>2, <3>1 DEF Stream, Contiguous
    <3> QED BY <1>3, <3>2 DEF Current
  <2> QED BY <2>1, <2>2
<1>5. taken <= EndOf(Current)
  <2>1. CASE pc \in {"poll", "exited"}
    BY <1>1, <1>2, <1>3, <2>1, Zenon DEF InStep, Between, Offset, Current
  <2>2. CASE pc \in {"header", "bodyPoll", "body"}
    BY <1>1, <1>3, <2>2, LeftTypes DEF Awaits, Settled
  <2> QED BY <1>1, <2>1, <2>2 DEF InStep, Types, TypeOK
<1>6. taken <= EndOf(stream[k])
  BY <1>1, <1>3, <1>4, <1>5
<1> QED BY <1>1, <1>2, <1>3, <1>6 DEF StreamLeft, Look

(* Every step of the thread brings a packet waited for nearer to the       *)
(* queue, and no other step moves it away.                                 *)
LEMMA StreamRuns ==
  ASSUME RecvInv, [Next]_vars, NEW k \in Nat \ {0}, Awaits(k), Awaits(k)'
  PROVE  /\ Thread => StreamLeft(k)' < StreamLeft(k)
         /\ ~Thread => StreamLeft(k)' = StreamLeft(k)
<1>1. /\ RecvInv' /\ ~dropped /\ ~dropped' /\ ~closed
      /\ k \in 1..Len(stream)
      /\ taken \in Nat /\ taken' \in Nat
  BY RecvStep, StreamTypes DEF Awaits, Settled, RecvInv, Types, TypeOK
<1>2. EndOf(stream[k])' = EndOf(stream[k])
  <2>1. stream'[k] = stream[k]
    BY <1>1, ThreadAdvances, OthersLeave
  <2> QED BY <2>1 DEF EndOf, BodyAt
<1>3. /\ StreamLeft(k) = 2 * (EndOf(stream[k]) - taken) + Look
      /\ StreamLeft(k)' = 2 * (EndOf(stream[k]) - taken') + Look'
  BY <1>2 DEF StreamLeft
<1>4. EndOf(stream[k]) \in Nat
  BY AwaitedAhead
<1>5. CASE Thread
  <2>1. /\ Look \in 0..1 /\ Look' \in 0..1
        /\ taken' > taken \/ (taken' = taken /\ Look = 1 /\ Look' = 0)
    <3>1. running
      BY DEF Awaits, Settled
    <3> QED BY <1>1, <1>5, <3>1, ThreadAdvances DEF Look
  <2>2. \A e \in Nat : \A a, b \in Nat : \A i, j \in 0..1 :
          b > a \/ (b = a /\ i = 1 /\ j = 0)
            => 2 * (e - b) + j < 2 * (e - a) + i
    OBVIOUS
  <2>3. 2 * (EndOf(stream[k]) - taken') + Look'
          < 2 * (EndOf(stream[k]) - taken) + Look
    <3>1. CASE taken' > taken
      BY <1>1, <1>4, <2>1, <2>2, <3>1, Zenon
    <3>2. CASE taken' = taken /\ Look = 1 /\ Look' = 0
      BY <1>1, <1>4, <2>1, <2>2, <3>2, Zenon
    <3> QED BY <2>1, <3>1, <3>2
  <2> QED BY <1>3, <1>5, <2>3, Zenon
<1>6. CASE ~Thread
  <2>1. taken' = taken /\ Look' = Look
    BY <1>6, OthersLeave DEF Look
  <2> QED BY <1>3, <1>6, <2>1, Zenon
<1> QED BY <1>5, <1>6

(* After Stop the thread does not read on: each of its steps leaves less   *)
(* of the one packet it is in, whatever arrives meanwhile.                 *)
THEOREM StoppedThreadRunsDown ==
  Spec => [][~running /\ ~dropped' =>
               /\ Thread => PacketLeft' < PacketLeft
               /\ ~Thread => PacketLeft' = PacketLeft]_vars
<1>1. RecvInv /\ [Next]_vars =>
        [~running /\ ~dropped' =>
           /\ Thread => PacketLeft' < PacketLeft
           /\ ~Thread => PacketLeft' = PacketLeft]_vars
  BY PacketRuns
<1> QED BY RecvInit, RecvStep, <1>1, PTL DEF Spec

(* While a packet is waited for, each step of the thread brings it nearer  *)
(* to the queue: RecvPacket never reads in vain, never twice, and never    *)
(* the wrong bytes.                                                        *)
THEOREM QueueRunsUp ==
  ASSUME NEW k \in Nat \ {0}
  PROVE  Spec => /\ [](Awaits(k) => StreamLeft(k) \in Nat)
                 /\ [][(Awaits(k) /\ Awaits(k)') =>
                         /\ Thread => StreamLeft(k)' < StreamLeft(k)
                         /\ ~Thread => StreamLeft(k)' = StreamLeft(k)]_vars
<1>1. RecvInv => (Awaits(k) => StreamLeft(k) \in Nat)
  BY AwaitedAhead
<1>2. RecvInv /\ [Next]_vars =>
        [(Awaits(k) /\ Awaits(k)') =>
           /\ Thread => StreamLeft(k)' < StreamLeft(k)
           /\ ~Thread => StreamLeft(k)' = StreamLeft(k)]_vars
  BY StreamRuns
<1> QED BY RecvInit, RecvStep, <1>1, <1>2, PTL DEF Spec

(* Where the thread has something to do, and where it needs another        *)
(* delivery.                                                               *)
Ready ==
  \/ pc = "bodyPoll"
  \/ pc = "poll" /\ ~running
  \/ pc \in {"poll", "header", "body"} /\ arrived > taken
  \/ pc \in {"header", "body"} /\ closed

Waiting == ~closed /\ arrived = taken /\ arrived < StreamEnd

(* A thread that is ready can take a step, and what the server has written *)
(* can arrive.                                                             *)
ThreadCanStep ==
  /\ Ready /\ ~dropped => ENABLED <<Thread>>_vars
  /\ Waiting => ENABLED <<\E n \in 1..StreamEnd : BytesArrive(n)>>_vars

(* Only a running thread polls. *)
ExitsStopped == pc = "exited" => ~running

LEMMA ExitStep == RecvInv /\ ExitsStopped /\ [Next]_vars => ExitsStopped'
<1> SUFFICES ASSUME RecvInv, ExitsStopped, [Next]_vars PROVE ExitsStopped'
  OBVIOUS
<1>1. CASE Thread
  <2>1. /\ UNCHANGED running
        /\ pc' = "exited" => Exit
    <3>1. ASSUME NEW n \in 1..HeaderSize, HeaderPart(n)
          PROVE  UNCHANGED running /\ pc' # "exited"
      BY <3>1 DEF HeaderPart
    <3>2. ASSUME NEW d \in Announced(start), HeaderDone(d)
          PROVE  UNCHANGED running /\ pc' # "exited"
      BY <3>2 DEF HeaderDone, Enqueue
    <3>3. ASSUME NEW n \in 1..want, BodyPart(n)
          PROVE  UNCHANGED running /\ pc' # "exited"
      BY <3>3 DEF BodyPart, Enqueue
    <3> QED BY <1>1, <3>1, <3>2, <3>3
            DEF Thread, Exit, PollHeader, PollBody, DropHeader, RecvFails
  <2> QED BY <2>1 DEF Exit, ExitsStopped
<1>2. CASE ~Thread
  BY <1>2, OthersLeave DEF ExitsStopped
<1> QED BY <1>1, <1>2

(* In step, the thread is ready, or there is more to arrive, unless it is  *)
(* done.                                                                   *)
LEMMA ReadyOrWaiting ==
  ASSUME RecvInv, ~dropped, pc # "exited",
         ~running \/ (~closed /\ Len(queue) < Len(stream))
  PROVE  Ready \/ Waiting
<1>1. /\ Types /\ Stream /\ InStep
      /\ taken \in Nat /\ arrived \in Nat /\ taken <= arrived
      /\ Len(queue) \in Nat /\ Len(stream) \in Nat /\ StreamEnd \in Nat
      /\ pc \in {"poll", "header", "bodyPoll", "body"}
  BY StreamTypes DEF RecvInv, Types, TypeOK, InStep
<1>2. Len(queue) < Len(stream) =>
        /\ Current.at \in Nat /\ EndOf(Current) \in Nat
        /\ Current.at < EndOf(Current) /\ EndOf(Current) <= StreamEnd
  <2> SUFFICES ASSUME Len(queue) < Len(stream)
               PROVE  /\ Current.at \in Nat /\ EndOf(Current) \in Nat
                      /\ Current.at < EndOf(Current) /\ EndOf(Current) <= StreamEnd
    OBVIOUS
  <2>1. Len(queue) + 1 \in 1..Len(stream)
    BY <1>1
  <2>2. \A j \in 1..Len(stream) :
          /\ stream[j].at \in Nat /\ EndOf(stream[j]) \in Nat
          /\ stream[j].at < EndOf(stream[j])
    BY <1>1, StreamTypes, RecvAssumption DEF EndOf, BodyAt
  <2> QED BY <1>1, <2>1, <2>2, EndBeforeStreamEnd DEF Current
<1>3. CASE pc \in {"header", "bodyPoll", "body"}
  <2>1. Len(queue) < Len(stream) /\ taken < EndOf(Current)
    BY <1>3, LeftTypes DEF InPacket
  <2> QED BY <1>1, <1>2, <1>3, <2>1 DEF Ready, Waiting
<1>4. CASE pc = "poll" /\ ~running
  BY <1>4 DEF Ready
<1>5. CASE pc = "poll" /\ ~closed /\ Len(queue) < Len(stream)
  <2>1. taken = Offset(Len(queue)) \/ (closed /\ arrived = taken)
    BY <1>1, <1>5 DEF InStep, Between
  <2>2. taken = Current.at
    BY <1>5, <2>1 DEF Offset, Current
  <2> QED BY <1>1, <1>2, <1>5, <2>2 DEF Ready, Waiting
<1> QED BY <1>1, <1>3, <1>4, <1>5

(* It stays ready until it takes a step, and a delivery makes it ready.    *)
LEMMA ReadyStays ==
  ASSUME RecvInv, [Next]_vars, ~Thread
  PROVE  /\ Ready => Ready'
         /\ pc \in {"poll", "header", "bodyPoll", "body"} /\ Waiting
              /\ (\E n \in 1..StreamEnd : BytesArrive(n))
              => Ready'
<1>1. /\ UNCHANGED <<pc, taken, queue, dropped>>
      /\ running' => running
      /\ closed => closed'
      /\ arrived' >= arrived
      /\ taken \in Nat /\ arrived \in Nat /\ arrived' \in Nat
  <2>1. RecvInv' BY RecvStep
  <2> QED BY <2>1, OthersLeave DEF RecvInv, Types, TypeOK
<1>2. Ready => Ready'
  BY <1>1 DEF Ready
<1>3. ASSUME NEW n \in 1..StreamEnd, BytesArrive(n), Waiting,
             pc \in {"poll", "header", "bodyPoll", "body"}
      PROVE  Ready'
  <2>1. arrived' > taken'
    BY <1>1, <1>3 DEF BytesArrive, Waiting
  <2> QED BY <1>1, <1>3, <2>1 DEF Ready
<1> QED BY <1>2, <1>3

LEMMA ReadyOrTaken == RecvInv /\ [Next]_vars /\ Ready => Ready' \/ <<Thread>>_vars
<1> SUFFICES ASSUME RecvInv, [Next]_vars, Ready PROVE Ready' \/ <<Thread>>_vars
  OBVIOUS
<1>1. CASE UNCHANGED vars
  BY <1>1 DEF vars, netVars, readVars, Ready
<1>2. CASE ~Thread
  BY <1>2, ReadyStays
<1> QED BY <1>1, <1>2

(* A stopped thread with so much left to do, and with less. *)
Stopping(m) == ~running /\ ~dropped /\ PacketLeft = m
Stopped(m)  == PacketLeft < m \/ dropped

(* After Stop the thread is on its way out of its loop, with less of its   *)
(* packet left to read again and again, if the connection delivers what    *)
(* was begun or ends: the step of the argument that StopEndsThread needs   *)
(* for every m.                                                            *)
THEOREM StoppedThreadGetsOn ==
  ASSUME NEW m \in Nat \ {0}
  PROVE  LiveSpec /\ []ThreadCanStep
           => (~running /\ PacketLeft = m ~> PacketLeft < m \/ dropped)
<1>1. RecvInv /\ [Next]_vars /\ Stopping(m) => Stopping(m)' \/ Stopped(m)'
  <2> SUFFICES ASSUME RecvInv, [Next]_vars, Stopping(m), ~dropped'
               PROVE  Stopping(m)' \/ (PacketLeft < m)'
    BY DEF Stopped
  <2>1. running' => running
    BY ThreadAdvances, OthersLeave DEF Stopping
  <2>2. (Thread => PacketLeft' < PacketLeft) /\ (~Thread => PacketLeft' = PacketLeft)
    BY PacketRuns DEF Stopping
  <2> QED BY <2>1, <2>2, Zenon DEF Stopping
<1>2. RecvInv /\ [Next]_vars /\ Stopping(m) /\ <<Thread>>_vars => Stopped(m)'
  <2> SUFFICES ASSUME RecvInv, [Next]_vars, Stopping(m), Thread, ~dropped'
               PROVE  (PacketLeft < m)'
    BY DEF Stopped
  <2>1. PacketLeft' < PacketLeft
    BY PacketRuns DEF Stopping
  <2> QED BY <2>1, Zenon DEF Stopping
<1>3. RecvInv /\ Stopping(m) => Ready \/ Waiting
  BY ReadyOrWaiting, LeftTypes DEF Stopping
<1>4. RecvInv /\ [Next]_vars /\ Ready => Ready' \/ <<Thread>>_vars
  BY ReadyOrTaken
<1>5. RecvInv /\ [Next]_vars /\ Stopping(m) /\ Waiting
        /\ <<\E n \in 1..StreamEnd : BytesArrive(n)>>_vars
        => Ready' \/ <<Thread>>_vars
  <2> SUFFICES ASSUME RecvInv, [Next]_vars, Stopping(m), Waiting,
                      \E n \in 1..StreamEnd : BytesArrive(n), vars' # vars, ~Thread
               PROVE  Ready'
    OBVIOUS
  <2>1. pc \in {"poll", "header", "bodyPoll", "body"}
    BY LeftTypes DEF Stopping, RecvInv, Types, TypeOK, InStep
  <2> QED BY <2>1, ReadyStays
<1>6. Stopping(m) => ~dropped
  BY DEF Stopping
<1>7. ~running /\ PacketLeft = m => Stopping(m) \/ Stopped(m)
  BY DEF Stopping, Stopped
<1>8. Stopped(m) => PacketLeft < m \/ dropped
  BY DEF Stopped
<1> QED
  BY <1>1, <1>2, <1>3, <1>4, <1>5, <1>6, <1>7, <1>8, RecvInit, RecvStep, PTL
     DEF LiveSpec, Spec, ThreadCanStep

(* A packet waited for with so much left to do, and with less. *)
AwaitsAt(k, m) == Awaits(k) /\ StreamLeft(k) = m
Queued(k, m)   == StreamLeft(k) < m \/ Settled(k)

(* On a connection that stays up a packet written comes nearer to the      *)
(* queue again and again, until it is queued, the worker is stopped or a   *)
(* header has been dropped: the step of the argument that                  *)
(* EveryPacketQueued needs for every m.                                    *)
THEOREM QueueGetsOn ==
  ASSUME NEW k \in Nat \ {0}, NEW m \in Nat
  PROVE  LiveSpec /\ []ThreadCanStep
           => (Awaits(k) /\ StreamLeft(k) = m ~> StreamLeft(k) < m \/ Settled(k))
<1>1. RecvInv /\ [Next]_vars /\ AwaitsAt(k, m) => AwaitsAt(k, m)' \/ Queued(k, m)'
  <2> SUFFICES ASSUME RecvInv, [Next]_vars, AwaitsAt(k, m), ~Settled(k)'
               PROVE  AwaitsAt(k, m)' \/ (StreamLeft(k) < m)'
    BY DEF Queued
  <2>1. Awaits(k)'
    <3>1. Len(stream') >= Len(stream) /\ Len(stream) \in Nat
      <4>1. ~dropped /\ ~dropped'
        BY DEF AwaitsAt, Awaits, Settled
      <4> QED BY <4>1, ThreadAdvances, OthersLeave, StreamTypes DEF RecvInv
    <3>2. Len(stream') \in Nat
      <4>1. RecvInv' BY RecvStep
      <4> QED BY <4>1 DEF RecvInv, Types, TypeOK
    <3> QED BY <3>1, <3>2 DEF Awaits, AwaitsAt
  <2>2. /\ Thread => StreamLeft(k)' < StreamLeft(k)
        /\ ~Thread => StreamLeft(k)' = StreamLeft(k)
    BY <2>1, StreamRuns DEF AwaitsAt
  <2> QED BY <2>1, <2>2, Zenon DEF AwaitsAt
<1>2. RecvInv /\ [Next]_vars /\ AwaitsAt(k, m) /\ <<Thread>>_vars => Queued(k, m)'
  <2> SUFFICES ASSUME RecvInv, [Next]_vars, AwaitsAt(k, m), Thread, ~Settled(k)'
               PROVE  (StreamLeft(k) < m)'
    BY DEF Queued
  <2>1. Awaits(k)'
    <3>1. UNCHANGED stream BY ThreadLeaves
    <3> QED BY <3>1 DEF Awaits, AwaitsAt
  <2>2. StreamLeft(k)' < StreamLeft(k)
    BY <2>1, StreamRuns DEF AwaitsAt
  <2> QED BY <2>2, Zenon DEF AwaitsAt
<1>3. RecvInv /\ ExitsStopped /\ AwaitsAt(k, m) => Ready \/ Waiting
  BY ReadyOrWaiting, AwaitedAhead DEF AwaitsAt, Awaits, Settled, ExitsStopped
<1>4. RecvInv /\ [Next]_vars /\ Ready => Ready' \/ <<Thread>>_vars
  BY ReadyOrTaken
<1>5. RecvInv /\ ExitsStopped /\ [Next]_vars /\ AwaitsAt(k, m) /\ Waiting
        /\ <<\E n \in 1..StreamEnd : BytesArrive(n)>>_vars
        => Ready' \/ <<Thread>>_vars
  <2> SUFFICES ASSUME RecvInv, ExitsStopped, [Next]_vars, AwaitsAt(k, m), Waiting,
                      \E n \in 1..StreamEnd : BytesArrive(n), vars' # vars, ~Thread
               PROVE  Ready'
    OBVIOUS
  <2>1. pc \in {"poll", "header", "bodyPoll", "body"}
    BY DEF AwaitsAt, Awaits, Settled, ExitsStopped, RecvInv, Types, TypeOK, InStep
  <2> QED BY <2>1, ReadyStays
<1>6. AwaitsAt(k, m) => ~dropped
  BY DEF AwaitsAt, Awaits, Settled
<1>7. Awaits(k) /\ StreamLeft(k) = m => AwaitsAt(k, m)
  BY DEF AwaitsAt
<1>8. Init => ExitsStopped
  BY DEF Init, ExitsStopped
<1>9. Queued(k, m) => StreamLeft(k) < m \/ Settled(k)
  BY DEF Queued
<1> QED
  BY <1>1, <1>2, <1>3, <1>4, <1>5, <1>6, <1>7, <1>8, <1>9, RecvInit, RecvStep,
     ExitStep, PTL
     DEF LiveSpec, Spec, ThreadCanStep
=============================================================================
