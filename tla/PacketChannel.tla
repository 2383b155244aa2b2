---------------------------- MODULE PacketChannel ----------------------------
(***************************************************************************)
(* What the receive path promises: the packets the server wrote to the     *)
(* connection come out of PacketSession's RecvPacketQueue in the order     *)
(* they were written, each whole and none twice.  Nothing is promised      *)
(* about when, nor about the packets still on their way when the           *)
(* connection ends.                                                        *)
(***************************************************************************)
EXTENDS Naturals, Sequences

CONSTANT Packet       \* the packets the server may write

VARIABLES
  written,            \* every packet the server has written, in order
  queued              \* every packet handed to RecvPacketQueue, in order

channelVars == <<written, queued>>

Init == /\ written = <<>>
        /\ queued = <<>>

(* The server (outside the repository) writes one more packet. *)
Write == /\ Len(written') = Len(written) + 1
         /\ written'[Len(written')] \in Packet
         /\ written' = Append(written, written'[Len(written')])
         /\ UNCHANGED queued

(* RecvWorker::Run enqueues the next packet in order. *)
Deliver == /\ Len(queued) < Len(written)
           /\ queued' = Append(queued, written[Len(queued) + 1])
           /\ UNCHANGED written

Next == Deliver \/ Write

Spec == Init /\ [][Next]_channelVars
=============================================================================
