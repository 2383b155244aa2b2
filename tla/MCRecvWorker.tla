---------------------------- MODULE MCRecvWorker ----------------------------
(* RecvWorker on small packets: headers of two bytes, bodies of at most    *)
(* two, so that a header, a body and the place between them can each be    *)
(* split by a delivery.                                                    *)
EXTENDS RecvWorker

MCBodySize == {0, 1, 2}
MCForeignSize == {-1, 0, 2}
=============================================================================
