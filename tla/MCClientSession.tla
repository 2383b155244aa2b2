--------------------------- MODULE MCClientSession ---------------------------
(* ClientSession with the packet kinds named and small bounds.             *)
EXTENDS ClientSession

CONSTANT S_OTHER        \* any packet of the server but S_LOGIN

MCServerPacket == {S_LOGIN, S_OTHER}
=============================================================================
