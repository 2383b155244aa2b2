SPECIFICATION LiveSpec
CONSTANTS
  S_LOGIN = S_LOGIN
  S_OTHER = S_OTHER
  INVALID = INVALID
  ServerPacket <- MCServerPacket
  C_LOGIN = C_LOGIN
  C_ENTER_GAME = C_ENTER_GAME
  C_LEAVE_GAME = C_LEAVE_GAME
  C_PLAY = C_PLAY
  Pieces = 2
  MaxServer = 2
  MaxForeign = 1
  MaxOut = 2
INVARIANTS TypeOK NoUseAfterFree ReceivedInOrder SentInOrder LoginFirst
PROPERTIES IncomingIsChannel OutgoingIsChannel EveryArrivalHandled EveryPacketSent DeinitializeEnds
CHECK_DEADLOCK FALSE
