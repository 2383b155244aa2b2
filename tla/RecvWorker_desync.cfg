SPECIFICATION Spec
CONSTANTS
  HeaderSize = 2
  BodySize <- MCBodySize
  ForeignSize <- MCForeignSize
  MaxPackets = 2
INVARIANT HeaderAtPacketStart
CHECK_DEADLOCK FALSE
