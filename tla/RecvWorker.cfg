SPECIFICATION LiveSpec
CONSTANTS
  HeaderSize = 2
  BodySize <- MCBodySize
  ForeignSize <- MCForeignSize
  MaxPackets = 3
INVARIANTS TypeOK InStepUntilDropped
PROPERTIES ChannelUntilDropped EveryPacketQueued StopEndsThread
CHECK_DEADLOCK FALSE
