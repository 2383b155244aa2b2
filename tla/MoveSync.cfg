SPECIFICATION LiveSpec
CONSTANTS
  MaxPos = 2
  SpawnPos = 1
  Period = 2
  Braking = 1
  MaxInFlight = 2
INVARIANTS TypeOK StopIsReported RestIsClose
PROPERTY ScreensAgree
