SPECIFICATION RegistersSpec
CONSTANTS
  Speed = {0, 1}
  MaxAngle = {0, 4095}
  Mode = {0, 1}
  MaxCalls = 2
  MaxTimers = 1
  Nothing = Nothing
INVARIANTS
  WheelTurnsAsClicked
