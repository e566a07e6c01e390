SPECIFICATION Spec
CONSTANTS
  Servo = {s1, s2}
  MaxId = 2
  ScanTask = {t1}
  Request <- Renaming
  ConfigIds <- OneList
  Faults = {}
INVARIANTS EstopStopsEveryServo
