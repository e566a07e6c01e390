SPECIFICATION Spec
CONSTANTS
  Servo = {s1, s2}
  MaxId = 2
  ScanTask = {t1}
  Request <- Addressing
  ConfigIds <- OneList
  Faults = {"timeout"}
SYMMETRY Interchangeable
INVARIANTS DistinctIds EepromRelocked RestoreComplete
