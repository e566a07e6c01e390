SPECIFICATION FairSpec
CONSTANTS
  Servo = {s1, s2}
  MaxId = 2
  ScanTask = {t1}
  Request <- Scanning
  ConfigIds <- OneList
  Faults = {"timeout"}
INVARIANTS ScanExact
PROPERTIES ScanEnds
