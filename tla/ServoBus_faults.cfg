SPECIFICATION Spec
CONSTANTS
  Servo = {s1}
  MaxId = 1
  ScanTask = {t1, t2}
  Request <- AllKinds
  ConfigIds <- BothLists
  Faults = {"loss", "send", "timeout", "notask", "reboot"}
SYMMETRY Interchangeable
INVARIANTS TypeOK UartExclusive OneScan AbortedByEstop EstopPreemptsScan SetIdAnswered EstopTruthful
