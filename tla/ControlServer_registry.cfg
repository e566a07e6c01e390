SPECIFICATION Spec
CONSTANTS
  Node = {h, s}
  Serial = {s}
  Task = {t1, t2}
  Target = {p}
  MaxLinks = 2
  MaxOwed = 0
  Request = {"move", "estop", "add", "remove"}
  Faults = {"refuse", "timeout", "garbage", "unsupported"}
INVARIANTS
  TypeOK
  RegistryAgrees
  LinkExclusive
  EstopReachesAll
SYMMETRY Symmetry
