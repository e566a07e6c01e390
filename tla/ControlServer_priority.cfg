SPECIFICATION Spec
CONSTANTS
  Node = {h, s}
  Serial = {s}
  Task = {t1, t2}
  Target = {p, q}
  MaxLinks = 1
  MaxOwed = 1
  Request = {"move", "estop"}
  Faults = {}
PROPERTIES
  EstopHasPriority
