SPECIFICATION Spec
CONSTANTS
  Version = {A, B}
  Request = {"put", "name", "wifi", "upload", "delete", "restart", "ota"}
  Faults = {"crash", "erase", "flash", "spiffs", "net"}
SYMMETRY Interchangeable
INVARIANTS
  TypeOK
  RunningIsStored
  ProvisionedComplete
  BackupCurrent
  Durable
  RunningImageIntact
